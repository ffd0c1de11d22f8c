--------------------------- MODULE VScrollProofs ---------------------------
(***************************************************************************)
(* Proofs about develop/vscroll.c and develop/vscroll2.c for every number  *)
(* of lines and banks, every speed and every clock.                        *)
(***************************************************************************)
EXTENDS VScroll, TLAPS

\* The bank a program draws in is a bank, and not the one it comes after.
LEMMA NextBankDiffers ==
  ASSUME NEW d \in Banks
  PROVE  NextBank(d) \in Banks /\ NextBank(d) # d
<1> USE BankAssumption DEF Banks
<1>1. CASE d + 1 = NBanks
  BY <1>1, SMTT(20) DEF NextBank
<1>2. CASE d + 1 < NBanks
  BY <1>2, SMTT(20) DEF NextBank
<1> QED
  BY <1>1, <1>2

\* The loop variable stays in the range the two bounds of the loop allow.
LoopRange == pc # "done" => i \in 0..Lines

WellTyped == TypeOK /\ LoopRange

\* The program draws in the bank after the one on display.
BankInv ==
  /\ pc = "copyold" => nBank = bank
  /\ pc \in {"copy", "nap", "setbank"} => nBank = NextBank(bank)

\* What has been drawn of the frame at i.
FrameInv ==
  /\ pc = "copy" => \A l \in 0..(copied - 1) : ram[nBank][l] = pBuf[i + l]
  /\ pc \in {"nap", "setbank"} => ram[nBank] = PictureAt(i)

\* The frame on display is the one before i, or still the old picture.
LastFrame == IF i = FirstFrame THEN FirstFrame ELSE IF up THEN i - 1 ELSE i + 1

ScreenInv ==
  /\ pc \in {"copy", "nap", "setbank", "done"} => Screen = PictureAt(LastFrame)
  /\ pc \notin {"copy", "nap", "setbank", "done"} => i = FirstFrame

ScrollInv == WellTyped /\ BankInv /\ FrameInv /\ ScreenInv

----------------------------------------------------------------------------
\* A program does not turn into the other one.
LEMMA Direction == [Next]_vars => up' = up
BY DEF Next, Program, Ended, vars

\* Every window the loop reads lies in the buffer.
LEMMA WindowFits ==
  ASSUME NEW at \in 0..Lines, NEW l \in Cells
  PROVE  at + l \in BufLines
BY ScrollAssumption DEF BufLines

\* The picture at every place of the loop lies in the buffer.
LEMMA PictureType ==
  ASSUME WellTyped, NEW at \in 0..Lines
  PROVE  /\ PictureAt(at) \in [Cells -> Line]
         /\ \A l \in Cells : PictureAt(at)[l] = pBuf[at + l]
BY WindowFits DEF WellTyped, TypeOK, LoopRange, PictureAt

\* The loop of each program begins and ends where a picture fits.
LEMMA LoopFacts ==
  /\ OldAt \in 0..Lines /\ NewAt \in 0..Lines /\ FirstFrame \in 0..Lines
  /\ FirstFrame = OldAt
  /\ \A j \in 0..Lines : /\ NextFrame(j) \in -1..(Lines + 1)
                         /\ InLoop(NextFrame(j)) => NextFrame(j) \in 0..Lines
                         /\ ~InLoop(NextFrame(j)) => j = NewAt
  /\ InLoop(NextFrame(FirstFrame))
BY ScrollAssumption DEF OldAt, NewAt, FirstFrame, NextFrame, InLoop

\* Before the program starts the state is typed.
LEMMA InitType == Init => WellTyped
<1> SUFFICES ASSUME Init PROVE WellTyped
  OBVIOUS
<1>1. ram \in [Banks -> [Cells -> Line]]
  BY ScrollAssumption DEF Init
<1>2. pBuf \in [BufLines -> Line]
  <2>1. PICK pic \in Pictures : pBuf = [l \in BufLines |-> pic[l % Lines]]
    BY DEF Init
  <2>2. \A l \in BufLines : l % Lines \in Cells
    BY ScrollAssumption, SMTT(30) DEF BufLines
  <2>3. QED
    BY <2>1, <2>2, ScrollAssumption
<1>3. 0 \in Banks /\ 0 \in 0..Lines /\ 0 \in 0..(Wrap - 1) /\ FirstFrame \in -1..(Lines + 1)
      /\ FirstFrame \in 0..Lines
  BY BankAssumption, ScrollAssumption, LoopFacts DEF Banks
<1>4. QED
  BY <1>1, <1>2, <1>3 DEF Init, WellTyped, TypeOK, LoopRange

\* Every step of vscroll and of a signal keeps the state typed.
LEMMA TypeStep == WellTyped /\ [Next]_vars => WellTyped'
<1> SUFFICES ASSUME WellTyped, [Next]_vars PROVE WellTyped'
  OBVIOUS
<1>u. up' = up
  BY Direction
<1> USE <1>u
<1> USE DEF WellTyped, TypeOK, LoopRange
<1>1. CASE ReadFile
  <2>1. pBuf' \in [BufLines -> Line]
    BY <1>1, ScrollAssumption DEF ReadFile
  <2>2. QED
    BY <1>1, <2>1 DEF ReadFile, board
<1>2. CASE SetMode
  BY <1>2 DEF SetMode, ioctl_SETMODE, OneBit, Modes
<1>3. CASE GetBank
  BY <1>3 DEF GetBank, board
<1>4. CASE CopyOld
  <2>1. pBuf' \in [BufLines -> Line]
    BY <1>4 DEF CopyOld
  <2>2. NextBank(nBank) \in Banks /\ 0 \in 0..Lines /\ 0 < Lines
    BY NextBankDiffers, ScrollAssumption
  <2>3. QED
    BY <1>4, <2>1, <2>2 DEF CopyOld, board
<1>5. CASE CopyLine
  <2>1. /\ copied \in Cells /\ copied + 1 \in 0..Lines
        /\ copied + 1 # Lines => copied + 1 < Lines
    BY <1>5, ScrollAssumption DEF CopyLine
  <2>2. i \in 0..Lines /\ pBuf[i + copied] \in Line
    BY <1>5, <2>1, WindowFits DEF CopyLine
  <2>3. ram' \in [Banks -> [Cells -> Line]]
    BY <1>5, <2>1, <2>2 DEF CopyLine, Poke
  <2>4. QED
    BY <1>5, <2>1, <2>2, <2>3 DEF CopyLine, Poke
<1>6. CASE Nap
  <2>1. PICK elapsed \in Elapsed : nap' = (Share - elapsed) % Wrap
    BY <1>6 DEF Nap
  <2>2. nap' \in 0..(Wrap - 1)
    BY <2>1, ScrollAssumption, SMTT(30)
  <2>3. QED
    BY <1>6, <2>2 DEF Nap, board
<1>7. CASE SetBank
  <2>1. i \in 0..Lines /\ NextBank(nBank) \in Banks /\ 0 \in 0..Lines /\ 0 < Lines
    BY <1>7, NextBankDiffers, ScrollAssumption DEF SetBank
  <2>2. NextFrame(i) \in -1..(Lines + 1) /\ (InLoop(NextFrame(i)) => NextFrame(i) \in 0..Lines)
    BY <2>1, LoopFacts
  <2>3. QED
    BY <1>7, <2>1, <2>2 DEF SetBank, ioctl_SETBANK
<1>8. CASE UNCHANGED vars
  BY <1>8 DEF vars
<1>9. QED
  BY <1>1, <1>2, <1>3, <1>4, <1>5, <1>6, <1>7, <1>8 DEF Next, Program, Ended

\* With the range of the loop, typing is inductive.
LEMMA StaysWellTyped == Spec => []WellTyped
BY InitType, TypeStep, PTL DEF Spec

\* Type correctness of vscroll and vscroll2.
THEOREM TypeCorrect == Spec => []TypeOK
<1>1. WellTyped => TypeOK
  BY DEF WellTyped
<1>2. QED
  BY <1>1, StaysWellTyped, PTL

\* vscroll's `i <= BYTESPERPIC' is not one too many: the last window ends where
\* the buffer ends.
THEOREM WindowStaysInBuffer == Spec => []WindowInBuffer
<1>1. WellTyped => WindowInBuffer
  <2> SUFFICES ASSUME WellTyped, pc = "copy" PROVE i + copied \in BufLines
    BY DEF WindowInBuffer, WellTyped, TypeOK, LoopRange
  <2>1. i \in 0..Lines /\ copied \in Cells
    BY ScrollAssumption DEF WellTyped, TypeOK, LoopRange
  <2>2. QED
    BY <2>1, WindowFits
<1>2. QED
  BY <1>1, StaysWellTyped, PTL

----------------------------------------------------------------------------
\* Every step keeps the variable nBank at the bank on display or after it.
LEMMA BankStep == WellTyped /\ BankInv /\ [Next]_vars => BankInv'
<1> SUFFICES ASSUME WellTyped, BankInv, [Next]_vars PROVE BankInv'
  OBVIOUS
<1>u. up' = up
  BY Direction
<1> USE <1>u
<1>1. CASE ReadFile \/ SetMode \/ GetBank \/ CopyOld
  BY <1>1 DEF BankInv, ReadFile, SetMode, GetBank, CopyOld, ioctl_SETMODE, board
<1>2. CASE CopyLine \/ Nap
  BY <1>2 DEF BankInv, CopyLine, Nap, Poke, board
<1>3. CASE SetBank
  BY <1>3 DEF BankInv, SetBank, ioctl_SETBANK
<1>4. CASE UNCHANGED vars
  BY <1>4 DEF BankInv, vars
<1>5. QED
  BY <1>1, <1>2, <1>3, <1>4 DEF Next, Program, Ended

\* While the program draws, it draws beside the display.
LEMMA DrawsBeside ==
  ASSUME WellTyped, BankInv
  PROVE  /\ pc \in {"copy", "nap", "setbank"} => nBank # bank
         /\ NoTear
BY NextBankDiffers DEF WellTyped, TypeOK, LoopRange, BankInv, NoTear

\* Every step keeps what has been drawn of the frame.
LEMMA FrameStep == WellTyped /\ FrameInv /\ [Next]_vars => FrameInv'
<1> SUFFICES ASSUME WellTyped, FrameInv, [Next]_vars PROVE FrameInv'
  OBVIOUS
<1>u. up' = up
  BY Direction
<1> USE <1>u
<1>1. CASE ReadFile \/ SetMode \/ GetBank
  BY <1>1 DEF FrameInv, ReadFile, SetMode, GetBank
<1>2. CASE CopyOld \/ SetBank
  <2>1. (pc' = "copy" /\ copied' = 0 /\ 0..(0 - 1) = {}) \/ pc' = "done"
    BY <1>2 DEF CopyOld, SetBank
  <2>2. QED
    BY <2>1 DEF FrameInv
<1>3. CASE CopyLine
  <2>1. /\ copied \in 0..(Lines - 1) /\ copied \in Cells /\ i \in 0..Lines
        /\ nBank \in Banks /\ nBank' = nBank /\ pBuf' = pBuf /\ i' = i
        /\ copied' = copied + 1
    BY <1>3, ScrollAssumption DEF WellTyped, TypeOK, LoopRange, CopyLine
  <2>2. \A l \in Cells : ram'[nBank][l] = IF l = copied THEN pBuf[i + copied] ELSE ram[nBank][l]
    BY <1>3, <2>1 DEF WellTyped, TypeOK, LoopRange, CopyLine, Poke
  <2>3. \A l \in 0..copied : ram'[nBank][l] = pBuf[i + l]
    <3>1. \A l \in 0..(copied - 1) : ram[nBank][l] = pBuf[i + l]
      BY <1>3 DEF FrameInv, CopyLine
    <3>2. \A l \in 0..copied : l \in Cells /\ (l = copied \/ l \in 0..(copied - 1))
      BY <2>1, ScrollAssumption
    <3>3. QED
      BY <2>2, <3>1, <3>2
  <2>4. CASE copied + 1 = Lines
    <3>1. pc' = "nap" /\ 0..copied = Cells
      BY <1>3, <2>1, <2>4, ScrollAssumption DEF CopyLine
    <3>2. ram'[nBank] \in [Cells -> Line] /\ PictureAt(i) \in [Cells -> Line]
      BY <2>1, PictureType, TypeStep DEF WellTyped, TypeOK, LoopRange
    <3>3. \A l \in Cells : ram'[nBank][l] = PictureAt(i)[l]
      BY <2>1, <2>3, <3>1, PictureType
    <3>4. ram'[nBank] = PictureAt(i)
      BY <3>2, <3>3
    <3>5. PictureAt(i)' = PictureAt(i)
      BY <2>1 DEF PictureAt
    <3>6. QED
      BY <2>1, <3>1, <3>4, <3>5 DEF FrameInv
  <2>5. CASE copied + 1 # Lines
    <3>1. pc' = "copy" /\ (copied + 1) - 1 = copied
      BY <1>3, <2>1, <2>5 DEF CopyLine
    <3>2. QED
      BY <2>1, <2>3, <3>1 DEF FrameInv
  <2>6. QED
    BY <2>4, <2>5
<1>4. CASE Nap
  BY <1>4 DEF FrameInv, Nap, board, PictureAt
<1>5. CASE UNCHANGED vars
  BY <1>5 DEF FrameInv, vars, PictureAt
<1>6. QED
  BY <1>1, <1>2, <1>3, <1>4, <1>5 DEF Next, Program, Ended

\* The window at FirstFrame is the half of the buffer that CopyOld fills.
LEMMA OldPicture ==
  ASSUME WellTyped, BankInv, ScreenInv, CopyOld, up' = up
  PROVE  PictureAt(FirstFrame)' = Screen
<1>1. nBank = bank /\ bank \in Banks /\ Screen \in [Cells -> Line]
  BY DEF WellTyped, TypeOK, LoopRange, BankInv, CopyOld, Screen
<1>2. ASSUME NEW l \in Cells
      PROVE  pBuf'[FirstFrame + l] = Screen[l]
  <2>1. FirstFrame + l \in BufLines
    BY LoopFacts, WindowFits
  <2>2. (FirstFrame + l) - OldAt = l
    BY LoopFacts, ScrollAssumption
  <2>3. QED
    BY <1>1, <2>1, <2>2 DEF CopyOld, Screen
<1>3. [l \in Cells |-> pBuf'[FirstFrame + l]] = Screen
  BY <1>1, <1>2
<1>4. QED
  BY <1>3 DEF PictureAt, FirstFrame

\* Every step leaves a whole frame on the sign.
LEMMA ScreenStep ==
  WellTyped /\ BankInv /\ FrameInv /\ ScreenInv /\ [Next]_vars => ScreenInv'
<1> SUFFICES ASSUME WellTyped, BankInv, FrameInv, ScreenInv, [Next]_vars PROVE ScreenInv'
  OBVIOUS
<1>u. up' = up
  BY Direction
<1> USE <1>u
<1>1. CASE ReadFile \/ SetMode \/ GetBank
  BY <1>1 DEF ScreenInv, ReadFile, SetMode, GetBank, FirstFrame
<1>2. CASE CopyOld
  <2>1. i' = FirstFrame /\ Screen' = Screen /\ pc' = "copy"
    BY <1>2 DEF CopyOld, ScreenInv, board, Screen
  <2>2. LastFrame' = FirstFrame
    BY <2>1 DEF LastFrame, FirstFrame
  <2>3. PictureAt(FirstFrame)' = Screen
    BY <1>2, OldPicture
  <2>4. Screen' = PictureAt(LastFrame)'
    BY <2>1, <2>2, <2>3 DEF PictureAt, FirstFrame
  <2>5. QED
    BY <2>1, <2>4 DEF ScreenInv
<1>3. CASE CopyLine \/ Nap
  <2>1. nBank # bank /\ nBank \in Banks /\ bank \in Banks
    BY <1>3, DrawsBeside DEF CopyLine, Nap, WellTyped, TypeOK, LoopRange
  <2>2. UNCHANGED <<Screen, pBuf, i>>
    BY <1>3, <2>1 DEF CopyLine, Nap, Poke, board, Screen, WellTyped, TypeOK, LoopRange
  <2>3. QED
    BY <1>3, <2>2 DEF ScreenInv, CopyLine, Nap, LastFrame, PictureAt, FirstFrame
<1>4. CASE SetBank
  <2>1. i \in 0..Lines /\ Screen' = PictureAt(i) /\ pBuf' = pBuf /\ i' = NextFrame(i)
    BY <1>4 DEF SetBank, ioctl_SETBANK, Screen, FrameInv, WellTyped, TypeOK, LoopRange
  <2>2. LastFrame' = i
    <3>1. i' # FirstFrame
      BY <2>1, ScrollAssumption DEF NextFrame, FirstFrame
    <3>2. QED
      BY <2>1, <3>1, ScrollAssumption DEF LastFrame, NextFrame, FirstFrame
  <2>3. pc' \in {"copy", "done"}
    BY <1>4 DEF SetBank
  <2>4. QED
    BY <2>1, <2>2, <2>3 DEF ScreenInv, PictureAt
<1>5. CASE UNCHANGED vars
  BY <1>5 DEF ScreenInv, vars, Screen, LastFrame, PictureAt, FirstFrame
<1>6. QED
  BY <1>1, <1>2, <1>3, <1>4, <1>5 DEF Next, Program, Ended

\* The invariant of vscroll.
LEMMA ScrollInvariant == Spec => []ScrollInv
<1>1. Init => ScrollInv
  BY InitType DEF Init, ScrollInv, BankInv, FrameInv, ScreenInv
<1>2. ScrollInv /\ [Next]_vars => ScrollInv'
  BY TypeStep, BankStep, FrameStep, ScreenStep DEF ScrollInv
<1>3. QED
  BY <1>1, <1>2, PTL DEF Spec

\* No frame is drawn in the bank on display.
THEOREM NoTearWhileScrolling == Spec => []NoTear
<1>1. ScrollInv => NoTear
  BY DrawsBeside DEF ScrollInv
<1>2. QED
  BY <1>1, ScrollInvariant, PTL

----------------------------------------------------------------------------
(* The programs implement the abstract scroll.                             *)

\* The next window, seen from the one on display: one line up or down.
LEMMA WindowShifts ==
  ASSUME WellTyped, NEW e \in 0..(Lines - 1),
         NEW at, at = IF up THEN e ELSE Lines - e
  PROVE  PictureAt(NextFrame(at)) =
           [l \in 0..(Lines - 1) |->
              IF up THEN IF l < Lines - 1 THEN PictureAt(at)[l + 1] ELSE PictureAt(NewAt)[e]
                    ELSE IF l > 0 THEN PictureAt(at)[l - 1] ELSE PictureAt(NewAt)[Lines - 1 - e]]
<1>1. \A j, l : l \in Cells => PictureAt(j)[l] = pBuf[j + l]
  BY DEF PictureAt
<1>2. /\ Cells = 0..(Lines - 1) /\ e \in Cells /\ Lines - 1 - e \in Cells
      /\ \A l \in Cells : /\ l < Lines - 1 => l + 1 \in Cells
                          /\ l > 0 => l - 1 \in Cells
  BY ScrollAssumption
<1>3. CASE up
  <2>1. NextFrame(at) = e + 1 /\ at = e /\ NewAt = Lines
    BY <1>3 DEF NextFrame, NewAt
  <2>2. ASSUME NEW l \in Cells
        PROVE  pBuf[(e + 1) + l] = IF l < Lines - 1 THEN PictureAt(e)[l + 1] ELSE PictureAt(Lines)[e]
    <3>1. CASE l < Lines - 1
      <4>1. (e + 1) + l = e + (l + 1)
        BY <1>2
      <4>2. QED
        BY <1>1, <1>2, <3>1, <4>1
    <3>2. CASE ~(l < Lines - 1)
      <4>1. (e + 1) + l = Lines + e
        BY <1>2, <3>2, ScrollAssumption
      <4>2. QED
        BY <1>1, <1>2, <3>2, <4>1
    <3>3. QED
      BY <3>1, <3>2
  <2>3. QED
    BY <1>2, <1>3, <2>1, <2>2 DEF PictureAt
<1>4. CASE ~up
  <2>1. NextFrame(at) = Lines - e - 1 /\ at = Lines - e /\ NewAt = 0
    BY <1>4 DEF NextFrame, NewAt
  <2>2. ASSUME NEW l \in Cells
        PROVE  pBuf[(Lines - e - 1) + l] =
                 IF l > 0 THEN PictureAt(Lines - e)[l - 1] ELSE PictureAt(0)[Lines - 1 - e]
    <3>1. CASE l > 0
      <4>1. (Lines - e - 1) + l = (Lines - e) + (l - 1)
        BY <1>2, ScrollAssumption
      <4>2. QED
        BY <1>1, <1>2, <3>1, <4>1
    <3>2. CASE ~(l > 0)
      <4>1. (Lines - e - 1) + l = 0 + (Lines - 1 - e)
        BY <1>2, <3>2, ScrollAssumption
      <4>2. QED
        BY <1>1, <1>2, <3>2, <4>1
    <3>3. QED
      BY <3>1, <3>2
  <2>3. QED
    BY <1>2, <1>4, <2>1, <2>2 DEF PictureAt
<1>5. QED
  BY <1>3, <1>4

\* Steps before and between the switches leave the abstract scroll alone.
LEMMA Stutter ==
  ASSUME up' = up, Screen' = Screen, i' = i, Phase' = Phase, PictureAt(NewAt)' = PictureAt(NewAt)
  PROVE  UNCHANGED Scroll!lvars
BY DEF Scroll!lvars, Entered, Shown

\* Every step of vscroll is a step or a stutter of the abstract scroller.
LEMMA RefinementStep ==
  ASSUME ScrollInv, [Next]_vars
  PROVE  [Scroll!LNext]_(Scroll!lvars)
<1>u. up' = up
  BY Direction
<1> USE <1>u
<1>0. WellTyped /\ BankInv /\ FrameInv /\ ScreenInv
  BY DEF ScrollInv
<1>1. CASE ReadFile
  <2>1. Phase = "waiting" /\ Screen' = Screen /\ i' = i
    BY <1>1 DEF ReadFile, Phase, board, Screen
  <2>2. CASE pc' = "failed" /\ UNCHANGED pBuf
    <3>1. Phase' = "waiting" /\ PictureAt(NewAt)' = PictureAt(NewAt)
      BY <2>2 DEF Phase, PictureAt, NewAt
    <3>2. QED
      BY <2>1, <3>1, Stutter
  <2>3. ASSUME NEW pic \in Pictures, pc' = "setmode",
               pBuf' = [l \in BufLines |-> IF l - NewAt \in Cells THEN pic[l - NewAt] ELSE pBuf[l]]
        PROVE  Scroll!Begin
    <3>1. \A l \in Cells : NewAt + l \in BufLines /\ (NewAt + l) - NewAt = l
      BY WindowFits, LoopFacts, ScrollAssumption
    <3>2. [l \in Cells |-> pBuf'[NewAt + l]] = pic
      BY <2>3, <3>1, ScrollAssumption
    <3>3. PictureAt(NewAt)' \in Pictures
      BY <3>2 DEF PictureAt, NewAt
    <3>4. Phase' = "scrolling" /\ Entered' = Entered
      BY <2>1, <2>3 DEF Phase, Entered, Shown
    <3>5. QED
      BY <2>1, <3>3, <3>4 DEF Scroll!Begin
  <2>4. QED
    BY <1>1, <2>2, <2>3 DEF ReadFile, Scroll!LNext
<1>2. CASE SetMode \/ GetBank
  <2>1. Phase' = Phase /\ Screen' = Screen /\ i' = i
    BY <1>2 DEF SetMode, GetBank, ioctl_SETMODE, Phase, board, Screen
  <2>2. PictureAt(NewAt)' = PictureAt(NewAt)
    BY <1>2 DEF SetMode, GetBank, PictureAt, NewAt
  <2>3. QED
    BY <2>1, <2>2, Stutter
<1>3. CASE CopyOld
  <2>1. Phase' = Phase /\ Screen' = Screen /\ i' = i
    BY <1>3 DEF CopyOld, Phase, board, Screen
  <2>2. ASSUME NEW l \in Cells PROVE pBuf'[NewAt + l] = pBuf[NewAt + l]
    <3>1. NewAt + l \in BufLines
      BY WindowFits, LoopFacts
    <3>2. Lines \in Nat \ {0} /\ up \in BOOLEAN /\ Cells = 0..(Lines - 1)
      BY <1>0, ScrollAssumption DEF WellTyped, TypeOK
    <3>3. (NewAt + l) - OldAt \notin Cells
      <4>1. CASE up
        BY <3>2, <4>1 DEF NewAt, OldAt
      <4>2. CASE ~up
        BY <3>2, <4>2 DEF NewAt, OldAt
      <4>3. QED
        BY <3>2, <4>1, <4>2
    <3>4. QED
      BY <1>3, <3>1, <3>3 DEF CopyOld
  <2>3. PictureAt(NewAt)' = PictureAt(NewAt)
    BY <2>2 DEF PictureAt, NewAt
  <2>4. QED
    BY <2>1, <2>3, Stutter
<1>4. CASE CopyLine \/ Nap
  <2>1. nBank # bank /\ nBank \in Banks /\ bank \in Banks
    BY <1>0, <1>4, DrawsBeside DEF CopyLine, Nap, WellTyped, TypeOK, LoopRange
  <2>2. UNCHANGED <<Screen, pBuf, i>>
    BY <1>0, <1>4, <2>1 DEF CopyLine, Nap, Poke, board, Screen, WellTyped, TypeOK, LoopRange
  <2>3. Phase' = Phase
    BY <1>4 DEF CopyLine, Nap, Phase
  <2>4. PictureAt(NewAt)' = PictureAt(NewAt)
    BY <2>2 DEF PictureAt, NewAt
  <2>5. QED
    BY <2>2, <2>3, <2>4, Stutter
<1>5. CASE SetBank
  <2>1. /\ i \in 0..Lines /\ Screen' = PictureAt(i) /\ i' = NextFrame(i)
        /\ Phase = "scrolling" /\ Screen = PictureAt(LastFrame)
        /\ PictureAt(NewAt)' = PictureAt(NewAt)
    BY <1>0, <1>5 DEF SetBank, ioctl_SETBANK, Screen, FrameInv, ScreenInv, WellTyped, TypeOK, LoopRange, Phase,
       PictureAt, NewAt
  <2>2. /\ Phase' = IF InLoop(NextFrame(i)) THEN "scrolling" ELSE "over"
        /\ InLoop(NextFrame(i)) <=> Shown # Lines
        /\ Shown' = Shown + 1 /\ Shown \in 0..Lines
    <3>1. InLoop(NextFrame(i)) <=> Shown # Lines
      BY <2>1, ScrollAssumption DEF InLoop, NextFrame, Shown
    <3>2. Shown' = Shown + 1 /\ Shown \in 0..Lines
      BY <2>1, ScrollAssumption DEF NextFrame, Shown
    <3>3. Phase' = IF InLoop(NextFrame(i)) THEN "scrolling" ELSE "over"
      BY <1>5 DEF SetBank, Phase
    <3>4. QED
      BY <3>1, <3>2, <3>3
  <2>3. CASE Shown = 0
    <3>1. i = FirstFrame /\ LastFrame = FirstFrame
      BY <2>1, <2>3, ScrollAssumption DEF Shown, FirstFrame, LastFrame
    <3>2. Screen' = Screen /\ Phase' = Phase /\ Entered = 0 /\ Entered' = 0
      BY <2>1, <2>2, <2>3, <3>1, ScrollAssumption DEF Entered
    <3>3. QED
      BY <2>1, <3>2 DEF Scroll!lvars
  <2>4. CASE Shown # 0
    <3> DEFINE e == Shown - 1
    <3>1. e \in 0..(Lines - 1) /\ Entered = e /\ Entered' = e + 1
      BY <2>2, <2>4, ScrollAssumption DEF Entered
    <3>2. LastFrame = (IF up THEN e ELSE Lines - e) /\ NextFrame(LastFrame) = i
      BY <2>1, <2>4, ScrollAssumption DEF Shown, LastFrame, FirstFrame, NextFrame
    <3>3. Screen' = IF up THEN Scroll!ShiftUp ELSE Scroll!ShiftDown
      BY <1>0, <2>1, <3>1, <3>2, WindowShifts DEF Scroll!ShiftUp, Scroll!ShiftDown
    <3>4. Phase' = IF e + 1 = Lines THEN "over" ELSE "scrolling"
      BY <2>2, <3>1
    <3>5. Phase' = "over" => Screen' = PictureAt(NewAt)
      <4>1. ~InLoop(NextFrame(i)) => i = NewAt
        BY <2>1, LoopFacts
      <4>2. QED
        BY <2>1, <2>2, <4>1
    <3>6. Scroll!Shift
      <4>1. Entered < Lines /\ Entered' = Entered + 1
        BY <3>1, ScrollAssumption
      <4>2. Phase' = IF Entered + 1 = Lines THEN "over" ELSE "scrolling"
        BY <3>1, <3>4
      <4> HIDE DEF e
      <4>3. QED
        BY <2>1, <3>3, <3>5, <4>1, <4>2 DEF Scroll!Shift
    <3>7. QED
      BY <3>6 DEF Scroll!LNext
  <2>5. QED
    BY <2>3, <2>4
<1>6. CASE UNCHANGED vars
  <2>1. Screen' = Screen /\ i' = i /\ Phase' = Phase
    BY <1>6 DEF vars, Screen, Phase
  <2>2. PictureAt(NewAt)' = PictureAt(NewAt)
    BY <1>6 DEF vars, PictureAt, NewAt
  <2>3. QED
    BY <2>1, <2>2, Stutter
<1>7. QED
  BY <1>1, <1>2, <1>3, <1>4, <1>5, <1>6 DEF Next, Program, Ended

\* For every number of lines and banks, both programs show nothing but whole
\* shifts by one line and end on the new picture.
THEOREM Refinement == Spec => ImplementsScroll
<1>1. Init => Scroll!LInit
  <2> SUFFICES ASSUME Init PROVE Scroll!LInit
    OBVIOUS
  <2>1. Screen \in Pictures /\ Phase = "waiting" /\ up \in BOOLEAN
    BY DEF Init, Screen, Phase
  <2>2. Entered = 0
    BY ScrollAssumption DEF Init, Entered, Shown, FirstFrame
  <2>3. PictureAt(NewAt) \in Pictures
    <3>1. PICK pic \in Pictures : pBuf = [l \in BufLines |-> pic[l % Lines]]
      BY DEF Init
    <3>2. ASSUME NEW l \in Cells PROVE pBuf[NewAt + l] = pic[l]
      <4>1. Lines \in Nat /\ l \in Nat /\ l < Lines /\ NewAt \in {0, Lines}
        BY ScrollAssumption DEF NewAt
      <4>2. (NewAt + l) % Lines = l
        BY <4>1, SMTT(30)
      <4>3. NewAt + l \in BufLines
        BY LoopFacts, WindowFits
      <4>4. QED
        BY <3>1, <4>2, <4>3
    <3>3. PictureAt(NewAt) = pic
      BY <3>2, ScrollAssumption DEF PictureAt
    <3>4. QED
      BY <3>3
  <2>4. QED
    BY <2>1, <2>2, <2>3 DEF Scroll!LInit
<1>2. ScrollInv /\ [Next]_vars => [Scroll!LNext]_(Scroll!lvars)
  BY RefinementStep
<1>3. QED
  BY <1>1, <1>2, ScrollInvariant, PTL DEF Spec, ImplementsScroll, Scroll!LSpec
=============================================================================
