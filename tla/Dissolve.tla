------------------------------ MODULE Dissolve ------------------------------
(***************************************************************************)
(* develop/random.c: the program that dissolves the picture on display     *)
(* into a new one, in the bank that is on display, pixel by pixel in a     *)
(* random order.  A pixel is changed by reading its byte, replacing one    *)
(* bit and writing the byte back.  At the end the new picture is written   *)
(* into the next bank too, and the display is switched to it.              *)
(*                                                                         *)
(* The cells of the card are single pixels here.  The tools bank and mode  *)
(* may be run at any time (they write the registers and nothing else).     *)
(***************************************************************************)
EXTENDS Board, FiniteSets

CONSTANTS
  N,           \* BITSPERPIC, 2304
  Width,       \* bits in a byte, 8
  Pictures     \* the pictures in files and on the card

Pixels == 0..(N - 1)
Bits == 0..(Width - 1)
Bytes == 0..((N \div Width) - 1)

ASSUME DissolveAssumption ==
  /\ Width \in Nat \ {0}
  /\ N \in Nat \ {0} /\ N % Width = 0
  /\ Cells = Pixels
  /\ Pictures \subseteq [Pixels -> {0, 1}]

VARIABLES
  pc,        \* what the program does next
  pArray,    \* the order of the pixels
  i,         \* the loop variable of MakeUnsortedArray, then of NextImage
  nBank,     \* the variable of that name
  pBuf,      \* the new picture, once it has been read
  b,         \* the byte that has been read and not yet written back
  steady     \* history: no tool has switched to another bank so far

local == <<pc, pArray, i, nBank, pBuf, b>>
vars == <<ram, bank, mode, pc, pArray, i, nBank, pBuf, b, steady>>

Identity == [j \in Pixels |-> j]
ZeroByte == [k \in Bits |-> 0]

TypeOK ==
  /\ ram \in [Banks -> [Pixels -> {0, 1}]]
  /\ bank \in Banks
  /\ mode \in Modes
  /\ pc \in {"open", "setmode", "getmode", "getbank", "shuffle", "read", "load",
             "store", "write", "setbank", "done", "failed"}
  /\ pArray \in [Pixels -> Pixels]
  /\ i \in 0..N
  /\ pc \in {"load", "store"} => i < N
  /\ nBank \in Banks
  /\ pBuf \in [Pixels -> {0, 1}]
  /\ b \in [Bits -> {0, 1}]
  /\ steady \in BOOLEAN

Init ==
  /\ ram \in [Banks -> Pictures]
  /\ bank \in Banks
  /\ mode \in Modes
  /\ pc = "open"
  /\ pArray = Identity
  /\ i = 0
  /\ nBank = 0
  /\ pBuf \in Pictures     \* uninitialised
  /\ b = ZeroByte
  /\ steady = TRUE

----------------------------------------------------------------------------
(* NextImage up to the loop.  A return before it ends the program.         *)

\* The picture file is opened, or cannot be.
OpenFile ==
  /\ pc = "open"
  /\ pc' \in {"setmode", "failed"}
  /\ UNCHANGED <<board, pArray, i, nBank, pBuf, b>>

SetMode ==
  /\ pc = "setmode" /\ pc' = "getmode"
  /\ ioctl_SETMODE(OneBit)
  /\ UNCHANGED <<pArray, i, nBank, pBuf, b>>

\* Mutant: sets the mode again instead of giving up.
GetMode_retries ==
  /\ pc = "getmode"
  /\ pc' = IF mode = OneBit THEN "getbank" ELSE "setmode"
  /\ UNCHANGED <<board, pArray, i, nBank, pBuf, b>>

GetMode ==
  /\ pc = "getmode"
  /\ pc' = IF mode = OneBit THEN "getbank" ELSE "failed"
  /\ UNCHANGED <<board, pArray, i, nBank, pBuf, b>>

\* Mutant: the next bank is dissolved.
GetBank_next ==
  /\ pc = "getbank" /\ pc' = "shuffle"
  /\ nBank' = NextBank(bank)
  /\ pArray' = Identity /\ i' = 0
  /\ UNCHANGED <<board, pBuf, b>>

\* BSGETBANK, and the first loop of MakeUnsortedArray.
GetBank ==
  /\ pc = "getbank" /\ pc' = "shuffle"
  /\ nBank' = bank
  /\ pArray' = Identity /\ i' = 0
  /\ UNCHANGED <<board, pBuf, b>>

\* One turn of MakeUnsortedArray's second loop; p is rand() % nSize.
Shuffle(p) ==
  /\ pc = "shuffle" /\ i < N
  /\ pArray' = [pArray EXCEPT ![i] = pArray[p], ![p] = pArray[i]]
  /\ i' = i + 1
  /\ pc' = IF i + 1 = N THEN "read" ELSE "shuffle"
  /\ UNCHANGED <<board, nBank, pBuf, b>>

\* Mutant: the loop starts at 1.
ReadFile_from1 ==
  /\ pc = "read"
  /\ \/ pc' = "load" /\ pBuf' \in Pictures
     \/ pc' = "failed" /\ UNCHANGED pBuf
  /\ i' = 1
  /\ UNCHANGED <<board, pArray, nBank, b>>

\* read: the file is a picture, or it is too short.
ReadFile ==
  /\ pc = "read"
  /\ \/ pc' = "load" /\ pBuf' \in Pictures
     \/ pc' = "failed" /\ UNCHANGED pBuf
  /\ i' = 0
  /\ UNCHANGED <<board, pArray, nBank, b>>

----------------------------------------------------------------------------
(* The loop over the pixels *)

\* The pixel at bit k of the byte that holds the pixel at hand.
At(k) == Width * (pArray[i] \div Width) + k

\* Mutant: the other bits of the byte are not kept.
Load_alone ==
  /\ pc = "load" /\ pc' = "store"
  /\ b' = [k \in Bits |-> IF k = pArray[i] % Width THEN pBuf[At(k)] ELSE 0]
  /\ UNCHANGED <<board, pArray, i, nBank, pBuf>>

\* b = the byte, with one bit replaced.
Load ==
  /\ pc = "load" /\ pc' = "store"
  /\ b' = [k \in Bits |-> IF k = pArray[i] % Width THEN pBuf[At(k)]
                                                   ELSE ram[nBank][At(k)]]
  /\ UNCHANGED <<board, pArray, i, nBank, pBuf>>

\* The byte, written back; after the last pixel nBank is the next bank.
Store ==
  /\ pc = "store"
  /\ ram' = [ram EXCEPT ![nBank] =
               [pixel \in Pixels |->
                  IF pixel \div Width = pArray[i] \div Width THEN b[pixel % Width]
                                                             ELSE @[pixel]]]
  /\ i' = i + 1
  /\ pc' = IF i + 1 = N THEN "write" ELSE "load"
  /\ nBank' = IF i + 1 = N THEN NextBank(nBank) ELSE nBank
  /\ UNCHANGED <<bank, mode, pArray, pBuf, b>>

\* lseek and write.
Write ==
  /\ pc = "write" /\ pc' = "setbank"
  /\ ram' = [ram EXCEPT ![nBank] = pBuf]
  /\ UNCHANGED <<bank, mode, pArray, i, nBank, pBuf, b>>

SetBank ==
  /\ pc = "setbank" /\ pc' = "done"
  /\ ioctl_SETBANK(nBank)
  /\ UNCHANGED <<pArray, i, nBank, pBuf, b>>

Program ==
  /\ UNCHANGED steady
  /\ \/ OpenFile \/ SetMode \/ GetMode \/ GetBank \/ (\E p \in Pixels : Shuffle(p))
     \/ ReadFile \/ Load \/ Store \/ Write \/ SetBank

\* develop/bank.c and develop/mode.c with -s.
BankTool(to) ==
  /\ ioctl_SETBANK(to)
  /\ steady' = (steady /\ to = bank)
  /\ UNCHANGED local
ModeTool(to) == ioctl_SETMODE(to) /\ UNCHANGED <<local, steady>>

Ended == pc \in {"done", "failed"} /\ UNCHANGED vars

Next ==
  \/ Program \/ Ended
  \/ \E to \in Banks : BankTool(to)
  \/ \E to \in Modes : ModeTool(to)

Spec == Init /\ [][Next]_vars
FairSpec == Spec /\ WF_vars(Program)

----------------------------------------------------------------------------
(* Properties *)

\* The order visits every pixel exactly once: swapping never loses one.
IsPermutation ==
  /\ \A j, k \in Pixels : pArray[j] = pArray[k] => j = k
  /\ \A pixel \in Pixels : \E j \in Pixels : pArray[j] = pixel

Visited == {pArray[j] : j \in 0..(i - 1)}

\* In the loop a visited pixel of the dissolved bank is new, and the byte in
\* hand agrees with the bank in every pixel but the one it is there to change.
DissolvedPart ==
  /\ pc \in {"load", "store"} =>
       \A pixel \in Visited : ram[nBank][pixel] = pBuf[pixel]
  /\ pc = "store" =>
       \A k \in Bits : b[k] = IF At(k) = pArray[i] THEN pBuf[At(k)] ELSE ram[nBank][At(k)]

\* The switch at the end shows nothing new if the dissolved bank is still on
\* display: every pixel had already turned.
LastSwitchInvisible ==
  [][SetBank /\ NextBank(bank) = nBank => Screen' = Screen]_vars

\* While the bank on display stays, a pixel on display changes only by taking
\* its value in the new picture, and until the new picture is written as a
\* whole (a tool may have put that bank on display) one pixel at a time.
NoFlicker ==
  [][bank' = bank =>
       LET changed == {pixel \in Pixels : Screen'[pixel] # Screen[pixel]}
       IN  /\ \A pixel \in changed : Screen'[pixel] = pBuf[pixel]
           /\ pc # "write" => Cardinality(changed) <= 1]_vars

\* The program ends.
Terminates == <>(pc \in {"done", "failed"})

\* The abstract dissolve.
Phase == CASE pc \in {"load", "store", "write", "setbank"} -> "turning"
           [] pc = "done" -> "over"
           [] OTHER -> "waiting"
Todo == IF Phase = "waiting" THEN Pixels ELSE {pArray[j] : j \in i..(N - 1)}

Abstract == INSTANCE PixelDissolve WITH
  screen <- Screen, target <- pBuf, todo <- Todo, phase <- Phase

\* As long as no tool switches banks, the picture on display turns pixel by
\* pixel.
ImplementsDissolve ==
  Abstract!PInit /\ [][steady' => Abstract!PNext]_(Abstract!pvars)
=============================================================================
