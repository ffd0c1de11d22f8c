------------------------------ MODULE ShowPic ------------------------------
(***************************************************************************)
(* develop/showpic.cc and text.cc: programs that draw with the classes     *)
(* Basskylt and Image.  The constructor of the global basskylt reads the   *)
(* bank, the mode and the memory of the card once; from then on the        *)
(* program goes by what it read then, while the tools bank and mode switch *)
(* the card.                                                               *)
(*                                                                         *)
(* The cells of the card are bytes; the picture is drawn in the bank that  *)
(* was on display, byte by byte.                                           *)
(***************************************************************************)
EXTENDS Board, Images, FiniteSets

CONSTANTS
  Files,      \* the picture files: [w, h, light]
  Memory      \* what the banks may hold at first

ASSUME ShowPicAssumption ==
  /\ Cells = Places
  /\ Memory \subseteq [Places -> [Bits -> {0, 1}]]
  /\ \A f \in Files : f.w \in Nat /\ f.h \in Nat

VARIABLES
  prog,       \* "showpic" or "text"
  spc,        \* what it does next
  cbank,      \* Bank and Mode of basskylt
  cmode,
  img,        \* the picture, i2 in text.cc, and its width
  width,
  x,          \* the variable of that name
  k,          \* the bytes that the write of PutImage has stored
  before,     \* history: the memory at the start
  switched    \* history: another program has switched the bank or the mode

spvars == <<prog, spc, cbank, cmode, img, width, x, k, before, switched>>

ShowPicInit ==
  /\ ram \in [Banks -> Memory] /\ bank \in Banks /\ mode \in Modes
  /\ prog \in {"showpic", "text"} /\ spc = "bank" /\ cbank = 0 /\ cmode = 0
  /\ img = <<>> /\ width = 0 /\ x = 0 /\ k = 0
  /\ before = ram /\ switched = FALSE

\* basskylt.Cache().  What it reads of the memory is never used.
Bank_Cache ==
  /\ spc = "bank" /\ spc' = "mode" /\ cbank' = bank
  /\ UNCHANGED <<board, prog, cmode, img, width, x, k, before, switched>>

Mode_Cache ==
  /\ spc = "mode" /\ spc' = "import" /\ cmode' = mode
  /\ UNCHANGED <<board, prog, cbank, img, width, x, k, before, switched>>

\* text inserts the picture in one of 24 lines; new leaves its other lines as they
\* are.  For a file that is not there nothing can be said: it has no size.
Import ==
  /\ spc = "import" /\ spc' = "loop"
  /\ \E f \in Files, junk \in {0, 1} :
       /\ IF prog = "showpic" THEN f.h = ROWS ELSE f.h <= ROWS
       /\ width' = f.w
       /\ LET pic == ImportPNG(f.light, f.w, f.h)
          IN  img' = IF prog = "showpic" THEN pic
                     ELSE InsertImage([p \in Box(f.w, ROWS) |-> junk], pic, 0, 0)
  /\ UNCHANGED <<board, prog, cbank, cmode, x, k, before, switched>>

\* text shows the left end of its picture every time.
Window(n) == GetSubImage(img, IF prog = "showpic" THEN n ELSE 0, 0,
                         (IF prog = "showpic" THEN n ELSE 0) + COLS - 1, ROWS - 1)

\* Mutant: the cached mode is not looked at.
PutImage_anyMode ==
  /\ spc = "loop" /\ x < width - COLS
  /\ k < Cardinality(Cells)
  /\ Poke(cbank, k, Packed(Window(x))[k]) /\ k' = k + 1 /\ UNCHANGED x
  /\ UNCHANGED <<prog, spc, cbank, cmode, img, width, before, switched>>

\* A byte of the picture, or a step of the loop; in the other modes PutImage does
\* nothing.
PutImage ==
  /\ spc = "loop" /\ x < width - COLS
  /\ IF cmode = OneBit /\ k < Cardinality(Cells)
     THEN Poke(cbank, k, Packed(Window(x))[k]) /\ k' = k + 1 /\ UNCHANGED x
     ELSE k' = 0 /\ x' = x + 1 /\ UNCHANGED board
  /\ UNCHANGED <<prog, spc, cbank, cmode, img, width, before, switched>>

Return ==
  /\ spc = "loop" /\ x >= width - COLS /\ spc' = "done"
  /\ UNCHANGED <<board, prog, cbank, cmode, img, width, x, k, before, switched>>

Program == Bank_Cache \/ Mode_Cache \/ Import \/ PutImage \/ Return

\* The tools bank and mode, at any time.
Tools ==
  /\ spc # "off" /\ switched' = TRUE
  /\ (\E b \in Banks : ioctl_SETBANK(b)) \/ (\E m \in Modes : ioctl_SETMODE(m))
  /\ UNCHANGED <<prog, spc, cbank, cmode, img, width, x, k, before>>

ShowPicNext == Program \/ Tools

ShowPicSpec == ShowPicInit /\ [][ShowPicNext]_<<board, spvars>>

----------------------------------------------------------------------------
(* Properties *)

\* Unless another program switches the card, the sign shows, pixel by pixel, the
\* window x as far as it has been drawn and behind it the window before, at first
\* what was there before: never a mixture of more than two, or of other pictures.
\* All three ways to read a picture back agree on it.
ShowsWindow ==
  spc = "loop" /\ cmode = OneBit /\ ~switched =>
    LET shown == p_shows(Screen)
        last == IF x = 0 THEN p_shows(before[cbank]) ELSE Window(x - 1)
    IN  /\ \A p \in Box(COLS, ROWS) :
             shown[p] = (IF p[1] \div BYTE + p[2] * ROWSIZ < k THEN Window(x)[p] ELSE last[p])
        /\ ConvFrom1Bit(Screen) = shown /\ sp_shows(<<Screen>>) = shown

\* Whatever the tools do, only the bank that was on display when the program began
\* is drawn in, and none if its mode was not one bit then.
Blind == spc # "off" =>
  \A b \in Banks : ram[b] # before[b] => b = cbank /\ cmode = OneBit
=============================================================================
