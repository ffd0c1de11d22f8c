------------------------------- MODULE Images -------------------------------
(***************************************************************************)
(* The pictures of the sign, 96 by 24 with eight pixels to a byte: the     *)
(* class Image and ImportPNG of develop/, and the tools of utils/ that     *)
(* write and show .sif files.  An Image is a function on <<x, y>>; a file  *)
(* or a bank is a function from the places of bytes to bytes; a byte is a  *)
(* function from the numbers of bits, the lowest 0, to 0 and 1.            *)
(***************************************************************************)
EXTENDS Integers, Sequences

CONSTANTS COLS, ROWS, BYTE    \* 96, 24 and 8

ASSUME ImagesAssumption ==
  ROWS \in Nat /\ BYTE \in Nat \ {0} /\ COLS \in {BYTE * k : k \in 1..COLS}

ROWSIZ == COLS \div BYTE
Places == 0..(ROWSIZ * ROWS - 1)
Bits == 0..(BYTE - 1)
Box(w, h) == (0..(w - 1)) \X (0..(h - 1))

\* A pixel of the file is light if its three colours add up to more than 100; the
\* three EOFs behind the end of a file add up to -3.
ImportPNG(file, w, h) ==
  [p \in Box(w, h) |->
     LET n == p[2] * w + p[1] + 1
     IN  IF (IF n <= Len(file) THEN file[n] ELSE -3) > 100 THEN 1 ELSE 0]

\* Both corners belong to the part.
GetSubImage(img, x1, y1, x2, y2) ==
  [p \in Box(x2 - x1 + 1, y2 - y1 + 1) |-> img[<<p[1] + x1, p[2] + y1>>]]

InsertImage(dst, img, xp, yp) ==
  [p \in DOMAIN dst |->
     LET q == <<p[1] - xp, p[2] - yp>> IN IF q \in DOMAIN img THEN img[q] ELSE dst[p]]

\* Mutant: the first pixel is the highest bit.
Packed_high(w) ==
  [c \in Places |-> [b \in Bits |-> w[<<BYTE * (c % ROWSIZ) + BYTE - 1 - b, c \div ROWSIZ>>]]]

\* The bytes that PutImage writes: the first pixel is the lowest bit.
Packed(w) == [c \in Places |-> [b \in Bits |-> w[<<BYTE * (c % ROWSIZ) + b, c \div ROWSIZ>>]]]

\* ConvFrom1Bit goes over the bytes and the pixels in one sweep.
ConvFrom1Bit(bytes) ==
  [p \in Box(COLS, ROWS) |->
     LET n == p[2] * COLS + p[1] IN bytes[n \div BYTE][n % BYTE]]

\* Mutant: the first pixel is the lowest bit.
writefile_low(img) == [c \in Places |-> [b \in Bits |-> IF img[c * BYTE + b] = 0 THEN 0 ELSE 1]]

\* img2sif's writefile: img is an array of pixels, the first is the highest bit.
writefile(img) ==
  [c \in Places |-> [b \in Bits |-> IF img[c * BYTE + BYTE - 1 - b] = 0 THEN 0 ELSE 1]]

\* What p shows of a file.
p_shows(bytes) ==
  [p \in Box(COLS, ROWS) |-> bytes[p[1] \div BYTE + p[2] * ROWSIZ][p[1] % BYTE]]

\* What sp shows of a file with the given planes, one or four.
sp_shows(planes) ==
  [p \in Box(COLS, ROWS) |->
     LET bit(j) == planes[j][p[1] \div BYTE + p[2] * ROWSIZ][p[1] % BYTE] * 2^(j - 1)
         val[j \in 0..Len(planes)] == IF j = 0 THEN 0 ELSE val[j - 1] + bit(j)
     IN  val[Len(planes)]]
=============================================================================
