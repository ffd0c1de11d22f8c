--------------------------- MODULE PicturesProofs ---------------------------
(***************************************************************************)
(* Proofs about utils/utils/gif.c and img2sif.c, for every code size and   *)
(* table and pictures of every size, interlaced or not; and about          *)
(* develop/showpic.cc, for every picture, every place of the window, every *)
(* width of a byte and whatever the memory around holds.                   *)
(***************************************************************************)
EXTENDS Img2sif, ShowPic, FiniteSetTheorems, TLAPS

----------------------------------------------------------------------------
(* Arithmetic of pixels, bytes and bits                                    *)

\* A number has one quotient and one remainder.
LEMMA OneQuotient ==
  ASSUME NEW m \in Nat \ {0}, NEW d \in Nat, NEW r \in 0..(m - 1)
  PROVE  (m * d + r) \div m = d /\ (m * d + r) % m = r
<1> DEFINE n == m * d + r
           e == n \div m
           t == n % m
<1>1. m * d \in Nat
  BY SMTT(30)
<1>2. n \in Nat
  BY <1>1
<1> HIDE DEF n
<1>3. e \in Nat /\ t \in 0..(m - 1) /\ n = m * e + t
  BY <1>2, SMTT(30)
<1>4. n = m * d + r
  BY DEF n
<1> HIDE DEF e, t
<1>5. ~(e < d)
  <2>1. e < d => m * e + m <= m * d
    BY <1>3, SMTT(30)
  <2>2. m * e \in Nat
    BY <1>3, SMTT(30)
  <2> QED
    BY <1>1, <1>3, <1>4, <2>1, <2>2
<1>6. ~(d < e)
  <2>1. d < e => m * d + m <= m * e
    BY <1>3, SMTT(30)
  <2>2. m * e \in Nat
    BY <1>3, SMTT(30)
  <2> QED
    BY <1>1, <1>3, <1>4, <2>1, <2>2
<1>7. e = d /\ t = r
  BY <1>1, <1>3, <1>4, <1>5, <1>6
<1> QED
  BY <1>7 DEF e, t, n

\* Quotient and remainder of natural numbers.
LEMMA Division ==
  ASSUME NEW m \in Nat \ {0}, NEW n \in Nat
  PROVE  n \div m \in Nat /\ n % m \in 0..(m - 1) /\ n = m * (n \div m) + (n % m)
<1> DEFINE e == n \div m
           t == n % m
<1>1. e \in Nat /\ t \in 0..(m - 1) /\ n = m * e + t
  BY SMTT(30)
<1> QED
  BY <1>1

\* A row is a whole number of bytes.
LEMMA WholeRow ==
  /\ ROWSIZ \in Nat /\ COLS \in Nat \ {0} /\ COLS = BYTE * ROWSIZ /\ ROWS \in Nat /\ BYTE \in Nat \ {0}
  /\ ROWSIZ * ROWS \in Nat
<1>1. PICK m \in 1..COLS : COLS = BYTE * m
  BY ImagesAssumption
<1>2. ROWS \in Nat /\ BYTE \in Nat \ {0}
  BY ImagesAssumption
<1>3. COLS \in Int /\ m \in Nat \ {0}
  BY <1>1, <1>2, SMTT(30)
<1>4. 0 \in 0..(BYTE - 1) /\ BYTE * m + 0 = COLS
  BY <1>1, <1>2, <1>3
<1>5. ROWSIZ = m
  BY <1>2, <1>3, <1>4, OneQuotient DEF ROWSIZ
<1>6. ROWSIZ * ROWS \in Nat
  BY <1>2, <1>3, <1>5, SMTT(30)
<1> QED
  BY <1>1, <1>2, <1>3, <1>5, <1>6

\* The place of a pixel's byte in a picture.
Place(p) == p[1] \div BYTE + p[2] * ROWSIZ

\* The place of a pixel's byte, its bit there, and the way back.
LEMMA PixelPlace ==
  ASSUME NEW p \in Box(COLS, ROWS)
  PROVE  /\ Place(p) \in Places /\ p[1] % BYTE \in Bits
         /\ <<BYTE * (Place(p) % ROWSIZ) + (p[1] % BYTE), Place(p) \div ROWSIZ>> = p
         /\ (p[2] * COLS + p[1]) \div BYTE = Place(p) /\ (p[2] * COLS + p[1]) % BYTE = p[1] % BYTE
<1> DEFINE q == p[1] \div BYTE
           a == p[1] % BYTE
           c == q + p[2] * ROWSIZ
           n == p[2] * COLS + p[1]
<1>1. p[1] \in 0..(COLS - 1) /\ p[2] \in 0..(ROWS - 1) /\ p = <<p[1], p[2]>>
  BY DEF Box
<1>2. q \in Nat /\ a \in Bits /\ a \in Nat /\ p[1] = BYTE * q + a
  <2>1. p[1] \in Nat /\ BYTE \in Nat \ {0}
    BY <1>1, WholeRow
  <2>2. q \in Nat /\ a \in 0..(BYTE - 1) /\ p[1] = BYTE * q + a
    BY <2>1, Division
  <2> HIDE DEF q, a
  <2>3. a \in Nat
    BY <2>1, <2>2
  <2> QED
    BY <2>2, <2>3 DEF Bits
<1> HIDE DEF q, a
<1>3. q < ROWSIZ
  <2>1. ~(ROWSIZ <= q)
    <3>1. ROWSIZ <= q => BYTE * ROWSIZ <= BYTE * q
      BY <1>2, WholeRow, SMTT(30)
    <3>2. BYTE * q \in Nat
      BY <1>2, WholeRow, SMTT(30)
    <3> QED
      BY <1>1, <1>2, <3>1, <3>2, WholeRow
  <2> QED
    BY <1>2, <2>1, WholeRow
<1>4. p[2] * ROWSIZ = ROWSIZ * p[2] /\ ROWSIZ * p[2] \in Nat /\ p[2] \in Nat /\ ROWSIZ \in Nat \ {0}
  BY <1>1, <1>2, <1>3, WholeRow, SMTT(30)
<1>5. c % ROWSIZ = q /\ c \div ROWSIZ = p[2]
  <2>1. q \in 0..(ROWSIZ - 1) /\ c = ROWSIZ * p[2] + q
    BY <1>2, <1>3, <1>4
  <2> QED
    BY <1>4, <2>1, OneQuotient
<1>6. c \in Places
  <2>1. ROWSIZ * p[2] + ROWSIZ <= ROWSIZ * ROWS
    BY <1>1, <1>4, WholeRow, SMTT(30)
  <2> QED
    BY <1>2, <1>3, <1>4, <2>1, WholeRow DEF Places
<1>7. n = BYTE * c + a
  <2>1. p[2] * COLS = BYTE * (p[2] * ROWSIZ)
    BY <1>1, WholeRow, SMTT(30)
  <2>2. BYTE * (q + p[2] * ROWSIZ) = BYTE * q + BYTE * (p[2] * ROWSIZ)
    BY <1>2, <1>4, WholeRow, SMTT(30)
  <2>3. BYTE * q \in Nat /\ BYTE * (p[2] * ROWSIZ) \in Nat
    BY <1>2, <1>4, WholeRow, SMTT(30)
  <2> QED
    BY <1>2, <2>1, <2>2, <2>3
<1>8. n \div BYTE = c /\ n % BYTE = a
  <2>1. c \in Nat /\ a \in 0..(BYTE - 1)
    BY <1>2, <1>4 DEF Bits
  <2> HIDE DEF c, n
  <2> QED
    BY <1>7, <2>1, WholeRow, OneQuotient
<1>9. <<BYTE * (c % ROWSIZ) + a, c \div ROWSIZ>> = p
  BY <1>1, <1>2, <1>5
<1>10. Place(p) = c
  BY DEF Place, q
<1>11. Place(p) \in Places /\ p[1] % BYTE \in Bits
  BY <1>2, <1>6, <1>10 DEF a
<1>12. <<BYTE * (Place(p) % ROWSIZ) + (p[1] % BYTE), Place(p) \div ROWSIZ>> = p
  BY <1>9, <1>10 DEF a
<1>13. n \div BYTE = Place(p) /\ n % BYTE = p[1] % BYTE
  BY <1>8, <1>10 DEF a
<1> QED
  BY <1>11, <1>12, <1>13

\* Every bit of a picture is a pixel.
LEMMA PlacePixel ==
  ASSUME NEW c \in Places, NEW b \in Bits
  PROVE  <<BYTE * (c % ROWSIZ) + b, c \div ROWSIZ>> \in Box(COLS, ROWS)
<1> DEFINE q == c % ROWSIZ
           r == c \div ROWSIZ
<1>1. c \in Nat /\ c < ROWSIZ * ROWS /\ ROWSIZ \in Nat \ {0} /\ b \in 0..(BYTE - 1)
  <2>1. c \in Nat /\ c < ROWSIZ * ROWS /\ b \in 0..(BYTE - 1)
    BY WholeRow DEF Places, Bits
  <2>2. ROWSIZ = 0 => ROWSIZ * ROWS = 0
    BY WholeRow, SMTT(30)
  <2> QED
    BY <2>1, <2>2, WholeRow
<1>2. r \in Nat /\ q \in 0..(ROWSIZ - 1) /\ c = ROWSIZ * r + q
  BY <1>1, Division
<1> HIDE DEF q, r
<1>3. r < ROWS
  <2>1. ROWS <= r => ROWSIZ * ROWS <= ROWSIZ * r
    BY <1>1, <1>2, WholeRow, SMTT(30)
  <2>2. ROWSIZ * r \in Nat
    BY <1>1, <1>2, SMTT(30)
  <2> QED
    BY <1>1, <1>2, <2>1, <2>2, WholeRow
<1>4. BYTE * q + b \in 0..(COLS - 1)
  <2>1. BYTE * q + BYTE <= BYTE * ROWSIZ
    BY <1>1, <1>2, WholeRow, SMTT(30)
  <2>2. BYTE * q \in Nat
    BY <1>2, WholeRow, SMTT(30)
  <2> QED
    BY <1>1, <2>1, <2>2, WholeRow
<1>5. r \in 0..(ROWS - 1)
  BY <1>2, <1>3, WholeRow
<1>6. <<BYTE * q + b, r>> \in Box(COLS, ROWS)
  BY <1>4, <1>5 DEF Box
<1> QED
  BY <1>6 DEF q, r

----------------------------------------------------------------------------
(* What the programs have drawn                                            *)

Blocks == [Places -> [Bits -> {0, 1}]]

SPType ==
  /\ ram \in [Banks -> Blocks] /\ before \in [Banks -> Blocks]
  /\ bank \in Banks /\ mode \in Modes /\ cbank \in Banks
  /\ prog \in {"showpic", "text"} /\ spc \in {"bank", "mode", "import", "loop", "done"}
  /\ x \in Nat /\ k \in Nat
  /\ spc \in {"loop", "done"} => width \in Nat /\ img \in [Box(width, ROWS) -> {0, 1}]
  /\ spc \in {"bank", "mode", "import"} => x = 0 /\ k = 0

\* The bank, byte by byte: the window up to the byte at hand, the one before behind it.
DrawnInv ==
  /\ spc \in {"bank", "mode", "import"} => ram = before
  /\ \A b \in Banks : b # cbank \/ cmode # OneBit => ram[b] = before[b]
  /\ spc = "loop" /\ cmode = OneBit => \A c \in Places :
       ram[cbank][c] = IF c < k THEN Packed(Window(x))[c]
                       ELSE IF x = 0 THEN before[cbank][c] ELSE Packed(Window(x - 1))[c]
  /\ spc = "loop" /\ k > 0 => x < width - COLS
  /\ spc = "loop" => x = 0 \/ x <= width - COLS
  /\ spc # "bank" /\ ~switched => bank = cbank

SPInv == SPType /\ DrawnInv

\* A window that lies in the picture is one of the sign's pictures.
LEMMA WindowType ==
  ASSUME SPType, spc = "loop", NEW n \in Nat, n <= width - COLS
  PROVE  Window(n) \in [Box(COLS, ROWS) -> {0, 1}] /\ Packed(Window(n)) \in Blocks
<1> DEFINE m == IF prog = "showpic" THEN n ELSE 0
<1>1. width \in Nat /\ img \in [Box(width, ROWS) -> {0, 1}] /\ m \in Nat /\ m <= width - COLS
  BY WholeRow DEF SPType
<1>2. Window(n) = [p \in Box(COLS, ROWS) |-> img[<<p[1] + m, p[2]>>]]
  <2>1. (m + COLS - 1) - m + 1 = COLS /\ (ROWS - 1) - 0 + 1 = ROWS
    BY <1>1, WholeRow
  <2>2. Window(n) = GetSubImage(img, m, 0, m + COLS - 1, ROWS - 1)
    BY DEF Window
  <2>3. Window(n) = [p \in Box(COLS, ROWS) |-> img[<<p[1] + m, p[2] + 0>>]]
    <3>1. Box((m + COLS - 1) - m + 1, (ROWS - 1) - 0 + 1) = Box(COLS, ROWS)
      BY <2>1
    <3> HIDE DEF m
    <3>2. GetSubImage(img, m, 0, m + COLS - 1, ROWS - 1) =
            [p \in Box((m + COLS - 1) - m + 1, (ROWS - 1) - 0 + 1) |-> img[<<p[1] + m, p[2] + 0>>]]
      BY DEF GetSubImage
    <3> QED
      BY <2>2, <3>1, <3>2
  <2>4. \A p \in Box(COLS, ROWS) : p[2] + 0 = p[2]
    BY WholeRow DEF Box
  <2> HIDE DEF m
  <2> QED
    BY <2>3, <2>4
<1> HIDE DEF m
<1>3. ASSUME NEW p \in Box(COLS, ROWS) PROVE img[<<p[1] + m, p[2]>>] \in {0, 1}
  <2>1. <<p[1] + m, p[2]>> \in Box(width, ROWS)
    BY <1>1, WholeRow DEF Box
  <2> QED
    BY <1>1, <2>1
<1>4. Window(n) \in [Box(COLS, ROWS) -> {0, 1}]
  BY <1>2, <1>3
<1>5. ASSUME NEW c \in Places, NEW b \in Bits
      PROVE  Window(n)[<<BYTE * (c % ROWSIZ) + b, c \div ROWSIZ>>] \in {0, 1}
  <2>1. <<BYTE * (c % ROWSIZ) + b, c \div ROWSIZ>> \in Box(COLS, ROWS)
    BY PlacePixel
  <2> QED
    BY <1>4, <2>1
<1>6. Packed(Window(n)) \in Blocks
  BY <1>5 DEF Packed, Blocks
<1> QED
  BY <1>4, <1>6

\* There are as many places as a picture has bytes.
LEMMA PlacesCount == Cardinality(Cells) = ROWSIZ * ROWS
<1>1. 0 \in Int /\ ROWSIZ * ROWS - 1 \in Int
  BY WholeRow
<1>2. Cardinality(0..(ROWSIZ * ROWS - 1)) = IF 0 > ROWSIZ * ROWS - 1 THEN 0 ELSE (ROWSIZ * ROWS - 1) - 0 + 1
  BY <1>1, FS_Interval
<1> QED
  BY <1>2, WholeRow, ShowPicAssumption DEF Places

\* importpng and the parser of sif files leave a picture of the size they say.
LEMMA ImportType ==
  ASSUME SPType, Import
  PROVE  width' \in Nat /\ img' \in [Box(width', ROWS) -> {0, 1}]
<1>1. PICK f \in Files, junk \in {0, 1} :
        /\ IF prog = "showpic" THEN f.h = ROWS ELSE f.h <= ROWS
        /\ width' = f.w
        /\ img' = IF prog = "showpic" THEN ImportPNG(f.light, f.w, f.h)
                  ELSE InsertImage([p \in Box(f.w, ROWS) |-> junk], ImportPNG(f.light, f.w, f.h), 0, 0)
  BY DEF Import
<1>2. ImportPNG(f.light, f.w, f.h) \in [Box(f.w, f.h) -> {0, 1}]
  BY DEF ImportPNG
<1>3. InsertImage([p \in Box(f.w, ROWS) |-> junk], ImportPNG(f.light, f.w, f.h), 0, 0)
        \in [Box(f.w, ROWS) -> {0, 1}]
  BY <1>2 DEF InsertImage
<1> QED
  BY <1>1, <1>2, <1>3, ShowPicAssumption

\* PutImage keeps the window and what has been drawn of it in step.
LEMMA DrawStep ==
  ASSUME SPInv, PutImage
  PROVE  SPInv'
<1>0. ram \in [Banks -> Blocks] /\ cbank \in Banks /\ x \in Nat /\ k \in Nat /\ width \in Nat
      /\ x <= width - COLS /\ x < width - COLS /\ spc = "loop"
  BY WholeRow DEF SPInv, SPType, PutImage
<1>1. CASE cmode = OneBit /\ k < Cardinality(Cells)
  <2>1. k \in Places
    BY <1>0, <1>1, PlacesCount, WholeRow DEF Places
  <2>2. ram' = [ram EXCEPT ![cbank][k] = Packed(Window(x))[k]] /\ k' = k + 1
        /\ UNCHANGED <<bank, mode, prog, spc, cbank, cmode, img, width, x, before, switched>>
    BY <1>1 DEF PutImage, Poke
  <2>3. Packed(Window(x)) \in Blocks
    BY <1>0, WindowType DEF SPInv
  <2>4. ram' \in [Banks -> Blocks]
    BY <1>0, <2>1, <2>2, <2>3 DEF Blocks
  <2>5. \A c \in Places : ram'[cbank][c] = IF c = k THEN Packed(Window(x))[k] ELSE ram[cbank][c]
    BY <1>0, <2>1, <2>2 DEF Blocks
  <2>6. Window(x)' = Window(x) /\ Window(x - 1)' = Window(x - 1)
    BY <2>2 DEF Window
  <2>7. \A c \in Places : c < k + 1 <=> c = k \/ c < k
    BY <1>0, WholeRow DEF Places
  <2>8. SPType'
    BY <1>0, <2>2, <2>4 DEF SPInv, SPType
  <2>9. \A c \in Places :
       ram'[cbank][c] = IF c < k + 1 THEN Packed(Window(x))[c]
                        ELSE IF x = 0 THEN before[cbank][c] ELSE Packed(Window(x - 1))[c]
    BY <1>0, <1>1, <2>5, <2>7 DEF SPInv, DrawnInv
  <2>10. \A b \in Banks : b # cbank => ram'[b] = ram[b]
    BY <1>0, <2>2
  <2>11. DrawnInv'
    BY <1>0, <1>1, <2>2, <2>6, <2>9, <2>10 DEF SPInv, DrawnInv
  <2> QED
    BY <2>8, <2>11 DEF SPInv
<1>2. CASE ~(cmode = OneBit /\ k < Cardinality(Cells))
  <2>1. k' = 0 /\ x' = x + 1
        /\ UNCHANGED <<ram, bank, mode, prog, spc, cbank, cmode, img, width, before, switched>>
    BY <1>2 DEF PutImage, board
  <2>2. SPType'
    BY <1>0, <2>1 DEF SPInv, SPType
  <2>3. Window(x - 1)' = Window(x)
    <3>1. x' - 1 = x
      BY <1>0, <2>1
    <3> QED
      BY <2>1, <3>1 DEF Window
  <2>4. cmode = OneBit => \A c \in Places : c < k /\ ~(c < 0)
    BY <1>0, <1>2, PlacesCount, WholeRow DEF Places
  <2>5. cmode = OneBit => \A c \in Places : ram[cbank][c] = Packed(Window(x))[c]
    BY <1>0, <2>4 DEF SPInv, DrawnInv
  <2>6. x' # 0 /\ x' <= width - COLS
    BY <1>0, <2>1, WholeRow
  <2>7. DrawnInv'
    BY <1>0, <2>1, <2>3, <2>4, <2>5, <2>6 DEF SPInv, DrawnInv
  <2> QED
    BY <2>2, <2>7 DEF SPInv
<1> QED
  BY <1>1, <1>2

\* Every step of showpic, text and the tools keeps the invariant.
LEMMA SPStep == SPInv /\ [ShowPicNext]_<<board, spvars>> => SPInv'
<1> SUFFICES ASSUME SPInv, [ShowPicNext]_<<board, spvars>> PROVE SPInv'
  OBVIOUS
<1>1. CASE Bank_Cache
  BY <1>1 DEF SPInv, SPType, DrawnInv, Bank_Cache, board
<1>2. CASE Mode_Cache
  BY <1>2 DEF SPInv, SPType, DrawnInv, Mode_Cache, board
<1>3. CASE Import
  <2>1. SPType'
    BY <1>3, ImportType DEF SPInv, SPType, Import, board
  <2>2. DrawnInv'
    <3>1. x = 0 /\ k = 0 /\ spc' = "loop" /\ UNCHANGED <<ram, bank, mode, prog, cbank, cmode, x, k, before, switched>>
          /\ ram = before /\ cbank \in Banks
      BY <1>3 DEF SPInv, SPType, DrawnInv, Import, board
    <3>2. \A c \in Places : ~(c < 0)
      BY WholeRow DEF Places
    <3>3. switched \/ bank = cbank
      BY <1>3 DEF SPInv, DrawnInv, Import
    <3> QED
      BY <3>1, <3>2, <3>3 DEF DrawnInv
  <2> QED
    BY <2>1, <2>2 DEF SPInv
<1>4. CASE PutImage
  BY <1>4, DrawStep
<1>5. CASE Return
  BY <1>5 DEF SPInv, SPType, DrawnInv, Return, board
<1>6. CASE Tools
  <2>1. UNCHANGED <<ram, prog, spc, cbank, cmode, img, width, x, k, before>> /\ switched'
        /\ bank' \in Banks /\ mode' \in Modes
    BY <1>6 DEF SPInv, SPType, Tools, ioctl_SETBANK, ioctl_SETMODE
  <2>2. Window(x)' = Window(x) /\ Window(x - 1)' = Window(x - 1)
    BY <2>1 DEF Window
  <2>3. SPType'
    BY <2>1 DEF SPInv, SPType
  <2>4. DrawnInv'
    BY <2>1, <2>2 DEF SPInv, DrawnInv
  <2> QED
    BY <2>3, <2>4 DEF SPInv
<1>7. CASE UNCHANGED <<board, spvars>>
  <2>1. Window(x)' = Window(x) /\ Window(x - 1)' = Window(x - 1)
    BY <1>7 DEF Window, spvars
  <2> QED
    BY <1>7, <2>1 DEF SPInv, SPType, DrawnInv, board, spvars
<1> QED
  BY <1>1, <1>2, <1>3, <1>4, <1>5, <1>6, <1>7 DEF ShowPicNext, Program

\* The invariant of showpic and text.
LEMMA SPInvariant == ShowPicSpec => []SPInv
<1>1. ShowPicInit => SPInv
  BY ShowPicAssumption, BankAssumption
     DEF ShowPicInit, SPInv, SPType, DrawnInv, Blocks, Banks, Modes
<1> QED
  BY <1>1, SPStep, PTL DEF ShowPicSpec

\* Whatever the tools do, a program draws in the bank that was on display when it
\* began, and in none if its mode was not one bit then.
THEOREM BlindDraws == ShowPicSpec => []Blind
<1>1. SPInv => Blind
  BY DEF SPInv, DrawnInv, Blind
<1> QED
  BY <1>1, SPInvariant, PTL

\* Three ways to read a picture back: pixel by pixel as p and sp do, and in one sweep
\* as ConvFrom1Bit does.
LEMMA ReadBack ==
  ASSUME NEW bytes \in Blocks
  PROVE  /\ p_shows(bytes) \in [Box(COLS, ROWS) -> {0, 1}]
         /\ \A p \in Box(COLS, ROWS) : p_shows(bytes)[p] = bytes[Place(p)][p[1] % BYTE]
         /\ ConvFrom1Bit(bytes) = p_shows(bytes)
         /\ sp_shows(<<bytes>>) = p_shows(bytes)
<1>1. \A p \in Box(COLS, ROWS) : p_shows(bytes)[p] = bytes[Place(p)][p[1] % BYTE]
  BY DEF p_shows, Place
<1>2. \A p \in Box(COLS, ROWS) : bytes[Place(p)][p[1] % BYTE] \in {0, 1}
  BY PixelPlace DEF Blocks
<1>3. p_shows(bytes) \in [Box(COLS, ROWS) -> {0, 1}]
  BY <1>1, <1>2 DEF p_shows
<1>4. ConvFrom1Bit(bytes) = p_shows(bytes)
  <2>1. ASSUME NEW p \in Box(COLS, ROWS)
        PROVE  ConvFrom1Bit(bytes)[p] = bytes[Place(p)][p[1] % BYTE]
    BY PixelPlace DEF ConvFrom1Bit
  <2> QED
    BY <1>1, <2>1 DEF ConvFrom1Bit, p_shows
<1>5. sp_shows(<<bytes>>) = p_shows(bytes)
  <2>1. ASSUME NEW p \in Box(COLS, ROWS)
        PROVE  sp_shows(<<bytes>>)[p] = bytes[Place(p)][p[1] % BYTE]
    <3> DEFINE bit(j) == <<bytes>>[j][p[1] \div BYTE + p[2] * ROWSIZ][p[1] % BYTE] * 2^(j - 1)
               val == CHOOSE val : val = [j \in 0..Len(<<bytes>>) |-> IF j = 0 THEN 0 ELSE val[j - 1] + bit(j)]
               f == [j \in 0..1 |-> IF j = 0 THEN 0 ELSE bit(1)]
    <3>1. bit(1) = bytes[Place(p)][p[1] % BYTE] /\ bit(1) \in {0, 1}
      <4>1. 2^(1 - 1) = 1
        OBVIOUS
      <4> QED
        BY <1>2, <4>1 DEF Place
    <3> HIDE DEF bit
    <3>2. Len(<<bytes>>) = 1
      OBVIOUS
    <3>3. f = [j \in 0..Len(<<bytes>>) |-> IF j = 0 THEN 0 ELSE f[j - 1] + bit(j)]
      BY <3>1, <3>2
    <3>4. val = [j \in 0..Len(<<bytes>>) |-> IF j = 0 THEN 0 ELSE val[j - 1] + bit(j)]
      BY <3>3
    <3> HIDE DEF val
    <3>5. val[1] = bit(1)
      <4>1. val[0] = 0 /\ val[1] = val[0] + bit(1)
        BY <3>2, <3>4
      <4> QED
        BY <3>1, <4>1
    <3>6. sp_shows(<<bytes>>)[p] = val[Len(<<bytes>>)]
      BY DEF sp_shows, bit, val
    <3> QED
      BY <3>1, <3>2, <3>5, <3>6
  <2> QED
    BY <1>1, <2>1 DEF sp_shows, p_shows
<1> QED
  BY <1>1, <1>3, <1>4, <1>5

\* Packed bits are read back as the pixels they were.
LEMMA PackedBack ==
  ASSUME NEW w, NEW p \in Box(COLS, ROWS)
  PROVE  Packed(w)[Place(p)][p[1] % BYTE] = w[p]
<1>1. Place(p) \in Places /\ p[1] % BYTE \in Bits
      /\ <<BYTE * (Place(p) % ROWSIZ) + (p[1] % BYTE), Place(p) \div ROWSIZ>> = p
  BY PixelPlace
<1> QED
  BY <1>1 DEF Packed

\* Unless another program switches the card, the sign shows the window as far as it
\* has been drawn and the one before behind it, for every size of sign, byte and
\* picture, and however the picture is read back.
THEOREM WindowIsShown == ShowPicSpec => []ShowsWindow
<1>1. ASSUME SPInv, spc = "loop", cmode = OneBit, ~switched, NEW p \in Box(COLS, ROWS)
      PROVE  p_shows(Screen)[p] = IF Place(p) < k THEN Window(x)[p]
                                  ELSE IF x = 0 THEN p_shows(before[cbank])[p] ELSE Window(x - 1)[p]
  <2>1. Screen = ram[cbank] /\ ram[cbank] \in Blocks /\ before[cbank] \in Blocks
    BY <1>1 DEF SPInv, SPType, DrawnInv, Screen
  <2>2. Place(p) \in Places
    BY PixelPlace
  <2>3. Screen[Place(p)] = IF Place(p) < k THEN Packed(Window(x))[Place(p)]
                           ELSE IF x = 0 THEN before[cbank][Place(p)] ELSE Packed(Window(x - 1))[Place(p)]
    BY <1>1, <2>1, <2>2 DEF SPInv, DrawnInv
  <2>4. p_shows(Screen)[p] = Screen[Place(p)][p[1] % BYTE]
        /\ p_shows(before[cbank])[p] = before[cbank][Place(p)][p[1] % BYTE]
    BY <2>1, ReadBack
  <2> QED
    BY <2>3, <2>4, PackedBack
<1>2. SPInv => ShowsWindow
  <2> SUFFICES ASSUME SPInv, spc = "loop", cmode = OneBit, ~switched
               PROVE  LET shown == p_shows(Screen)
                          last == IF x = 0 THEN p_shows(before[cbank]) ELSE Window(x - 1)
                      IN  /\ \A p \in Box(COLS, ROWS) :
                               shown[p] = (IF p[1] \div BYTE + p[2] * ROWSIZ < k THEN Window(x)[p] ELSE last[p])
                          /\ ConvFrom1Bit(Screen) = shown /\ sp_shows(<<Screen>>) = shown
    BY DEF ShowsWindow
  <2>1. Screen \in Blocks
    BY DEF SPInv, SPType, Screen
  <2>2. ASSUME NEW p \in Box(COLS, ROWS)
        PROVE  p_shows(Screen)[p] =
                 (IF p[1] \div BYTE + p[2] * ROWSIZ < k THEN Window(x)[p]
                  ELSE (IF x = 0 THEN p_shows(before[cbank]) ELSE Window(x - 1))[p])
    BY <1>1 DEF Place
  <2> QED
    BY <2>1, <2>2, ReadBack
<1> QED
  BY <1>2, SPInvariant, PTL

----------------------------------------------------------------------------
(* Induction                                                               *)

\* A set of natural numbers has a least element.
LEMMA LeastNatural ==
  ASSUME NEW T \in SUBSET Nat, T # {}
  PROVE  \E m \in T : \A n \in T : m <= n
<1> DEFINE Below == {0..m : m \in T}
<1>1. Below \subseteq FiniteSubsetsOf(Nat) /\ Below # {}
  <2>1. ASSUME NEW m \in T PROVE 0..m \in SUBSET Nat /\ IsFiniteSet(0..m)
    BY FS_Interval
  <2>2. \A m \in T : 0..m \in FiniteSubsetsOf(Nat)
    BY <2>1 DEF FiniteSubsetsOf
  <2> QED
    BY <2>2
<1>2. PICK B \in Below : \A C \in Below : <<C, B>> \notin StrictSubsetOrdering(Nat)
  BY <1>1, WFMin, FS_StrictSubsetOrderingWellFounded, Zenon
<1>3. PICK m \in T : B = 0..m
  BY <1>2
<1>4. ASSUME NEW n \in T, n < m PROVE FALSE
  <2>1. 0..n \in Below /\ 0..n \subseteq 0..m /\ 0..n # 0..m /\ 0..m \in SUBSET Nat /\ 0..n \in SUBSET Nat
    BY <1>4
  <2> QED
    BY <1>2, <1>3, <2>1 DEF StrictSubsetOrdering
<1> QED
  BY <1>4

\* Induction: a set that has 0, and n + 1 if it has n, has every natural number.
LEMMA Induction ==
  ASSUME NEW T, 0 \in T, \A n \in Nat : n \in T => n + 1 \in T
  PROVE  Nat \subseteq T
<1> SUFFICES ASSUME Nat \ T # {} PROVE FALSE
  OBVIOUS
<1>1. PICK m \in Nat \ T : \A n \in Nat \ T : m <= n
  BY LeastNatural
<1>2. m - 1 \in Nat /\ m - 1 \in T
  BY <1>1
<1> QED
  BY <1>1, <1>2

----------------------------------------------------------------------------
(* Powers of two, and the bits of a code                                   *)

Doubled(F, n) == IF n = 0 THEN 1 ELSE 2 * F[n - 1]
IsPower(F, m) == F = [n \in 0..m |-> Doubled(F, n)]

\* There is a function that doubles, as far as one likes.
LEMMA PowerExists == \A m \in Nat : \E F : IsPower(F, m)
<1> DEFINE T == {m \in Nat : \E F : IsPower(F, m)}
<1>1. 0 \in T
  <2> DEFINE F == [n \in 0..0 |-> 1]
  <2>1. \A n \in 0..0 : Doubled(F, n) = 1
    BY DEF Doubled
  <2>2. F = [n \in 0..0 |-> Doubled(F, n)]
    BY <2>1
  <2> QED
    BY <2>2 DEF IsPower
<1>2. ASSUME NEW m \in Nat, m \in T PROVE m + 1 \in T
  <2>1. PICK F : IsPower(F, m)
    BY <1>2
  <2> DEFINE G == [n \in 0..m + 1 |-> IF n <= m THEN F[n] ELSE Doubled(F, n)]
  <2>2. \A n \in 0..m : F[n] = Doubled(F, n)
    BY <2>1 DEF IsPower
  <2>3. \A n \in 0..m : G[n] = F[n]
    BY <1>2
  <2>4. \A n \in 0..m + 1 : G[n] = Doubled(F, n)
    BY <1>2, <2>2
  <2>5. \A n \in 0..m + 1 : Doubled(G, n) = Doubled(F, n)
    <3> HIDE DEF G
    <3>1. \A n \in 1..m + 1 : G[n - 1] = F[n - 1]
      BY <1>2, <2>3
    <3> QED
      BY <3>1 DEF Doubled
  <2>6. G = [n \in 0..m + 1 |-> G[n]]
    OBVIOUS
  <2> HIDE DEF G
  <2>7. G = [n \in 0..m + 1 |-> Doubled(G, n)]
    BY <2>4, <2>5, <2>6
  <2> QED
    BY <1>2, <2>7 DEF IsPower
<1>3. Nat \subseteq T
  BY <1>1, <1>2, Induction
<1> QED
  BY <1>3

\* Power is what its definition says.
LEMMA PowerIs ==
  Power[0] = 1 /\ \A n \in 1..MaxSize : Power[n] = 2 * Power[n - 1]
<1>1. \E F : IsPower(F, MaxSize)
  BY GifAssumption, PowerExists
<1>2. Power = CHOOSE F : IsPower(F, MaxSize)
  BY DEF Power, IsPower, Doubled
<1>3. IsPower(Power, MaxSize)
  BY <1>1, <1>2
<1>4. \A n \in 0..MaxSize : Power[n] = Doubled(Power, n)
  BY <1>3 DEF IsPower
<1> QED
  BY <1>4, GifAssumption DEF Doubled

\* Powers are positive.
LEMMA PowerType == \A n \in 0..MaxSize : Power[n] \in Nat \ {0}
<1> DEFINE T == {m \in Nat : m <= MaxSize => Power[m] \in Nat \ {0}}
<1>1. 0 \in T
  BY PowerIs
<1>2. ASSUME NEW m \in Nat, m \in T PROVE m + 1 \in T
  <2> SUFFICES ASSUME m + 1 <= MaxSize PROVE Power[m + 1] \in Nat \ {0}
    OBVIOUS
  <2>1. Power[m + 1] = 2 * Power[m] /\ Power[m] \in Nat \ {0}
    BY <1>2, PowerIs, GifAssumption
  <2> QED
    BY <2>1
<1>3. Nat \subseteq T
  BY <1>1, <1>2, Induction
<1> QED
  BY <1>3, GifAssumption

\* A larger exponent has a larger power.
LEMMA PowerGrows ==
  ASSUME NEW m \in 0..MaxSize, NEW n \in 0..MaxSize, m <= n
  PROVE  Power[m] <= Power[n]
<1> DEFINE T == {d \in Nat : m + d <= MaxSize => Power[m] <= Power[m + d]}
<1>1. 0 \in T
  <2>1. m + 0 = m /\ Power[m] \in Nat
    BY PowerType
  <2> QED
    BY <2>1
<1>2. ASSUME NEW d \in Nat, d \in T PROVE d + 1 \in T
  <2> SUFFICES ASSUME m + (d + 1) <= MaxSize PROVE Power[m] <= Power[m + (d + 1)]
    OBVIOUS
  <2>1. m + (d + 1) \in 1..MaxSize /\ (m + (d + 1)) - 1 = m + d /\ m + d \in 0..MaxSize
    BY GifAssumption
  <2>2. Power[m + (d + 1)] = 2 * Power[m + d]
    BY <2>1, PowerIs
  <2>3. Power[m] <= Power[m + d] /\ Power[m + d] \in Nat /\ Power[m] \in Nat
    BY <1>2, <2>1, PowerType
  <2> QED
    BY <2>2, <2>3
<1>3. Nat \subseteq T
  BY <1>1, <1>2, Induction
<1>5. n - m \in T
  BY <1>3
<1>4. m + (n - m) = n
  OBVIOUS
<1> QED
  BY <1>4, <1>5

\* A code is below one power and not below the one before: its size is unique.
LEMMA OneSize ==
  ASSUME NEW m \in 1..MaxSize, NEW n \in 1..MaxSize, NEW v \in Nat,
         Power[m - 1] <= v, v < Power[m], Power[n - 1] <= v, v < Power[n]
  PROVE  m = n
<1>0. Power[m - 1] \in Nat /\ Power[m] \in Nat /\ Power[n - 1] \in Nat /\ Power[n] \in Nat
      /\ m - 1 \in 0..MaxSize /\ n - 1 \in 0..MaxSize
  BY PowerType, GifAssumption
<1>1. CASE m < n
  <2>1. Power[m] <= Power[n - 1]
    BY <1>0, <1>1, PowerGrows
  <2> QED
    BY <1>0, <2>1
<1>2. CASE n < m
  <2>1. Power[n] <= Power[m - 1]
    BY <1>0, <1>2, PowerGrows
  <2> QED
    BY <1>0, <2>1
<1> QED
  BY <1>1, <1>2

\* One more bit of a number.
LEMMA OneMoreBit ==
  ASSUME NEW m \in Nat \ {0}, NEW v \in Nat
  PROVE  v % (2 * m) = (v % m) + (((v \div m) % 2) * m)
<1> DEFINE q == v \div m
           r == v % m
           q2 == q \div 2
           b == q % 2
<1>1. q \in Nat /\ r \in 0..(m - 1) /\ v = m * q + r
  BY Division
<1> HIDE DEF q, r
<1>2. q2 \in Nat /\ b \in {0, 1} /\ q = 2 * q2 + b
  BY <1>1
<1> HIDE DEF q2, b
<1>3. m * q = (2 * m) * q2 + b * m
  BY <1>2, SMTT(30)
<1>4. b * m \in {0, m}
  BY <1>2
<1> DEFINE e == b * m + r
           h == (2 * m) * q2
<1>5. e \in 0..(2 * m - 1) /\ 2 * m \in Nat \ {0} /\ h \in Nat
  BY <1>1, <1>2, <1>4, SMTT(30)
<1>6. v = h + e
  <2>1. m * q \in Int /\ b * m \in Int /\ h \in Int /\ r \in Int
    BY <1>1, <1>2, <1>4, <1>5
  <2> HIDE DEF h
  <2>2. m * q = h + b * m
    BY <1>3 DEF h
  <2> QED
    BY <1>1, <2>1, <2>2
<1>7. v % (2 * m) = e
  <2> HIDE DEF e
  <2> QED
    BY <1>2, <1>5, <1>6, OneQuotient DEF h
<1>8. e = r + b * m
  BY <1>1, <1>4
<1> QED
  BY <1>7, <1>8 DEF r, b, q

CodeBits(v, s) == [j \in 1..s |-> (v \div Power[j - 1]) % 2]

Summed(F, j) == IF j = 0 THEN 0 ELSE F[j - 1] + unread[j] * Power[j - 1]

\* The bits of a code make up the code again.
LEMMA BitsBack ==
  ASSUME codesize \in 0..MaxSize, NEW v \in Nat, v < Power[codesize],
         unread = CodeBits(v, codesize)
  PROVE  Code = v
<1> DEFINE F == [j \in 0..codesize |-> v % Power[j]]
           value == CHOOSE G : G = [j \in 0..codesize |-> Summed(G, j)]
<1>0. \A j \in 0..codesize : j \in 0..MaxSize /\ Power[j] \in Nat \ {0}
  BY PowerType, GifAssumption
<1>1. ASSUME NEW j \in 1..codesize
      PROVE  v % Power[j] = (v % Power[j - 1]) + (unread[j] * Power[j - 1])
  <2>1. Power[j] = 2 * Power[j - 1] /\ Power[j - 1] \in Nat \ {0}
    BY <1>0, PowerIs, GifAssumption
  <2>2. unread[j] = (v \div Power[j - 1]) % 2
    BY DEF CodeBits
  <2> QED
    BY <2>1, <2>2, OneMoreBit
<1>2. v % Power[0] = 0
  BY PowerIs
<1>3. \A j \in 0..codesize : F[j] = Summed(F, j)
  <2>1. \A j \in 0..codesize : F[j] = v % Power[j]
    OBVIOUS
  <2>2. \A j \in 1..codesize : j - 1 \in 0..codesize
    OBVIOUS
  <2> HIDE DEF F
  <2> QED
    BY <1>1, <1>2, <2>1, <2>2 DEF Summed
<1>4. F = [j \in 0..codesize |-> Summed(F, j)]
  <2>1. F = [j \in 0..codesize |-> F[j]]
    OBVIOUS
  <2> HIDE DEF F
  <2> QED
    BY <1>3, <2>1
<1>5. Code = value[codesize]
  BY DEF Code, Summed
<1> HIDE DEF F
<1>6. value = [j \in 0..codesize |-> Summed(value, j)]
  BY <1>4
<1> HIDE DEF value
<1>7. \A j \in 0..codesize : value[j] = Summed(value, j)
  BY <1>6
<1> DEFINE T == {m \in Nat : m <= codesize => value[m] = F[m]}
<1>8. 0 \in T
  BY <1>3, <1>7 DEF Summed
<1>9. ASSUME NEW m \in Nat, m \in T PROVE m + 1 \in T
  <2> SUFFICES ASSUME m + 1 <= codesize PROVE value[m + 1] = F[m + 1]
    OBVIOUS
  <2>1. value[m] = F[m] /\ m + 1 \in 0..codesize /\ (m + 1) - 1 = m /\ m + 1 # 0
    BY <1>9
  <2> QED
    BY <1>3, <1>7, <2>1 DEF Summed
<1>10. Nat \subseteq T
  BY <1>8, <1>9, Induction
<1>11. value[codesize] = F[codesize]
  BY <1>10
<1>12. F[codesize] = v
  BY <1>0 DEF F
<1> QED
  BY <1>5, <1>11, <1>12

----------------------------------------------------------------------------
(* The codes of a GIF                                                      *)

\* The next code to enter, and the largest that may come next, behind n codes.
NextOf(n) ==
  IF n = 0 THEN First ELSE IF First + n - 1 < Limit THEN First + n - 1 ELSE Limit
LargestOf(n) ==
  IF n = 0 THEN EndOfImage ELSE IF First + n - 1 < Limit THEN First + n - 1 ELSE Limit - 1

\* What unpackimage knows behind n codes.
Unpacked(n) ==
  /\ oldcode = IF n = 0 THEN NoCode ELSE tokens[n]
  /\ nextcode = NextOf(n)
  /\ codesize \in 1..MaxSize /\ Power[codesize - 1] <= LargestOf(n) /\ LargestOf(n) < Power[codesize]

\* A code that an encoder may send behind n codes.
Knows(n, v) == v \in 0..(Clear - 1) \/ (v \in First..(First + n - 1) /\ v < Limit)

\* The bits on their way are those of v.
Coming(v) ==
  /\ codesize \in 1..MaxSize /\ v < Power[codesize] /\ unread = CodeBits(v, codesize)
  /\ \/ v = Clear /\ tokens = <<>> /\ ended = "no"
     \/ v = EndOfImage /\ ended = "yes"
     \/ v > LargestOf(Len(tokens)) /\ Unpacked(Len(tokens)) /\ ended = "damaged"
     \/ /\ tokens # <<>> /\ v = tokens[Len(tokens)] /\ Knows(Len(tokens) - 1, v)
        /\ Unpacked(Len(tokens) - 1) /\ ended = "no"

CodesInv ==
  /\ pc \in {"block", "unpack", "returned", "null", "confused"}
  /\ depth \in Depths /\ size \in Sizes /\ tokens \in Seq(Nat)
  /\ pc = "unpack" => depth >= 2
  /\ pc # "unpack" => unread = <<>> /\ (pc = "confused" <=> ended = "damaged")
  /\ pc = "unpack" /\ unread = <<>> => ended = "no" /\ Unpacked(Len(tokens))
  /\ pc = "unpack" /\ unread # <<>> => \E v \in Nat : Coming(v)

\* The codes below the table, of a picture that is unpacked.
LEMMA CodeFacts ==
  ASSUME depth \in Depths, depth >= 2
  PROVE  /\ depth \in Nat /\ depth + 1 \in 1..MaxSize
         /\ Clear \in Nat /\ Clear >= 4 /\ Power[depth + 1] = 2 * Clear
         /\ Limit \in Nat /\ First < Limit
<1>1. depth \in Nat /\ depth + 1 \in 1..MaxSize /\ depth \in 0..MaxSize /\ 2 \in 0..MaxSize
      /\ 1 \in 0..MaxSize /\ MaxSize \in 0..MaxSize /\ (depth + 1) - 1 = depth
      /\ depth + 1 \in 0..MaxSize
  BY GifAssumption
<1>2. Power[2] = 4
  BY <1>1, PowerIs
<1>3. Power[2] <= Clear /\ Clear \in Nat
  BY <1>1, PowerGrows, PowerType DEF Clear
<1>4. Power[depth + 1] = 2 * Clear
  BY <1>1, PowerIs DEF Clear
<1>5. Power[depth + 1] <= Limit /\ Limit \in Nat
  BY <1>1, PowerGrows, PowerType DEF Limit
<1> QED
  BY <1>1, <1>2, <1>3, <1>4, <1>5 DEF First

\* What the largest code can be.
LEMMA LargestType ==
  ASSUME depth \in Depths, depth >= 2, NEW n \in Nat
  PROVE  LargestOf(n) \in Nat /\ LargestOf(n) < Limit /\ EndOfImage <= LargestOf(n)
BY CodeFacts DEF LargestOf, First, EndOfImage

\* The sender counts on as many bits as unpackimage reads.
LEMMA SizesAgree ==
  ASSUME CodesInv, pc = "unpack", unread = <<>>
  PROVE  SentSize = codesize /\ codesize \in 1..MaxSize
<1>1. Largest = LargestOf(Len(tokens)) /\ Unpacked(Len(tokens)) /\ Len(tokens) \in Nat
  BY DEF CodesInv, Largest, LargestOf
<1>2. Largest \in Nat
  BY <1>1, LargestType DEF CodesInv
<1>3. /\ codesize \in 1..MaxSize
      /\ Power[codesize - 1] <= Largest /\ Largest < Power[codesize]
  BY <1>1 DEF Unpacked
<1>4. \A s \in 1..MaxSize : Power[s - 1] <= Largest /\ Largest < Power[s] => s = codesize
  BY <1>2, <1>3, OneSize
<1> QED
  BY <1>3, <1>4 DEF SentSize

\* The code that comes is the one that was sent, and nothing is left of it.
LEMMA CodeRead ==
  ASSUME CodesInv, Reads
  PROVE  /\ Coming(Code) /\ Code \in Nat /\ unread' = <<>> /\ pc = "unpack"
         /\ depth \in Depths /\ depth >= 2
<1>1. pc = "unpack" /\ unread # <<>> /\ depth >= 2 /\ depth \in Depths
  BY DEF CodesInv, Reads
<1>2. PICK v \in Nat : Coming(v)
  BY <1>1 DEF CodesInv
<1>3. Code = v
  BY <1>2, BitsBack DEF Coming
<1>4. Len(unread) = codesize /\ unread \in Seq({0, 1})
  <2>1. codesize \in Nat /\ unread = [j \in 1..codesize |-> (v \div Power[j - 1]) % 2]
    BY <1>2, GifAssumption DEF Coming, CodeBits
  <2>2. \A j \in 1..codesize : (v \div Power[j - 1]) % 2 \in {0, 1}
    <3>1. ASSUME NEW j \in 1..codesize PROVE Power[j - 1] \in Nat \ {0}
      BY <1>2, PowerType, GifAssumption DEF Coming
    <3>2. ASSUME NEW j \in 1..codesize PROVE v \div Power[j - 1] \in Nat
      BY <1>2, <3>1, Division
    <3> QED
      BY <3>2
  <2> QED
    BY <2>1, <2>2
<1>5. unread' = SubSeq(unread, codesize + 1, codesize)
  BY <1>4 DEF Reads, Rest
<1>6. SubSeq(unread, codesize + 1, codesize) = <<>>
  BY <1>2, <1>4, GifAssumption DEF Coming
<1> QED
  BY <1>1, <1>2, <1>3, <1>5, <1>6

Afresh ==
  depth \in Depths /\ depth >= 2 /\ nextcode = First /\ codesize = depth + 1 /\ oldcode = NoCode

\* Behind a clear code, or the header of an image, unpackimage knows nothing.
LEMMA KnowsNothing == (Afresh => Unpacked(0))'
<1>1. Afresh => Unpacked(0)
  <2> SUFFICES ASSUME Afresh PROVE Unpacked(0)
    OBVIOUS
  <2>1. (depth + 1) - 1 = depth /\ Power[depth] = Clear
    BY CodeFacts DEF Clear, Afresh
  <2> QED
    BY <2>1, CodeFacts DEF Afresh, Unpacked, NextOf, LargestOf, EndOfImage
<1> QED
  BY <1>1, PTL

\* What the next code can be.
LEMMA NextType ==
  ASSUME depth \in Depths, depth >= 2, NEW n \in Nat
  PROVE  NextOf(n) \in Nat /\ First <= NextOf(n) /\ NextOf(n) <= Limit
BY CodeFacts DEF NextOf, First

\* The codes are those of the depth.
LEMMA SameDepth ==
  ASSUME UNCHANGED depth
  PROVE  \A m \in Nat : NextOf(m)' = NextOf(m) /\ LargestOf(m)' = LargestOf(m)
BY DEF NextOf, LargestOf, First, EndOfImage, Clear, Limit

\* A code that is no clear or end code and that is not refused is the last one sent.
LEMMA GoodCode ==
  ASSUME CodesInv, Reads, Code \notin {Clear, EndOfImage}, ~IsUnknown
  PROVE  /\ tokens # <<>> /\ Code = tokens[Len(tokens)] /\ Knows(Len(tokens) - 1, Code)
         /\ Unpacked(Len(tokens) - 1) /\ ended = "no" /\ Len(tokens) \in Nat \ {0}
<1>1. Coming(Code) /\ Code \in Nat /\ depth \in Depths /\ depth >= 2
  BY CodeRead
<1>2. Len(tokens) \in Nat /\ tokens \in Seq(Nat)
  BY DEF CodesInv
<1>3. ~(Code > LargestOf(Len(tokens)) /\ Unpacked(Len(tokens)))
  <2> SUFFICES ASSUME Code > LargestOf(Len(tokens)), Unpacked(Len(tokens)) PROVE FALSE
    OBVIOUS
  <2>1. Code >= First /\ codesize \in 1..MaxSize /\ Code < Power[codesize]
    <3>1. EndOfImage <= LargestOf(Len(tokens)) /\ LargestOf(Len(tokens)) \in Nat
      BY <1>1, <1>2, LargestType
    <3>2. Clear \in Nat /\ EndOfImage = Clear + 1 /\ First = Clear + 2
      BY <1>1, CodeFacts DEF EndOfImage, First
    <3>3. codesize \in 1..MaxSize /\ Code < Power[codesize]
      BY <1>1 DEF Coming
    <3> QED
      BY <1>1, <3>1, <3>2, <3>3
  <2>2. Power[codesize] <= Limit /\ Power[codesize] \in Nat
    BY <2>1, PowerGrows, PowerType, GifAssumption DEF Limit
  <2>3. Code < Limit
    BY <1>1, <2>1, <2>2, CodeFacts
  <2>4. Code > nextcode \/ (Len(tokens) = 0 /\ Code >= nextcode)
    BY <1>1, <1>2, <2>1, <2>3, CodeFacts DEF Unpacked, NextOf, LargestOf
  <2>5. Len(tokens) = 0 => oldcode = NoCode
    BY DEF Unpacked
  <2>6. nextcode \in Nat
    BY <1>1, <1>2, NextType DEF Unpacked
  <2> QED
    BY <1>1, <2>4, <2>5, <2>6 DEF IsUnknown
<1> QED
  BY <1>1, <1>2, <1>3 DEF Coming

\* A code comes that the encoder may send, and what follows it is the next.
LEMMA AnotherCode ==
  ASSUME CodesInv, UnpackCode
  PROVE  /\ Unpacked(Len(tokens))' /\ ended = "no" /\ tokens # <<>>
         /\ nextcode \in Nat /\ nextcode <= Limit
<1>1. /\ Code \in Nat /\ depth \in Depths /\ depth >= 2
      /\ Code \notin {Clear, EndOfImage} /\ ~IsUnknown /\ Enter /\ oldcode' = Code
      /\ UNCHANGED <<depth, ended, tokens>> /\ Reads
  BY CodeRead DEF UnpackCode, file
<1>2. Len(tokens) \in Nat /\ tokens \in Seq(Nat)
  BY DEF CodesInv
<1> DEFINE n == Len(tokens) - 1
<1>4. /\ tokens # <<>> /\ Code = tokens[n + 1] /\ Knows(n, Code)
      /\ Unpacked(n) /\ ended = "no" /\ n \in Nat /\ Len(tokens) = n + 1
  BY <1>1, <1>2, GoodCode
<1> HIDE DEF n
<1>5. First \in Nat /\ Limit \in Nat /\ First < Limit /\ NoCode \notin Nat
  BY <1>1, CodeFacts DEF First, NoCode
<1>6. nextcode = NextOf(n) /\ nextcode \in Nat /\ nextcode <= Limit
  BY <1>4, <1>5 DEF Unpacked, NextOf
<1>7. CASE n = 0
  <2>1. nextcode' = nextcode /\ codesize' = codesize
    BY <1>1, <1>4, <1>7 DEF Unpacked, Enter
  <2>2. LargestOf(1) = First /\ NextOf(1) = First /\ LargestOf(0) = First - 1 /\ NextOf(0) = First
    BY <1>1, <1>5, CodeFacts DEF LargestOf, NextOf, EndOfImage, First
  <2>3. First < Power[codesize] /\ Power[codesize - 1] <= First
    <3>1. codesize \in 1..MaxSize /\ Power[codesize - 1] <= First - 1 /\ First - 1 < Power[codesize]
      BY <1>4, <1>7, <2>2 DEF Unpacked
    <3>2. Power[depth] <= First - 1 /\ First - 1 < Power[depth + 1] /\ First < Power[depth + 1]
          /\ (depth + 1) - 1 = depth
      BY <1>1, CodeFacts DEF First, Clear
    <3>3. codesize = depth + 1
      BY <1>1, <1>5, <3>1, <3>2, CodeFacts, OneSize DEF First
    <3>4. Power[codesize - 1] \in Nat
      BY <3>1, PowerType, GifAssumption
    <3> QED
      BY <1>5, <3>1, <3>2, <3>3, <3>4
  <2>4. codesize \in 1..MaxSize
    BY <1>4 DEF Unpacked
  <2>5. Unpacked(1)'
    <3>1. First' = First /\ Limit' = Limit /\ EndOfImage' = EndOfImage
      BY <1>1 DEF First, EndOfImage, Clear, Limit
    <3> QED
      BY <1>1, <1>4, <1>6, <1>7, <2>1, <2>2, <2>3, <2>4, <3>1 DEF Unpacked, NextOf, LargestOf
  <2> QED
    BY <1>1, <1>4, <1>6, <1>7, <2>5
<1>8. CASE n > 0
  <2>0. /\ codesize \in 1..MaxSize /\ codesize \in 0..MaxSize /\ codesize - 1 \in 0..MaxSize
        /\ MaxSize \in 0..MaxSize /\ MaxSize \in Nat
    BY <1>4, GifAssumption DEF Unpacked
  <2>1. oldcode # NoCode
    BY <1>2, <1>4, <1>5, <1>8 DEF Unpacked
  <2>2. Power[codesize] = 2 * Power[codesize - 1] /\ Power[codesize] \in Nat
        /\ Power[codesize - 1] \in Nat /\ Power[codesize] <= Limit
    BY <2>0, PowerIs, PowerType, PowerGrows DEF Limit
  <2>3. Power[codesize - 1] <= LargestOf(n) /\ LargestOf(n) < Power[codesize]
    BY <1>4 DEF Unpacked
  <2>4. /\ codesize' \in 1..MaxSize /\ nextcode' = NextOf(n + 1)
        /\ Power[codesize' - 1] <= LargestOf(n + 1) /\ LargestOf(n + 1) < Power[codesize']
    <3>1. CASE First + n - 1 < Limit
      <4>1. nextcode = First + n - 1 /\ LargestOf(n) = First + n - 1
            /\ NextOf(n + 1) = First + n
            /\ LargestOf(n + 1) = IF First + n < Limit THEN First + n ELSE Limit - 1
        BY <1>4, <1>5, <1>6, <1>8, <3>1 DEF NextOf, LargestOf
      <4>2. nextcode' = nextcode + 1 /\ codesize' = Grown
        BY <1>1, <2>1, <3>1, <4>1 DEF Enter
      <4>3. CASE nextcode + 1 < Power[codesize]
        <5>1. codesize' = codesize /\ First + n < Limit
          BY <1>4, <1>5, <2>0, <2>2, <4>1, <4>2, <4>3 DEF Grown
        <5> QED
          BY <1>4, <1>5, <2>0, <2>2, <2>3, <4>1, <4>2, <4>3, <5>1
      <4>4. CASE nextcode + 1 >= Power[codesize] /\ codesize < MaxSize
        <5>1. codesize' = codesize + 1 /\ nextcode + 1 = Power[codesize]
              /\ codesize + 1 \in 1..MaxSize /\ codesize + 1 \in 0..MaxSize
              /\ (codesize + 1) - 1 = codesize
          BY <1>4, <1>5, <2>0, <2>2, <2>3, <4>1, <4>2, <4>4 DEF Grown
        <5>2. Power[codesize + 1] = 2 * Power[codesize] /\ Power[codesize + 1] <= Limit
              /\ Power[codesize] > 0 /\ Power[codesize + 1] \in Nat
          BY <2>0, <5>1, PowerIs, PowerType, PowerGrows DEF Limit
        <5>3. First + n = Power[codesize] /\ First + n < Limit
          BY <1>4, <1>5, <2>2, <4>1, <5>1, <5>2
        <5> QED
          BY <1>4, <1>5, <2>2, <4>1, <4>2, <5>1, <5>2, <5>3
      <4>5. CASE nextcode + 1 >= Power[codesize] /\ codesize = MaxSize
        <5>1. codesize' = codesize /\ Power[codesize] = Limit
          BY <2>0, <4>2, <4>5 DEF Grown, Limit
        <5>2. First + n = Limit
          BY <1>4, <1>5, <3>1, <4>1, <4>5, <5>1
        <5>3. Power[codesize - 1] <= Limit - 1
          BY <1>5, <2>2, <2>3, <4>1, <5>1, <5>2
        <5> QED
          BY <1>4, <1>5, <2>0, <2>2, <4>1, <4>2, <5>1, <5>2, <5>3
      <4> QED
        BY <1>6, <2>0, <2>2, <4>3, <4>4, <4>5
    <3>2. CASE First + n - 1 >= Limit
      <4>1. nextcode = Limit /\ LargestOf(n) = Limit - 1 /\ NextOf(n + 1) = Limit
            /\ LargestOf(n + 1) = Limit - 1
        BY <1>4, <1>5, <1>6, <1>8, <3>2 DEF NextOf, LargestOf
      <4>2. nextcode' = nextcode /\ codesize' = codesize
        BY <1>1, <1>5, <4>1 DEF Enter
      <4> QED
        BY <2>0, <2>3, <4>1, <4>2
    <3> QED
      BY <1>4, <1>5, <3>1, <3>2
  <2>5. Len(tokens') = n + 1 /\ n + 1 \in Nat /\ n + 1 # 0 /\ tokens'[n + 1] = oldcode'
    BY <1>1, <1>4
  <2>6. \A m \in Nat : NextOf(m)' = NextOf(m) /\ LargestOf(m)' = LargestOf(m)
    BY <1>1, SameDepth
  <2>7. nextcode' = NextOf(Len(tokens))' /\ LargestOf(Len(tokens))' = LargestOf(n + 1)
    BY <2>4, <2>5, <2>6
  <2>8. oldcode' = IF Len(tokens') = 0 THEN NoCode ELSE tokens'[Len(tokens')]
    BY <2>5
  <2>9. Unpacked(Len(tokens))'
    BY <2>4, <2>7, <2>8 DEF Unpacked
  <2> QED
    BY <1>4, <1>6, <2>9
<1> QED
  BY <1>4, <1>7, <1>8

\* A code that comes is refused only if nobody could have sent it.
LEMMA RefusedCode ==
  ASSUME CodesInv, Reads, Code \notin {Clear, EndOfImage}, IsUnknown
  PROVE  ended = "damaged"
<1>1. /\ Coming(Code) /\ Code \in Nat /\ depth \in Depths /\ depth >= 2
  BY CodeRead
<1>2. Len(tokens) \in Nat /\ tokens \in Seq(Nat)
  BY DEF CodesInv
<1> DEFINE n == Len(tokens) - 1
<1>3. SUFFICES ASSUME tokens # <<>>, Knows(n, Code), Unpacked(n) PROVE FALSE
  BY <1>1 DEF Coming
<1>4. n \in Nat
  BY <1>2, <1>3
<1> HIDE DEF n
<1>5. First \in Nat /\ Limit \in Nat /\ First < Limit /\ NoCode \notin Nat
      /\ Clear \in Nat /\ First = Clear + 2
  BY <1>1, CodeFacts DEF First, NoCode
<1>6. nextcode = NextOf(n) /\ nextcode \in Nat /\ First <= nextcode
  BY <1>3, <1>4, <1>5 DEF Unpacked, NextOf
<1>7. CASE n = 0
  BY <1>1, <1>3, <1>5, <1>6, <1>7 DEF Knows, IsUnknown
<1>8. CASE n > 0
  <2>0. n \in 1..Len(tokens)
    BY <1>2, <1>4, <1>8 DEF n
  <2>1. oldcode # NoCode
    <3>1. tokens[n] \in Nat
      BY <1>2, <2>0
    <3> QED
      BY <1>3, <1>5, <1>8, <3>1 DEF Unpacked
  <2>2. Code <= nextcode
    BY <1>1, <1>3, <1>4, <1>5, <1>6, <1>8 DEF Knows, NextOf
  <2> QED
    BY <1>1, <1>6, <2>1, <2>2 DEF IsUnknown
<1> QED
  BY <1>4, <1>7, <1>8

\* A code that has been sent lies ahead of unpackimage, and is of the size it reads.
LEMMA Sent ==
  ASSUME CodesInv, NEW code \in Nat, Send(code),
         code < Power[codesize], tokens' \in Seq(Nat),
         \/ code = Clear /\ tokens' = <<>> /\ ended' = "no"
         \/ code = EndOfImage /\ ended' = "yes" /\ tokens' = tokens
         \/ code > LargestOf(Len(tokens)) /\ ended' = "damaged" /\ tokens' = tokens
         \/ tokens' = Append(tokens, code) /\ Knows(Len(tokens), code) /\ ended' = "no"
  PROVE  CodesInv'
<1>1. /\ pc = "unpack" /\ unread = <<>> /\ ended = "no" /\ depth \in Depths /\ depth >= 2
      /\ UNCHANGED <<pc, depth, size, codesize, oldcode, nextcode>>
  BY DEF CodesInv, Send, file, decoder
<1>2. Unpacked(Len(tokens)) /\ tokens \in Seq(Nat) /\ Len(tokens) \in Nat
  BY <1>1 DEF CodesInv
<1>3. codesize \in 1..MaxSize /\ SentSize = codesize
  BY <1>1, SizesAgree
<1>4. unread' = CodeBits(code, codesize)
  BY <1>3 DEF Send, CodeBits
<1>5. unread' # <<>>
  <2>1. Len(unread') = codesize
    BY <1>3, <1>4, GifAssumption DEF CodeBits
  <2> QED
    BY <1>3, <2>1, GifAssumption
<1>6. \A m \in Nat : NextOf(m)' = NextOf(m) /\ LargestOf(m)' = LargestOf(m)
  BY <1>1, SameDepth
<1>7. ASSUME NEW m \in Nat, m = Len(tokens), m = 0 \/ tokens'[m] = tokens[m]
      PROVE  Unpacked(m)'
  <2>1. Unpacked(m)
    BY <1>2, <1>7
  <2>2. NextOf(m)' = NextOf(m) /\ LargestOf(m)' = LargestOf(m)
    BY <1>6
  <2> QED
    BY <1>1, <1>7, <2>1, <2>2 DEF Unpacked
<1>8. Clear' = Clear /\ EndOfImage' = EndOfImage /\ First' = First /\ Limit' = Limit
  BY <1>1 DEF Clear, EndOfImage, First, Limit
<1>9. Coming(code)'
  <2>1. codesize' \in 1..MaxSize /\ code < Power[codesize'] /\ unread' = CodeBits(code, codesize')
    BY <1>1, <1>3, <1>4
  <2>2. CASE code = Clear /\ tokens' = <<>> /\ ended' = "no"
    BY <1>8, <2>1, <2>2 DEF Coming
  <2>3. CASE code = EndOfImage /\ ended' = "yes"
    BY <1>8, <2>1, <2>3 DEF Coming
  <2>4. CASE code > LargestOf(Len(tokens)) /\ ended' = "damaged" /\ tokens' = tokens
    <3>1. Len(tokens') = Len(tokens)
      BY <2>4
    <3>2. \A j \in Nat : j = Len(tokens) => Unpacked(j)'
      <4>1. \A j \in Nat : tokens'[j] = tokens[j]
        BY <2>4
      <4> QED
        BY <1>7, <4>1
    <3>3. Unpacked(Len(tokens))' /\ LargestOf(Len(tokens))' = LargestOf(Len(tokens))
      BY <1>2, <1>6, <3>1, <3>2
    <3> QED
      BY <2>1, <2>4, <3>3 DEF Coming
  <2>5. CASE tokens' = Append(tokens, code) /\ Knows(Len(tokens), code) /\ ended' = "no"
    <3>1. /\ Len(tokens') = Len(tokens) + 1 /\ tokens' # <<>> /\ code = tokens'[Len(tokens')]
          /\ Len(tokens') - 1 = Len(tokens)
          /\ \A m \in 1..Len(tokens) : tokens'[m] = tokens[m]
      BY <1>2, <2>5
    <3>2. \A j \in Nat : j = Len(tokens) => Unpacked(j)'
      <4>1. \A j \in Nat : j = Len(tokens) => j = 0 \/ tokens'[j] = tokens[j]
        BY <3>1
      <4> QED
        BY <1>7, <4>1
    <3>3. Unpacked(Len(tokens) - 1)'
      BY <1>2, <3>1, <3>2
    <3>4. Knows(Len(tokens) - 1, code)'
      BY <1>8, <2>5, <3>1 DEF Knows
    <3> QED
      BY <2>1, <2>5, <3>1, <3>3, <3>4 DEF Coming
  <2> QED
    BY <2>2, <2>3, <2>4, <2>5
<1> QED
  BY <1>1, <1>5, <1>9 DEF CodesInv

\* The encoder's codes fit in the size.
LEMMA StepSendCode ==
  ASSUME CodesInv, NEW code \in Known, SendCode(code)
  PROVE  CodesInv'
<1>1. /\ pc = "unpack" /\ unread = <<>> /\ ended = "no" /\ depth \in Depths /\ depth >= 2
      /\ size \in Sizes /\ tokens \in Seq(Nat) /\ Len(tokens) \in Nat /\ Unpacked(Len(tokens))
      /\ Send(code) /\ tokens' = Append(tokens, code) /\ ended' = "no"
  BY DEF CodesInv, SendCode, Send
<1>2. Clear \in Nat /\ Clear >= 4 /\ Limit \in Nat /\ First = Clear + 2 /\ EndOfImage = Clear + 1
      /\ First < Limit
  BY <1>1, CodeFacts DEF First, EndOfImage
<1>3. Knows(Len(tokens), code) /\ code \in Nat
  <2>0. Colours[size] \subseteq Nat
    BY <1>1, GifAssumption
  <2>1. code \in 0..(Clear - 1) \/ (code \in First..(First + Len(tokens) - 1) /\ code < Limit)
    BY <1>1, <1>2, <2>0 DEF Known
  <2> QED
    BY <1>1, <1>2, <2>1 DEF Knows
<1>4. code <= LargestOf(Len(tokens))
  BY <1>1, <1>2, <1>3 DEF Knows, LargestOf
<1>5. codesize \in 0..MaxSize /\ LargestOf(Len(tokens)) < Power[codesize]
  BY <1>1, GifAssumption DEF Unpacked
<1>6. Power[codesize] \in Nat /\ LargestOf(Len(tokens)) \in Nat
  BY <1>1, <1>5, PowerType, LargestType
<1>7. code < Power[codesize]
  BY <1>3, <1>4, <1>5, <1>6
<1>8. tokens' \in Seq(Nat)
  BY <1>1, <1>3
<1> QED
  BY <1>1, <1>3, <1>7, <1>8, Sent

\* So does the clear code.
LEMMA StepSendClear ==
  ASSUME CodesInv, SendClear
  PROVE  CodesInv'
<1>1. /\ pc = "unpack" /\ unread = <<>> /\ ended = "no" /\ depth \in Depths /\ depth >= 2
      /\ Len(tokens) \in Nat /\ Unpacked(Len(tokens))
      /\ Send(Clear) /\ tokens' = <<>> /\ ended' = "no"
  BY DEF CodesInv, SendClear, Send
<1>2. Clear \in Nat /\ EndOfImage = Clear + 1
  BY <1>1, CodeFacts DEF EndOfImage
<1>3. codesize \in 0..MaxSize /\ LargestOf(Len(tokens)) < Power[codesize]
  BY <1>1, GifAssumption DEF Unpacked
<1>4. Power[codesize] \in Nat /\ LargestOf(Len(tokens)) \in Nat /\ EndOfImage <= LargestOf(Len(tokens))
  BY <1>1, <1>3, PowerType, LargestType
<1>5. Clear < Power[codesize] /\ tokens' \in Seq(Nat)
  BY <1>1, <1>2, <1>3, <1>4
<1> QED
  BY <1>1, <1>2, <1>5, Sent

\* And the end code.
LEMMA StepSendEnd ==
  ASSUME CodesInv, SendEnd
  PROVE  CodesInv'
<1>1. /\ pc = "unpack" /\ unread = <<>> /\ ended = "no" /\ depth \in Depths /\ depth >= 2
      /\ Len(tokens) \in Nat /\ Unpacked(Len(tokens)) /\ tokens \in Seq(Nat)
      /\ Send(EndOfImage) /\ tokens' = tokens /\ ended' = "yes"
  BY DEF CodesInv, SendEnd, Send
<1>2. EndOfImage \in Nat
  BY <1>1, CodeFacts DEF EndOfImage
<1>3. codesize \in 0..MaxSize /\ LargestOf(Len(tokens)) < Power[codesize]
  BY <1>1, GifAssumption DEF Unpacked
<1>4. Power[codesize] \in Nat /\ LargestOf(Len(tokens)) \in Nat /\ EndOfImage <= LargestOf(Len(tokens))
  BY <1>1, <1>3, PowerType, LargestType
<1>5. EndOfImage < Power[codesize]
  BY <1>2, <1>3, <1>4
<1> QED
  BY <1>1, <1>2, <1>5, Sent

\* What a damaged file holds is above all codes that could come.
LEMMA StepSendDamaged ==
  ASSUME CodesInv, NEW code \in 0..(Limit - 1), SendDamaged(code)
  PROVE  CodesInv'
<1>1. /\ pc = "unpack" /\ unread = <<>> /\ ended = "no" /\ depth \in Depths /\ depth >= 2
      /\ Len(tokens) \in Nat /\ tokens \in Seq(Nat) /\ code \in Nat
      /\ Send(code) /\ tokens' = tokens /\ ended' = "damaged" /\ code > Largest
      /\ code < Power[SentSize]
  BY DEF CodesInv, SendDamaged, Send
<1>2. code < Power[codesize]
  BY <1>1, SizesAgree
<1>3. Largest = LargestOf(Len(tokens))
  BY <1>1 DEF Largest, LargestOf
<1> QED
  BY <1>1, <1>2, <1>3, Sent

\* Between two codes CodesInv asks only for what unpackimage knows.
LEMMA Between ==
  ASSUME unread' = <<>>, pc' \in {"unpack", "returned", "null", "block", "confused"},
         depth' \in Depths, size' \in Sizes, tokens' \in Seq(Nat),
         pc' = "unpack" => depth' >= 2 /\ ended' = "no" /\ Unpacked(Len(tokens))',
         pc' # "unpack" => (pc' = "confused" <=> ended' = "damaged")
  PROVE  CodesInv'
BY DEF CodesInv

\* A code is unpacked.
LEMMA StepUnpackCode ==
  ASSUME CodesInv, UnpackCode
  PROVE  CodesInv'
<1>1. /\ Reads /\ size \in Sizes /\ tokens \in Seq(Nat)
      /\ UNCHANGED <<pc, depth, size, tokens, ended>>
  BY DEF CodesInv, UnpackCode, file
<1>2. pc = "unpack" /\ depth \in Depths /\ depth >= 2 /\ unread' = <<>>
  BY <1>1, CodeRead
<1>3. Unpacked(Len(tokens))' /\ ended = "no"
  BY AnotherCode
<1> QED
  BY <1>1, <1>2, <1>3, Between

\* A code that is the clear code, or the end code, was sent as such.
LEMMA NoOther ==
  ASSUME depth \in Depths, depth >= 2, tokens \in Seq(Nat), NEW v, v \in {Clear, EndOfImage},
         Coming(v)
  PROVE  /\ v = Clear => tokens = <<>> /\ ended = "no"
         /\ v = EndOfImage => ended = "yes"
<1>1. Clear \in Nat /\ Clear >= 4 /\ First = Clear + 2 /\ EndOfImage = Clear + 1
      /\ Limit \in Nat
  BY CodeFacts DEF First, EndOfImage
<1>2. Len(tokens) \in Nat
  OBVIOUS
<1>3. ~(v > LargestOf(Len(tokens)))
  <2>1. LargestOf(Len(tokens)) \in Nat /\ EndOfImage <= LargestOf(Len(tokens))
    BY <1>2, LargestType
  <2> QED
    BY <1>1, <2>1
<1>4. ~Knows(Len(tokens) - 1, v)
  BY <1>1, <1>2 DEF Knows
<1> QED
  BY <1>1, <1>3, <1>4 DEF Coming

\* unpackimage starts afresh.
LEMMA StepUnpackClear ==
  ASSUME CodesInv, UnpackClear
  PROVE  CodesInv'
<1>1. /\ Reads /\ size \in Sizes /\ tokens \in Seq(Nat) /\ Code = Clear
      /\ UNCHANGED <<pc, depth, size, tokens, ended>>
      /\ nextcode' = First /\ codesize' = depth + 1 /\ oldcode' = NoCode
  BY DEF CodesInv, UnpackClear, file
<1>2. /\ pc = "unpack" /\ depth \in Depths /\ depth >= 2 /\ unread' = <<>> /\ Coming(Clear)
  BY <1>1, CodeRead
<1>3. tokens = <<>> /\ ended = "no"
  BY <1>1, <1>2, NoOther
<1>4. First' = First
  BY <1>1 DEF First, Clear
<1>5. Unpacked(0)'
  BY <1>1, <1>2, <1>4, KnowsNothing DEF Afresh
<1>6. Unpacked(Len(tokens))'
  BY <1>1, <1>3, <1>5
<1> QED
  BY <1>1, <1>2, <1>3, <1>6, Between

\* The end code ends the image.
LEMMA StepUnpackEnd ==
  ASSUME CodesInv, UnpackEnd
  PROVE  CodesInv'
<1>1. /\ Reads /\ size \in Sizes /\ tokens \in Seq(Nat) /\ Code = EndOfImage
      /\ UNCHANGED <<depth, size, tokens, ended>> /\ pc' = "block"
  BY DEF CodesInv, UnpackEnd, file
<1>2. /\ depth \in Depths /\ depth >= 2 /\ unread' = <<>> /\ Coming(EndOfImage)
  BY <1>1, CodeRead
<1>3. ended = "yes"
  BY <1>1, <1>2, NoOther
<1> QED
  BY <1>1, <1>2, <1>3, Between

\* unpackimage gives up only on a damaged file.
LEMMA StepConfused ==
  ASSUME CodesInv, Confused
  PROVE  CodesInv'
<1>1. /\ Reads /\ size \in Sizes /\ tokens \in Seq(Nat)
      /\ Code \notin {Clear, EndOfImage} /\ IsUnknown
      /\ UNCHANGED <<depth, size, tokens, ended>> /\ pc' = "confused"
  BY DEF CodesInv, Confused, file
<1>2. ended = "damaged"
  BY <1>1, RefusedCode
<1>3. depth \in Depths /\ unread' = <<>>
  BY <1>1, CodeRead
<1> QED
  BY <1>1, <1>2, <1>3, Between

\* A code that comes is whole.
LEMMA WholeCode ==
  ASSUME CodesInv, unread # <<>>
  PROVE  Len(unread) = codesize /\ HasCode /\ codesize \in Nat
<1>1. PICK v \in Nat : Coming(v)
  BY DEF CodesInv
<1>2. codesize \in 1..MaxSize /\ unread = [j \in 1..codesize |-> (v \div Power[j - 1]) % 2]
  BY <1>1 DEF Coming, CodeBits
<1>3. codesize \in Nat /\ Len(unread) = codesize
  BY <1>2, GifAssumption
<1> QED
  BY <1>3 DEF HasCode

\* The data end.
LEMMA StepTruncated ==
  ASSUME CodesInv, Truncated
  PROVE  CodesInv'
<1>1. unread = <<>>
  BY WholeCode DEF Truncated
<1>2. /\ UNCHANGED <<depth, size, tokens, ended, unread>> /\ pc' = "null" /\ ended = "no"
  BY <1>1 DEF CodesInv, Truncated, file, sender
<1> QED
  BY <1>1, <1>2 DEF CodesInv

\* An image block begins with nothing known.
LEMMA StepImageBlock ==
  ASSUME CodesInv, NEW s \in Sizes, NEW d \in Depths, NEW i \in BOOLEAN,
         NEW localmap \in BOOLEAN, ImageBlock(s, d, i, localmap)
  PROVE  CodesInv'
<1>1. /\ depth' = d /\ size' = s /\ tokens' = <<>> /\ ended' = "no" /\ unread' = <<>>
      /\ pc' \in {"null", "unpack"} /\ (pc' = "unpack" => d >= 2)
      /\ nextcode' = Power[d] + 2 /\ codesize' = d + 1 /\ oldcode' = NoCode
  BY DEF ImageBlock
<1>2. nextcode' = First' /\ codesize' = depth' + 1 /\ depth' \in Depths
  BY <1>1 DEF First, Clear
<1>3. pc' = "unpack" => Unpacked(0)'
  BY <1>1, <1>2, KnowsNothing DEF Afresh
<1>4. pc' = "unpack" => Unpacked(Len(tokens))'
  BY <1>1, <1>3
<1>5. tokens' \in Seq(Nat)
  BY <1>1
<1> QED
  BY <1>1, <1>2, <1>4, <1>5, Between

\* The other steps of loadgif leave the codes alone.
LEMMA StepLoadgif ==
  ASSUME CodesInv, SkipExtension \/ LastBlock \/ BadBlock \/ Ended \/ UNCHANGED vars
  PROVE  CodesInv'
<1>1. CASE LastBlock \/ BadBlock
  <2>1. /\ UNCHANGED <<depth, size, tokens, ended, unread>> /\ pc = "block"
        /\ pc' \in {"returned", "null"}
    BY <1>1 DEF LastBlock, BadBlock, file, sender
  <2> QED
    BY <2>1 DEF CodesInv
<1>2. CASE UNCHANGED vars
  <2>1. UNCHANGED <<pc, depth, size, tokens, ended, unread, codesize, oldcode, nextcode>>
    BY <1>2 DEF vars, file, decoder, sender
  <2>2. Unpacked(Len(tokens))' <=> Unpacked(Len(tokens))
    BY <2>1 DEF Unpacked, NextOf, LargestOf, First, EndOfImage, Clear, Limit
  <2>3. ASSUME NEW v \in Nat, Coming(v) PROVE Coming(v)'
    BY <2>1, <2>3 DEF Coming, Knows, Unpacked, NextOf, LargestOf, First, EndOfImage, Clear, Limit
  <2> QED
    BY <2>1, <2>2, <2>3 DEF CodesInv
<1> QED
  BY <1>1, <1>2 DEF SkipExtension, Ended

\* Every step keeps the two sides in agreement.
LEMMA CodesStep ==
  ASSUME CodesInv, [Next]_vars
  PROVE  CodesInv'
<1>1. CASE UnpackCode
  BY <1>1, StepUnpackCode
<1>2. CASE UnpackClear
  BY <1>2, StepUnpackClear
<1>3. CASE UnpackEnd
  BY <1>3, StepUnpackEnd
<1>4. CASE Confused
  BY <1>4, StepConfused
<1>5. CASE Truncated
  BY <1>5, StepTruncated
<1>6. CASE \E s \in Sizes, d \in Depths, i, localmap \in BOOLEAN : ImageBlock(s, d, i, localmap)
  BY <1>6, StepImageBlock
<1>7. CASE \E code \in Known : SendCode(code)
  BY <1>7, StepSendCode
<1>8. CASE SendClear
  BY <1>8, StepSendClear
<1>9. CASE SendEnd
  BY <1>9, StepSendEnd
<1>10. CASE \E code \in 0..(Limit - 1) : SendDamaged(code)
  BY <1>10, StepSendDamaged
<1>11. CASE SkipExtension \/ LastBlock \/ BadBlock \/ Ended \/ UNCHANGED vars
  BY <1>11, StepLoadgif
<1> QED
  BY <1>1, <1>2, <1>3, <1>4, <1>5, <1>6, <1>7, <1>8, <1>9, <1>10, <1>11 DEF Next

\* Whatever the codes, and whatever their sizes: what unpackimage knows of them is what
\* their encoder knows of it.
LEMMA CodesInvariant == Spec => []CodesInv
<1>1. Init => CodesInv
  BY DEF Init, CodesInv
<1>2. CodesInv /\ [Next]_vars => CodesInv'
  BY CodesStep
<1> QED
  BY <1>1, <1>2, PTL DEF Spec

\* NeverConfused: the codes of any encoder are read as it sent them and none is refused,
\* for pictures, colours and code sizes of any kind.
THEOREM CodesAreRead == Spec => []NeverConfused
<1>1. CodesInv => NeverConfused
  BY WholeCode DEF CodesInv, NeverConfused
<1> QED
  BY <1>1, CodesInvariant, PTL

----------------------------------------------------------------------------
(* img2sif                                                                 *)

\* Which pixel of the array p and sp show at p.
Nth(p) == p[2] * COLS + (p[1] \div BYTE + 1) * BYTE - 1 - (p[1] % BYTE)

\* An array of pixels, of which the picture is the first part.
PixelsAre(pixels) ==
  pixels = [n \in 0..(COLS * ROWS - 1) |->
              IF n < Width * Height THEN out.image[n \div Width][n % Width] ELSE pixels[n]]

\* A picture has all its pixels when its codes have ended, and the file is written
\* from such a picture.
SifInv ==
  /\ ended = "yes" => Len(source) = Width * Height
  /\ pc = "block" /\ images > 0 => ended = "yes"
  /\ pc = "returned" /\ images > 0 => ended = "yes"
  /\ images \in Nat
  /\ sif # <<>> =>
       /\ pc = "returned" /\ images > 0
       /\ \E pixels : sif = writefile(pixels) /\ PixelsAre(pixels)

\* The bit that p finds for a pixel is the one that img2sif made of another.
LEMMA Mirrored ==
  ASSUME NEW p \in Box(COLS, ROWS)
  PROVE  /\ Place(p) * BYTE + BYTE - 1 - (p[1] % BYTE) = Nth(p)
         /\ Nth(p) \in 0..(COLS * ROWS - 1)
<1> DEFINE d == p[1] \div BYTE
           b == p[1] % BYTE
           r == p[2] * ROWSIZ
<1>1. Place(p) \in Places /\ b \in Bits /\ Place(p) = d + r
  BY PixelPlace DEF Place
<1>2. p[1] \in Nat /\ p[2] \in Nat /\ BYTE \in Nat \ {0} /\ ROWSIZ \in Nat /\ COLS = BYTE * ROWSIZ
      /\ ROWS \in Nat /\ ROWSIZ * ROWS \in Nat
  BY WholeRow DEF Box
<1>3. d \in Nat /\ r \in Nat /\ b \in 0..(BYTE - 1)
  <2>1. d \in Nat
    BY <1>2, Division
  <2>2. r \in Nat
    BY <1>2, SMTT(30)
  <2> QED
    BY <1>1, <2>1, <2>2 DEF Bits
<1>4. p[2] * COLS = r * BYTE
  BY <1>2, SMTT(30)
<1> HIDE DEF d, b, r
<1>5. (d + r) * BYTE = d * BYTE + r * BYTE /\ (d + 1) * BYTE = d * BYTE + BYTE
      /\ d * BYTE \in Nat /\ r * BYTE \in Nat
  BY <1>2, <1>3, SMTT(30)
<1>6. Nth(p) = r * BYTE + (d + 1) * BYTE - 1 - b
  BY <1>4 DEF Nth, d, b
<1>7. Place(p) * BYTE + BYTE - 1 - b = Nth(p)
  BY <1>1, <1>2, <1>3, <1>5, <1>6
<1>8. (d + r) * BYTE + BYTE <= COLS * ROWS
  <2> DEFINE c == d + r
  <2>1. c \in Nat /\ c + 1 <= ROWSIZ * ROWS
    BY <1>1, <1>2, <1>3 DEF Places
  <2> HIDE DEF c
  <2>2. (c + 1) * BYTE <= (ROWSIZ * ROWS) * BYTE
    BY <1>2, <2>1, SMTT(30)
  <2>3. (c + 1) * BYTE = c * BYTE + BYTE /\ (ROWSIZ * ROWS) * BYTE = COLS * ROWS
    BY <1>2, <2>1, SMTT(30)
  <2> QED
    BY <2>2, <2>3 DEF c
<1>9. COLS * ROWS \in Nat
  BY <1>2, SMTT(30)
<1> DEFINE t == (d + r) * BYTE
           m == COLS * ROWS
<1>10. t \in Nat /\ m \in Nat /\ t + BYTE <= m /\ Nth(p) = t + BYTE - 1 - b
  BY <1>1, <1>2, <1>3, <1>5, <1>7, <1>8, <1>9
<1> HIDE DEF t, m
<1>11. Nth(p) \in 0..(m - 1)
  BY <1>2, <1>3, <1>10
<1> QED
  BY <1>7, <1>11 DEF b, m

\* What writefile makes of pixels can be read back.
LEMMA FileBytes ==
  ASSUME NEW pixels
  PROVE  /\ writefile(pixels) \in Blocks
         /\ \A p \in Box(COLS, ROWS) :
              writefile(pixels)[Place(p)][p[1] % BYTE] = IF pixels[Nth(p)] = 0 THEN 0 ELSE 1
<1>1. writefile(pixels) \in Blocks
  BY DEF writefile, Blocks
<1>2. ASSUME NEW p \in Box(COLS, ROWS)
      PROVE  writefile(pixels)[Place(p)][p[1] % BYTE] = IF pixels[Nth(p)] = 0 THEN 0 ELSE 1
  BY PixelPlace, Mirrored DEF writefile
<1> QED
  BY <1>1, <1>2

\* Steps of the reader keep what img2sif relies on.
LEMMA SifReads ==
  ASSUME CodesInv, SifInv, Next, UNCHANGED sif
  PROVE  SifInv'
<1>1. CASE ~(Ended \/ SkipExtension)
  <2>1. pc # "returned" /\ sif = <<>>
    BY <1>1 DEF Next, SifInv, UnpackCode, UnpackClear, UnpackEnd, Confused, Truncated, LastBlock,
                BadBlock, ImageBlock, Reads, SendCode, SendClear, SendEnd, SendDamaged, Send
  <2>2. CASE UnpackCode \/ UnpackClear \/ Confused \/ Truncated \/ LastBlock \/ BadBlock
    BY <2>1, <2>2 DEF SifInv, UnpackCode, UnpackClear, Confused, Truncated, LastBlock, BadBlock, Reads,
                      file, sender, Width, Height
  <2>3. CASE UnpackEnd
    <3>1. ended = "yes"
      BY <2>3, CodeRead, NoOther DEF UnpackEnd, CodesInv
    <3> QED
      BY <2>1, <2>3, <3>1 DEF SifInv, UnpackEnd, Reads, file, sender, Width, Height
  <2>4. CASE \E s \in Sizes, d \in Depths, i, localmap \in BOOLEAN : ImageBlock(s, d, i, localmap)
    BY <2>1, <2>4 DEF SifInv, ImageBlock
  <2>5. CASE \/ (\E code \in Known : SendCode(code)) \/ SendClear
             \/ \E code \in 0..(Limit - 1) : SendDamaged(code)
    <3>1. pc = "unpack" /\ UNCHANGED <<pc, size, images>> /\ ended = "no"
          /\ ended' \in {"no", "damaged"}
      BY <2>5 DEF SendCode, SendClear, SendDamaged, Send, file
    <3> QED
      BY <2>1, <3>1 DEF SifInv
  <2>6. CASE SendEnd
    BY <2>1, <2>6 DEF SifInv, SendEnd, Send, file, Width, Height
  <2> QED
    BY <1>1, <2>2, <2>3, <2>4, <2>5, <2>6 DEF Next
<1>2. CASE UNCHANGED vars
  BY <1>2 DEF SifInv, vars, file, decoder, sender, Width, Height, PixelsAre
<1> QED
  BY <1>1, <1>2 DEF Ended, SkipExtension

\* img2sif writes the file.
LEMMA SifWrites ==
  ASSUME SifInv, Convert
  PROVE  SifInv'
<1>1. PICK beyond \in {0, 1} :
        sif' = writefile([n \in 0..(COLS * ROWS - 1) |->
                            IF n < Width * Height THEN out.image[n \div Width][n % Width] ELSE beyond])
  BY DEF Convert
<1> DEFINE pixels == [n \in 0..(COLS * ROWS - 1) |->
                        IF n < Width * Height THEN out.image[n \div Width][n % Width] ELSE beyond]
<1>2. sif' = writefile(pixels) /\ UNCHANGED vars /\ pc = "returned" /\ images > 0
  BY <1>1 DEF Convert
<1>3. PixelsAre(pixels)
  BY DEF PixelsAre
<1> HIDE DEF pixels
<1>4. UNCHANGED <<pc, images, ended, source, size, out>>
  BY <1>2 DEF vars, file, decoder, sender
<1>5. \A q : PixelsAre(q) => PixelsAre(q)'
  BY <1>4 DEF PixelsAre, Width, Height
<1> QED
  BY <1>2, <1>3, <1>4, <1>5 DEF SifInv, Width, Height

\* SifMirrored: img2sif writes no file but of a whole picture, and p and sp show its pixels
\* in reverse within each byte, for pictures and signs of every size.
THEOREM FileIsMirrored == SifSpec => []SifMirrored
<1>1. SifInit => CodesInv /\ SifInv
  BY DEF SifInit, SifInv, Init, CodesInv
<1>2. CodesInv /\ SifInv /\ [SifNext]_<<vars, sif>> => (CodesInv /\ SifInv)'
  <2> SUFFICES ASSUME CodesInv, SifInv, [SifNext]_<<vars, sif>> PROVE (CodesInv /\ SifInv)'
    OBVIOUS
  <2>1. [Next]_vars
    BY DEF SifNext, Convert
  <2>2. CodesInv'
    BY <2>1, CodesStep
  <2>3. SifInv'
    <3>1. CASE Next /\ UNCHANGED sif
      BY <3>1, SifReads
    <3>2. CASE Convert
      BY <3>2, SifWrites
    <3>3. CASE UNCHANGED <<vars, sif>>
      BY <3>3 DEF SifInv, vars, file, decoder, sender, Width, Height, PixelsAre
    <3> QED
      BY <3>1, <3>2, <3>3 DEF SifNext
  <2> QED
    BY <2>2, <2>3
<1>3. SifInv => SifMirrored
  <2> SUFFICES ASSUME SifInv, sif # <<>>, NEW p \in DOMAIN p_shows(sif)
               PROVE  /\ ended = "yes" /\ Len(source) = Width * Height
                      /\ Nth(p) < Width * Height =>
                           p_shows(sif)[p] = (IF out.image[Nth(p) \div Width][Nth(p) % Width] = 0 THEN 0 ELSE 1)
                      /\ sp_shows(<<sif>>)[p] = p_shows(sif)[p]
    <3>1. sif # <<>> /\ SifInv => ended = "yes" /\ Len(source) = Width * Height
      BY DEF SifInv
    <3> QED
      BY <3>1 DEF SifMirrored, Nth
  <2>1. ended = "yes" /\ Len(source) = Width * Height
    BY DEF SifInv
  <2>2. PICK pixels : sif = writefile(pixels) /\ PixelsAre(pixels)
    BY DEF SifInv
  <2>3. p \in Box(COLS, ROWS)
    BY DEF p_shows
  <2>4. sif \in Blocks /\ sif[Place(p)][p[1] % BYTE] = IF pixels[Nth(p)] = 0 THEN 0 ELSE 1
    BY <2>2, <2>3, FileBytes
  <2>5. p_shows(sif)[p] = sif[Place(p)][p[1] % BYTE] /\ sp_shows(<<sif>>) = p_shows(sif)
    BY <2>3, <2>4, ReadBack
  <2>6. Nth(p) < Width * Height => pixels[Nth(p)] = out.image[Nth(p) \div Width][Nth(p) % Width]
    <3>1. Nth(p) \in 0..(COLS * ROWS - 1)
      BY <2>3, Mirrored
    <3> DEFINE m == Nth(p)
    <3> HIDE DEF m
    <3>2. m \in 0..(COLS * ROWS - 1) /\ m < Width * Height =>
            pixels[m] = out.image[m \div Width][m % Width]
      BY <2>2 DEF PixelsAre
    <3> QED
      BY <3>1, <3>2 DEF m
  <2> QED
    BY <2>1, <2>4, <2>5, <2>6
<1> QED
  BY <1>1, <1>2, <1>3, PTL DEF SifSpec

----------------------------------------------------------------------------
(* The table of a GIF                                                      *)

Strings == Seq(Nat) \ {<<>>}

\* Codes that an encoder may send one after the other, with the clear code c.
Sound(c, ts) ==
  /\ ts \in Seq(Nat)
  /\ \A j \in 1..Len(ts) : ts[j] \in 0..(c - 1) \/ (ts[j] \in (c + 2)..(c + j) /\ ts[j] < Limit)

\* Meaning, for the clear code c: what the jth code stands for, by what those before do;
\* a function that gives this for n codes; and the function.
Mean(c, F, ts, j) ==
  IF ts[j] < c THEN <<ts[j]>>
  ELSE LET e == ts[j] - (c + 2) + 1
       IN  Append(F[e], IF e + 1 = j THEN F[e][1] ELSE F[e + 1][1])
IsMeaning(c, F, ts, n) == F = [j \in 1..n |-> Mean(c, F, ts, j)]
MeaningOf(c, ts) == CHOOSE F : IsMeaning(c, F, ts, Len(ts))

\* A code stands for what those before it stand for.
LEMMA MeanDepends ==
  ASSUME NEW c \in Nat, c >= 4, NEW ts, Sound(c, ts), NEW j \in 1..Len(ts), NEW F, NEW G,
         \A e \in 1..(j - 1) : F[e] = G[e]
  PROVE  Mean(c, F, ts, j) = Mean(c, G, ts, j)
<1>1. ts[j] \in Nat /\ j \in Nat /\ (ts[j] \in 0..(c - 1) \/ ts[j] \in (c + 2)..(c + j))
  BY DEF Sound
<1>2. CASE ts[j] < c
  BY <1>2 DEF Mean
<1>3. CASE ~(ts[j] < c)
  <2> DEFINE e == ts[j] - (c + 2) + 1
  <2>1. e \in 1..(j - 1) /\ (e + 1 # j => e + 1 \in 1..(j - 1))
    BY <1>1, <1>3
  <2> HIDE DEF e
  <2>2. F[e] = G[e] /\ (e + 1 # j => F[e + 1] = G[e + 1])
    BY <2>1
  <2> QED
    BY <1>3, <2>2 DEF Mean, e
<1> QED
  BY <1>2, <1>3

\* And for a string of pixels.
LEMMA MeanType ==
  ASSUME NEW c \in Nat, c >= 4, NEW ts, Sound(c, ts), NEW j \in 1..Len(ts), NEW F,
         \A e \in 1..(j - 1) : F[e] \in Strings
  PROVE  Mean(c, F, ts, j) \in Strings
<1>1. ts[j] \in Nat /\ j \in Nat /\ (ts[j] \in 0..(c - 1) \/ ts[j] \in (c + 2)..(c + j))
  BY DEF Sound
<1>2. CASE ts[j] < c
  BY <1>1, <1>2 DEF Mean, Strings
<1>3. CASE ~(ts[j] < c)
  <2> DEFINE e == ts[j] - (c + 2) + 1
             pixel == IF e + 1 = j THEN F[e][1] ELSE F[e + 1][1]
  <2>1. e \in 1..(j - 1) /\ (e + 1 # j => e + 1 \in 1..(j - 1))
    BY <1>1, <1>3
  <2>2. \A f \in Strings : f \in Seq(Nat) /\ f[1] \in Nat
    BY DEF Strings
  <2>3. Mean(c, F, ts, j) = Append(F[e], pixel)
    BY <1>3 DEF Mean
  <2> HIDE DEF e
  <2>4. F[e] \in Seq(Nat) /\ pixel \in Nat
    BY <2>1, <2>2
  <2> HIDE DEF pixel
  <2>5. Append(F[e], pixel) \in Seq(Nat) /\ Append(F[e], pixel) # <<>>
    BY <2>4
  <2> QED
    BY <2>3, <2>5 DEF Strings
<1> QED
  BY <1>2, <1>3

\* Two such functions agree as far as the codes do.
LEMMA MeansAgree ==
  ASSUME NEW c \in Nat, c >= 4, NEW ts, NEW us, Sound(c, ts), NEW m \in Nat, NEW n \in Nat,
         NEW F, NEW G, IsMeaning(c, F, ts, m), IsMeaning(c, G, us, n),
         NEW q \in Nat, q <= m, q <= n, q <= Len(ts), \A j \in 1..q : ts[j] = us[j]
  PROVE  \A j \in 1..q : F[j] = G[j]
<1> DEFINE T == {d \in Nat : d <= q => \A j \in 1..d : F[j] = G[j]}
<1>1. 0 \in T
  OBVIOUS
<1>2. ASSUME NEW d \in Nat, d \in T PROVE d + 1 \in T
  <2> SUFFICES ASSUME d + 1 <= q PROVE \A j \in 1..(d + 1) : F[j] = G[j]
    OBVIOUS
  <2>1. \A j \in 1..d : F[j] = G[j]
    BY <1>2
  <2>2. d + 1 \in 1..m /\ d + 1 \in 1..n /\ d + 1 \in 1..q /\ Len(ts) \in Nat
    BY DEF Sound
  <2>3. d + 1 \in 1..Len(ts) /\ (d + 1) - 1 = d
    BY <2>2
  <2>4. F[d + 1] = Mean(c, F, ts, d + 1) /\ G[d + 1] = Mean(c, G, us, d + 1)
    BY <2>2 DEF IsMeaning
  <2>5. Mean(c, F, ts, d + 1) = Mean(c, G, ts, d + 1)
    BY <2>1, <2>3, MeanDepends
  <2>6. Mean(c, G, us, d + 1) = Mean(c, G, ts, d + 1)
    BY <2>2 DEF Mean
  <2> QED
    BY <2>1, <2>4, <2>5, <2>6
<1>3. Nat \subseteq T
  BY <1>1, <1>2, Induction
<1>4. q \in T
  BY <1>3
<1> QED
  BY <1>4

\* There is such a function.
LEMMA MeaningExists ==
  ASSUME NEW c \in Nat, c >= 4, NEW ts, Sound(c, ts)
  PROVE  \E F \in [1..Len(ts) -> Strings] : IsMeaning(c, F, ts, Len(ts))
<1> DEFINE T == {m \in Nat : m <= Len(ts) => \E F \in [1..m -> Strings] : IsMeaning(c, F, ts, m)}
<1>1. 0 \in T
  <2> DEFINE F == [j \in 1..0 |-> <<0>>]
  <2>1. F \in [1..0 -> Strings]
    BY DEF Strings
  <2>2. F = [j \in 1..0 |-> Mean(c, F, ts, j)]
    OBVIOUS
  <2> QED
    BY <2>1, <2>2 DEF IsMeaning
<1>2. ASSUME NEW m \in Nat, m \in T PROVE m + 1 \in T
  <2> SUFFICES ASSUME m + 1 <= Len(ts)
               PROVE  \E F \in [1..(m + 1) -> Strings] : IsMeaning(c, F, ts, m + 1)
    OBVIOUS
  <2>1. Len(ts) \in Nat
    BY DEF Sound
  <2>2. PICK F \in [1..m -> Strings] : IsMeaning(c, F, ts, m)
    BY <1>2, <2>1
  <2> DEFINE G == [j \in 1..(m + 1) |-> IF j <= m THEN F[j] ELSE Mean(c, F, ts, j)]
  <2>3. \A j \in 1..m : G[j] = F[j] /\ F[j] = Mean(c, F, ts, j)
    BY <2>2 DEF IsMeaning
  <2>4. G[m + 1] = Mean(c, F, ts, m + 1)
    OBVIOUS
  <2>5. ASSUME NEW j \in 1..(m + 1) PROVE G[j] = Mean(c, G, ts, j)
    <3>1. j \in 1..Len(ts) /\ \A e \in 1..(j - 1) : e \in 1..m
      BY <2>1
    <3>2. \A e \in 1..(j - 1) : F[e] = G[e]
      BY <2>3, <3>1
    <3> HIDE DEF G
    <3>3. Mean(c, F, ts, j) = Mean(c, G, ts, j)
      BY <3>1, <3>2, MeanDepends
    <3>4. G[j] = Mean(c, F, ts, j)
      BY <2>3, <2>4
    <3> QED
      BY <3>3, <3>4
  <2>6. Mean(c, F, ts, m + 1) \in Strings
    <3>1. m + 1 \in 1..Len(ts) /\ \A e \in 1..((m + 1) - 1) : F[e] \in Strings
      BY <2>1, <2>2
    <3> QED
      BY <3>1, MeanType
  <2>7. G \in [1..(m + 1) -> Strings]
    BY <2>2, <2>6
  <2>8. G = [j \in 1..(m + 1) |-> G[j]]
    OBVIOUS
  <2> HIDE DEF G
  <2>9. IsMeaning(c, G, ts, m + 1)
    BY <2>5, <2>8 DEF IsMeaning
  <2> QED
    BY <2>7, <2>9
<1>3. Nat \subseteq T
  BY <1>1, <1>2, Induction
<1>4. Len(ts) \in Nat
  BY DEF Sound
<1>5. Len(ts) \in T
  BY <1>3, <1>4
<1> QED
  BY <1>4, <1>5

\* It is the function that Meaning chooses.
LEMMA MeaningIs ==
  ASSUME NEW c \in Nat, c >= 4, NEW ts, Sound(c, ts)
  PROVE  /\ IsMeaning(c, MeaningOf(c, ts), ts, Len(ts))
         /\ \A j \in 1..Len(ts) : /\ MeaningOf(c, ts)[j] = Mean(c, MeaningOf(c, ts), ts, j)
                                  /\ MeaningOf(c, ts)[j] \in Strings
<1>1. PICK F \in [1..Len(ts) -> Strings] : IsMeaning(c, F, ts, Len(ts))
  BY MeaningExists
<1> DEFINE M == MeaningOf(c, ts)
<1>2. IsMeaning(c, M, ts, Len(ts))
  BY <1>1 DEF MeaningOf
<1> HIDE DEF M
<1>3. Len(ts) \in Nat
  BY DEF Sound
<1>4. \A j \in 1..Len(ts) : F[j] = M[j]
  BY <1>1, <1>2, <1>3, MeansAgree
<1>5. \A j \in 1..Len(ts) : M[j] = Mean(c, M, ts, j)
  BY <1>2 DEF IsMeaning
<1> QED
  BY <1>1, <1>2, <1>4, <1>5 DEF M

\* One more code changes nothing of those before.
LEMMA MeaningKept ==
  ASSUME NEW c \in Nat, c >= 4, NEW ts, NEW v \in Nat, Sound(c, ts), Sound(c, Append(ts, v))
  PROVE  \A j \in 1..Len(ts) : MeaningOf(c, Append(ts, v))[j] = MeaningOf(c, ts)[j]
<1> DEFINE us == Append(ts, v)
<1>1. /\ ts \in Seq(Nat) /\ Len(ts) \in Nat /\ Len(us) = Len(ts) + 1
      /\ \A j \in 1..Len(ts) : ts[j] = us[j]
  BY DEF Sound
<1>2. Len(us) \in Nat /\ Len(ts) <= Len(us)
  BY <1>1
<1> HIDE DEF us
<1>3. IsMeaning(c, MeaningOf(c, ts), ts, Len(ts)) /\ IsMeaning(c, MeaningOf(c, us), us, Len(us))
  BY MeaningIs DEF us
<1>4. \A j \in 1..Len(ts) : MeaningOf(c, ts)[j] = MeaningOf(c, us)[j]
  <2> DEFINE F == MeaningOf(c, ts)
             G == MeaningOf(c, us)
             q == Len(ts)
             n == Len(us)
  <2>1. /\ IsMeaning(c, F, ts, q) /\ IsMeaning(c, G, us, n) /\ q \in Nat /\ n \in Nat
        /\ q <= n /\ q <= q /\ q <= Len(ts) /\ \A j \in 1..q : ts[j] = us[j]
    BY <1>1, <1>2, <1>3
  <2> HIDE DEF F, G, q, n
  <2>2. \A j \in 1..q : F[j] = G[j]
    BY <2>1, MeansAgree
  <2> QED
    BY <2>2 DEF F, G, q
<1> QED
  BY <1>4 DEF us

\* What the sender means is this function.
LEMMA MeaningSent == \A ts : Meaning(ts) = MeaningOf(Clear, ts)
BY DEF Meaning, MeaningOf, IsMeaning, Mean, First

\* What the table has behind n codes: for each of them but the last, and the first pixel
\* of the one after it, an entry; and the first pixel of the last.
EnteredBy(n) ==
  LET means == MeaningOf(Clear, tokens)
  IN  /\ \A j \in 1..(n - 1) : First + j - 1 < Limit =>
           /\ First + j - 1 \in DOMAIN table
           /\ table[First + j - 1] = <<tokens[j], means[j + 1][1]>>
      /\ n > 0 => oldtoken = means[n][1]

\* The codes of the table, and of the pixels.
Codes == (0..(Clear - 1)) \cup (First..(nextcode - 1))

\* One step along the links.
Follow(F, code) ==
  IF code < Clear THEN <<code>> ELSE Append(F[table[code][1]], table[code][2])
IsExpand(F) == F = [code \in Codes |-> Follow(F, code)]

\* The codes that unpackimage can expand, and what they expand to.
LEMMA ExpandIs ==
  ASSUME depth \in Depths, depth >= 2, Sound(Clear, tokens), NEW n \in Nat, n <= Len(tokens),
         nextcode = NextOf(n), EnteredBy(n)
  PROVE  /\ \A code \in 0..(Clear - 1) : Expand[code] = <<code>>
         /\ \A j \in 1..(n - 1) : First + j - 1 < Limit =>
              Expand[First + j - 1] =
                Append(MeaningOf(Clear, tokens)[j], MeaningOf(Clear, tokens)[j + 1][1])
         /\ \A j \in 1..n : Expand[tokens[j]] = MeaningOf(Clear, tokens)[j]
<1> DEFINE M == MeaningOf(Clear, tokens)
           E0 == [code \in Codes |->
                    IF code < Clear THEN <<code>>
                    ELSE Append(M[code - First + 1], M[code - First + 2][1])]
<1>1. /\ Clear \in Nat /\ Clear >= 4 /\ First = Clear + 2 /\ Limit \in Nat /\ First < Limit
      /\ Len(tokens) \in Nat /\ tokens \in Seq(Nat)
  BY CodeFacts DEF First, Sound
<1>2. \A j \in 1..Len(tokens) : M[j] = Mean(Clear, M, tokens, j) /\ M[j] \in Strings
  BY <1>1, MeaningIs
<1> HIDE DEF M
<1>3. \A j \in 1..(n - 1) : First + j - 1 < Limit => table[First + j - 1] = <<tokens[j], M[j + 1][1]>>
  BY DEF EnteredBy, M
<1>4. nextcode = (IF n = 0 THEN First ELSE IF First + n - 1 < Limit THEN First + n - 1 ELSE Limit)
  BY DEF NextOf
<1>5. ASSUME NEW j \in 1..n
      PROVE  /\ tokens[j] \in Codes /\ j \in 1..Len(tokens)
             /\ tokens[j] < Clear \/ (tokens[j] >= First /\ tokens[j] - First + 1 \in 1..(j - 1))
             /\ tokens[j] < First + j - 1
  <2>1. j \in 1..Len(tokens)
    BY <1>1
  <2>2. tokens[j] \in 0..(Clear - 1) \/ (tokens[j] \in (Clear + 2)..(Clear + j) /\ tokens[j] < Limit)
    BY <2>1 DEF Sound
  <2>3. CASE tokens[j] \in 0..(Clear - 1)
    BY <1>1, <2>1, <2>3 DEF Codes
  <2>4. CASE tokens[j] \in (Clear + 2)..(Clear + j) /\ tokens[j] < Limit
    <3> DEFINE v == tokens[j]
    <3>1. v \in (Clear + 2)..(Clear + j) /\ v < Limit
      BY <2>4
    <3> HIDE DEF v
    <3>2. v \in First..(nextcode - 1)
      BY <1>1, <1>4, <2>1, <3>1
    <3>3. v >= First /\ v - First + 1 \in 1..(j - 1) /\ v < First + j - 1
      BY <1>1, <2>1, <3>1
    <3> QED
      BY <2>1, <3>2, <3>3 DEF Codes, v
  <2> QED
    BY <2>2, <2>3, <2>4
<1>6. ASSUME NEW j \in 1..n PROVE E0[tokens[j]] = M[j]
  <2>1. /\ tokens[j] \in Codes /\ j \in 1..Len(tokens)
        /\ tokens[j] < Clear \/ (tokens[j] >= First /\ tokens[j] - First + 1 \in 1..(j - 1))
    BY <1>5
  <2>2. M[j] = Mean(Clear, M, tokens, j)
    BY <1>2, <2>1
  <2>3. CASE tokens[j] < Clear
    BY <2>1, <2>2, <2>3 DEF Mean
  <2>4. CASE ~(tokens[j] < Clear)
    <3> DEFINE e == tokens[j] - First + 1
    <3>0. tokens[j] \in Nat
      BY <1>1, <2>1
    <3>1. e \in 1..(j - 1) /\ e = tokens[j] - (Clear + 2) + 1 /\ e + 1 = tokens[j] - First + 2
          /\ e \in 1..Len(tokens) /\ e + 1 \in 1..Len(tokens)
      <4>1. e \in 1..(j - 1)
        BY <2>1, <2>4
      <4>2. e = tokens[j] - (Clear + 2) + 1 /\ e + 1 = tokens[j] - First + 2
        BY <1>1, <3>0
      <4>3. j \in 1..Len(tokens) /\ Len(tokens) \in Nat
        BY <1>1, <2>1
      <4> HIDE DEF e
      <4>4. e \in 1..Len(tokens) /\ e + 1 \in 1..Len(tokens)
        BY <4>1, <4>3
      <4> QED
        BY <4>1, <4>2, <4>4
    <3>2. E0[tokens[j]] = Append(M[e], M[e + 1][1])
      BY <2>1, <2>4, <3>1
    <3> HIDE DEF e
    <3>3. M[j] = Append(M[e], IF e + 1 = j THEN M[e][1] ELSE M[e + 1][1])
      BY <2>2, <2>4, <3>1 DEF Mean
    <3>4. M[e] \in Strings /\ M[e] \in Seq(Nat) /\ M[e] # <<>> /\ M[e][1] \in Nat
      <4>1. M[e] \in Strings
        BY <1>2, <3>1
      <4> QED
        BY <4>1 DEF Strings
    <3>5. e + 1 = j => M[e + 1][1] = M[e][1]
      BY <3>3, <3>4
    <3> HIDE DEF E0
    <3> QED
      BY <3>2, <3>3, <3>5
  <2> QED
    BY <2>3, <2>4
<1>7. ASSUME NEW code \in Codes, ~(code < Clear)
      PROVE  /\ code \in Nat /\ code - First + 1 \in 1..(n - 1)
             /\ table[code] = <<tokens[code - First + 1], M[code - First + 2][1]>>
             /\ table[code][1] \in Codes /\ table[code][1] < code
             /\ E0[table[code][1]] = M[code - First + 1]
  <2> DEFINE j == code - First + 1
  <2>1. code \in First..(nextcode - 1) /\ code \in Nat /\ code < Limit
    BY <1>1, <1>4, <1>7 DEF Codes
  <2>2. j \in 1..(n - 1) /\ code = First + j - 1 /\ j \in 1..n /\ j + 1 = code - First + 2
    BY <1>1, <1>4, <2>1
  <2> HIDE DEF j
  <2>3. table[code] = <<tokens[j], M[j + 1][1]>>
    BY <1>3, <2>1, <2>2
  <2>4. tokens[j] \in Codes /\ tokens[j] < First + j - 1
    BY <1>5, <2>2
  <2>5. E0[tokens[j]] = M[j]
    BY <1>6, <2>2
  <2> HIDE DEF E0
  <2> QED
    BY <2>1, <2>2, <2>3, <2>4, <2>5 DEF j
<1>8. IsExpand(E0)
  <2>1. ASSUME NEW code \in Codes PROVE E0[code] = Follow(E0, code)
    <3>1. CASE code < Clear
      BY <3>1 DEF Follow
    <3>2. CASE ~(code < Clear)
      <4>1. E0[code] = Append(M[code - First + 1], M[code - First + 2][1])
        BY <3>2
      <4> HIDE DEF E0
      <4>2. table[code][2] = M[code - First + 2][1] /\ E0[table[code][1]] = M[code - First + 1]
        BY <1>7, <3>2
      <4> QED
        BY <3>2, <4>1, <4>2 DEF Follow
    <3> QED
      BY <3>1, <3>2
  <2>2. E0 = [code \in Codes |-> E0[code]]
    OBVIOUS
  <2> HIDE DEF E0
  <2> QED
    BY <2>1, <2>2 DEF IsExpand
<1>9. Expand = CHOOSE F : IsExpand(F)
  BY DEF Expand, IsExpand, Follow, Codes
<1>10. IsExpand(Expand)
  <2> HIDE DEF E0
  <2> QED
    BY <1>8, <1>9
<1>11. ASSUME NEW code \in Codes PROVE code \in Nat
  BY <1>1 DEF Codes
<1> HIDE DEF E0
<1>12. \A code \in Codes : Expand[code] = E0[code]
  <2> DEFINE T == {d \in Nat : \A code \in Codes : code < d => Expand[code] = E0[code]}
  <2>1. 0 \in T
    BY <1>11
  <2>2. ASSUME NEW d \in Nat, d \in T PROVE d + 1 \in T
    <3> SUFFICES ASSUME NEW code \in Codes, code < d + 1 PROVE Expand[code] = E0[code]
      OBVIOUS
    <3>1. Expand[code] = Follow(Expand, code) /\ E0[code] = Follow(E0, code)
      BY <1>8, <1>10 DEF IsExpand
    <3>2. CASE code < Clear
      BY <3>1, <3>2 DEF Follow
    <3>3. CASE ~(code < Clear)
      <4>1. code \in Nat /\ table[code][1] \in Codes /\ table[code][1] < code
        BY <1>7, <3>3
      <4>2. table[code][1] \in Nat
        BY <1>11, <4>1
      <4>3. table[code][1] < d
        BY <4>1, <4>2
      <4>4. Expand[table[code][1]] = E0[table[code][1]]
        BY <2>2, <4>1, <4>3
      <4> QED
        BY <3>1, <3>3, <4>4 DEF Follow
    <3> QED
      BY <3>2, <3>3
  <2>3. Nat \subseteq T
    BY <2>1, <2>2, Induction
  <2> HIDE DEF T
  <2>4. ASSUME NEW code \in Codes PROVE Expand[code] = E0[code]
    <3>1. code + 1 \in T /\ code < code + 1
      BY <1>11, <2>3
    <3> QED
      BY <3>1 DEF T
  <2> QED
    BY <2>4
<1>13. \A code \in 0..(Clear - 1) : Expand[code] = <<code>>
  <2>1. ASSUME NEW code \in 0..(Clear - 1) PROVE Expand[code] = <<code>>
    <3>1. code \in Codes /\ code < Clear
      BY <1>1 DEF Codes
    <3> QED
      BY <1>12, <3>1 DEF E0
  <2> QED
    BY <2>1
<1>14. ASSUME NEW j \in 1..(n - 1), First + j - 1 < Limit
       PROVE  Expand[First + j - 1] = Append(M[j], M[j + 1][1])
  <2> DEFINE code == First + j - 1
  <2>1. code \in First..(nextcode - 1) /\ ~(code < Clear) /\ code - First + 1 = j /\ code - First + 2 = j + 1
    BY <1>1, <1>4, <1>14
  <2>2. code \in Codes
    BY <2>1 DEF Codes
  <2> HIDE DEF code
  <2>3. E0[code] = Append(M[j], M[j + 1][1])
    BY <2>1, <2>2 DEF E0
  <2>4. Expand[code] = E0[code]
    BY <1>12, <2>2
  <2> QED
    BY <2>3, <2>4 DEF code
<1>15. \A j \in 1..n : Expand[tokens[j]] = M[j]
  BY <1>5, <1>6, <1>12
<1> QED
  BY <1>13, <1>14, <1>15 DEF M

\* What unpackimage takes a code for is what the sender means by it.
LEMMA StringIs ==
  ASSUME depth \in Depths, depth >= 2, Sound(Clear, tokens), NEW n \in Nat, Len(tokens) = n + 1,
         Unpacked(n), EnteredBy(n), Code = tokens[n + 1]
  PROVE  String = MeaningOf(Clear, tokens)[n + 1]
<1> DEFINE M == MeaningOf(Clear, tokens)
<1>1. /\ Clear \in Nat /\ Clear >= 4 /\ First = Clear + 2 /\ Limit \in Nat /\ First < Limit
      /\ n + 1 \in 1..Len(tokens) /\ n <= Len(tokens) /\ n + 1 \in Nat
  BY CodeFacts DEF First
<1>2. nextcode = NextOf(n) /\ oldcode = (IF n = 0 THEN NoCode ELSE tokens[n])
  BY DEF Unpacked
<1>3. nextcode = (IF n = 0 THEN First ELSE IF First + n - 1 < Limit THEN First + n - 1 ELSE Limit)
  BY <1>2 DEF NextOf
<1>4. M[n + 1] = Mean(Clear, M, tokens, n + 1)
  BY <1>1, MeaningIs
<1>5. /\ \A code \in 0..(Clear - 1) : Expand[code] = <<code>>
      /\ \A j \in 1..(n - 1) : First + j - 1 < Limit => Expand[First + j - 1] = Append(M[j], M[j + 1][1])
      /\ \A j \in 1..n : Expand[tokens[j]] = M[j]
  BY <1>1, <1>2, ExpandIs
<1>6. n > 0 => oldtoken = M[n][1]
  BY DEF EnteredBy
<1> HIDE DEF M
<1>7. Code \in 0..(Clear - 1) \/ (Code \in (Clear + 2)..(Clear + (n + 1)) /\ Code < Limit)
  BY <1>1 DEF Sound
<1>8. CASE Code \in 0..(Clear - 1)
  <2>1. Code # nextcode /\ Code < Clear /\ Code \in 0..(Clear - 1)
    BY <1>1, <1>3, <1>8
  <2> QED
    BY <1>4, <1>5, <2>1 DEF String, Mean, M
<1>9. CASE Code \in (Clear + 2)..(Clear + (n + 1)) /\ Code < Limit
  <2> DEFINE e == Code - (Clear + 2) + 1
  <2>1. e \in 1..n /\ ~(Code < Clear) /\ n > 0 /\ Code = First + e - 1 /\ n \in 1..n
    BY <1>1, <1>9
  <2> HIDE DEF e
  <2>2. M[n + 1] = Append(M[e], IF e + 1 = n + 1 THEN M[e][1] ELSE M[e + 1][1])
    BY <1>4, <2>1 DEF Mean, e
  <2>3. CASE e = n
    <3>1. Code = nextcode
      BY <1>1, <1>3, <1>9, <2>1, <2>3
    <3>2. String = Append(Expand[oldcode], oldtoken)
      BY <3>1 DEF String
    <3> QED
      BY <1>2, <1>5, <1>6, <2>1, <2>2, <2>3, <3>2 DEF M
  <2>4. CASE e # n
    <3>1. e \in 1..(n - 1) /\ Code # nextcode /\ First + e - 1 < Limit /\ e + 1 # n + 1
      BY <1>1, <1>3, <1>9, <2>1, <2>4
    <3>2. String = Expand[Code]
      BY <3>1 DEF String
    <3> QED
      BY <1>5, <2>1, <2>2, <3>1, <3>2 DEF M
  <2> QED
    BY <2>3, <2>4
<1> QED
  BY <1>7, <1>8, <1>9

\* The sender's codes are sound; the table has what those that are unpacked have defined.
TableInv ==
  /\ pc = "unpack" => Sound(Clear, tokens)
  /\ pc = "unpack" /\ unread = <<>> => EnteredBy(Len(tokens))
  /\ pc = "unpack" /\ unread # <<>> /\ tokens # <<>> /\ ended = "no" => EnteredBy(Len(tokens) - 1)

\* A code is at least one bit.
LEMMA BitsSent ==
  ASSUME CodesInv, NEW code, Send(code)
  PROVE  unread' # <<>>
<1>1. SentSize = codesize /\ codesize \in 1..MaxSize
  BY SizesAgree DEF Send
<1>2. unread' = CodeBits(code, codesize)
  BY <1>1 DEF Send, CodeBits
<1>3. Len(unread') = codesize
  BY <1>1, <1>2, GifAssumption DEF CodeBits
<1> QED
  BY <1>1, <1>3, GifAssumption

\* The encoder sends what it knows.
LEMMA KnownCode ==
  ASSUME CodesInv, pc = "unpack", NEW code \in Known
  PROVE  code \in Nat /\ Knows(Len(tokens), code)
<1>1. depth \in Depths /\ depth >= 2 /\ size \in Sizes /\ Len(tokens) \in Nat
  BY DEF CodesInv
<1>2. Clear \in Nat /\ First = Clear + 2
  BY <1>1, CodeFacts DEF First
<1>3. code \in 0..(Clear - 1) \/ (code \in First..(First + Len(tokens) - 1) /\ code < Limit)
  <2>1. Colours[size] \subseteq Nat
    BY <1>1, GifAssumption
  <2> QED
    BY <1>2, <2>1 DEF Known
<1> QED
  BY <1>1, <1>2, <1>3 DEF Knows

\* The codes stay sound.
LEMMA StillSound ==
  ASSUME depth \in Depths, depth >= 2, Sound(Clear, tokens), NEW code \in Nat,
         Knows(Len(tokens), code)
  PROVE  Sound(Clear, Append(tokens, code))
<1> DEFINE ts == Append(tokens, code)
           n == Len(tokens)
<1>1. Clear \in Nat /\ First = Clear + 2
  BY CodeFacts DEF First
<1>2. /\ tokens \in Seq(Nat) /\ n \in Nat /\ ts \in Seq(Nat) /\ Len(ts) = n + 1
      /\ ts[n + 1] = code /\ \A j \in 1..n : ts[j] = tokens[j]
  BY DEF Sound
<1>3. code \in 0..(Clear - 1) \/ (code \in (Clear + 2)..(Clear + (n + 1)) /\ code < Limit)
  <2> HIDE DEF n
  <2>1. code \in 0..(Clear - 1) \/ (code \in First..(First + n - 1) /\ code < Limit)
    BY DEF Knows, n
  <2> QED
    BY <1>1, <1>2, <2>1
<1> HIDE DEF ts
<1>4. ASSUME NEW j \in 1..Len(ts)
      PROVE  ts[j] \in 0..(Clear - 1) \/ (ts[j] \in (Clear + 2)..(Clear + j) /\ ts[j] < Limit)
  <2>1. CASE j \in 1..n
    BY <1>2, <2>1 DEF Sound
  <2>2. CASE j = n + 1
    BY <1>2, <1>3, <2>2
  <2> QED
    BY <1>2, <2>1, <2>2
<1> QED
  BY <1>2, <1>4 DEF Sound, ts

\* A code is sent.
LEMMA TableSendCode ==
  ASSUME CodesInv, TableInv, NEW code \in Known, SendCode(code)
  PROVE  TableInv'
<1>1. /\ pc = "unpack" /\ unread = <<>> /\ Send(code) /\ tokens' = Append(tokens, code)
      /\ UNCHANGED <<pc, depth, table, oldtoken>>
  BY DEF SendCode, Send, file, decoder
<1>2. depth \in Depths /\ depth >= 2 /\ Sound(Clear, tokens) /\ EnteredBy(Len(tokens))
      /\ unread' # <<>> /\ code \in Nat
  BY <1>1, BitsSent, KnownCode DEF CodesInv, TableInv
<1>3. Clear' = Clear /\ First' = First /\ Clear \in Nat /\ Clear >= 4
  BY <1>1, <1>2, CodeFacts DEF Clear, First
<1>4. Sound(Clear, tokens')
  BY <1>1, <1>2, KnownCode, StillSound
<1> DEFINE n == Len(tokens)
           L == MeaningOf(Clear, tokens)
           M == MeaningOf(Clear, tokens')
<1>5. n \in Nat /\ Len(tokens') - 1 = n /\ \A j \in 1..n : tokens'[j] = tokens[j]
  BY <1>1, <1>2 DEF Sound
<1>6. \A j \in 1..n : M[j] = L[j]
  BY <1>1, <1>2, <1>3, <1>4, MeaningKept
<1>7. /\ \A j \in 1..(n - 1) : First + j - 1 < Limit =>
           First + j - 1 \in DOMAIN table /\ table[First + j - 1] = <<tokens[j], L[j + 1][1]>>
      /\ n > 0 => oldtoken = L[n][1]
  BY <1>2 DEF EnteredBy
<1> HIDE DEF n, L, M
<1>8. \A j \in 1..(n - 1) : j \in 1..n /\ j + 1 \in 1..n
  BY <1>5
<1>9. n > 0 => n \in 1..n
  BY <1>5
<1>10. /\ \A j \in 1..(n - 1) : First + j - 1 < Limit =>
            First + j - 1 \in DOMAIN table /\ table[First + j - 1] = <<tokens'[j], M[j + 1][1]>>
       /\ n > 0 => oldtoken = M[n][1]
  BY <1>5, <1>6, <1>7, <1>8, <1>9
<1>11. EnteredBy(Len(tokens) - 1)'
  BY <1>1, <1>3, <1>5, <1>10 DEF EnteredBy, M
<1> QED
  BY <1>1, <1>2, <1>3, <1>4, <1>11 DEF TableInv

\* A code is unpacked.
LEMMA TableUnpackCode ==
  ASSUME CodesInv, TableInv, UnpackCode
  PROVE  TableInv' /\ String = MeaningOf(Clear, tokens)[Len(tokens)]
<1>1. /\ Reads /\ Code \notin {Clear, EndOfImage} /\ ~IsUnknown /\ Enter /\ oldtoken' = String[1]
      /\ UNCHANGED <<pc, depth, tokens, ended>>
  BY DEF UnpackCode, file
<1>2. pc = "unpack" /\ depth \in Depths /\ depth >= 2 /\ unread' = <<>> /\ unread # <<>>
  BY <1>1, CodeRead DEF Reads
<1> DEFINE n == Len(tokens) - 1
           M == MeaningOf(Clear, tokens)
<1>3. /\ tokens # <<>> /\ Code = tokens[n + 1] /\ Unpacked(n) /\ ended = "no" /\ n \in Nat
      /\ Len(tokens) = n + 1
  BY <1>1, GoodCode
<1>4. Sound(Clear, tokens) /\ EnteredBy(n)
  BY <1>2, <1>3 DEF TableInv
<1>5. Clear' = Clear /\ First' = First /\ First \in Nat /\ Limit \in Nat /\ NoCode \notin Nat
  BY <1>1, <1>2, CodeFacts DEF Clear, First, NoCode
<1>6. String = M[n + 1]
  <2> HIDE DEF n
  <2> QED
    BY <1>2, <1>3, <1>4, StringIs
<1>7. \A j \in 1..(n - 1) : First + j - 1 < Limit =>
           First + j - 1 \in DOMAIN table /\ table[First + j - 1] = <<tokens[j], M[j + 1][1]>>
  BY <1>4 DEF EnteredBy
<1> HIDE DEF n, M
<1>8. nextcode = (IF n = 0 THEN First ELSE IF First + n - 1 < Limit THEN First + n - 1 ELSE Limit)
      /\ oldcode = (IF n = 0 THEN NoCode ELSE tokens[n])
  BY <1>3 DEF Unpacked, NextOf
<1>9. ASSUME NEW j \in 1..n, First + j - 1 < Limit
      PROVE  First + j - 1 \in DOMAIN table' /\ table'[First + j - 1] = <<tokens[j], M[j + 1][1]>>
  <2>1. n > 0 /\ n \in 1..Len(tokens) /\ tokens \in Seq(Nat)
    BY <1>3, <1>4, <1>9 DEF Sound
  <2>2. oldcode = tokens[n] /\ oldcode # NoCode
    <3>1. tokens[n] \in Nat
      BY <2>1
    <3> QED
      BY <1>5, <1>8, <2>1, <3>1
  <2>3. CASE j = n
    <3>1. nextcode = First + n - 1 /\ nextcode < Limit
      BY <1>8, <1>9, <2>1, <2>3
    <3>2. table' = [code \in DOMAIN table \cup {nextcode} |->
                      IF code = nextcode THEN <<oldcode, String[1]>> ELSE table[code]]
      BY <1>1, <2>2, <3>1 DEF Enter
    <3> QED
      BY <1>6, <2>2, <2>3, <3>1, <3>2
  <2>4. CASE j # n
    <3> DEFINE c == First + j - 1
    <3>1. j \in 1..(n - 1) /\ c # nextcode /\ First + j - 1 < Limit
      BY <1>3, <1>5, <1>8, <1>9, <2>1, <2>4
    <3>2. c \in DOMAIN table /\ table[c] = <<tokens[j], M[j + 1][1]>>
      BY <1>7, <3>1
    <3> HIDE DEF c
    <3>3. c \in DOMAIN table' /\ table'[c] = table[c]
      BY <1>1, <3>1, <3>2 DEF Enter
    <3> QED
      BY <3>2, <3>3 DEF c
  <2> QED
    BY <2>3, <2>4
<1>10. oldtoken' = M[n + 1][1]
  BY <1>1, <1>6
<1>11. EnteredBy(Len(tokens))'
  <2>1. Len(tokens') = n + 1 /\ (n + 1) - 1 = n
    BY <1>1, <1>3
  <2> QED
    BY <1>1, <1>5, <1>9, <1>10, <2>1 DEF EnteredBy, M
<1>12. TableInv'
  BY <1>1, <1>2, <1>4, <1>5, <1>11 DEF TableInv
<1> QED
  BY <1>3, <1>6, <1>12 DEF M

\* Where no code has been sent nothing is asked of the table.
LEMMA TableAfresh ==
  ASSUME tokens' = <<>>
  PROVE  TableInv'
<1>1. Sound(Clear', tokens') /\ EnteredBy(0)'
  BY DEF Sound, EnteredBy
<1>2. EnteredBy(Len(tokens))'
  BY <1>1
<1> QED
  BY <1>1, <1>2 DEF TableInv

\* Every step keeps the table exact.
LEMMA TableStep ==
  ASSUME CodesInv, TableInv, [Next]_vars
  PROVE  TableInv'
<1>1. CASE UnpackCode
  BY <1>1, TableUnpackCode
<1>2. CASE UnpackClear
  <2>1. tokens = <<>> /\ tokens' = tokens
    BY <1>2, CodeRead, NoOther DEF UnpackClear, CodesInv
  <2> QED
    BY <2>1, TableAfresh
<1>3. CASE UnpackEnd \/ Confused \/ Truncated \/ LastBlock \/ BadBlock
  BY <1>3 DEF TableInv, UnpackEnd, Confused, Truncated, LastBlock, BadBlock
<1>4. CASE (\E s \in Sizes, d \in Depths, i, localmap \in BOOLEAN : ImageBlock(s, d, i, localmap))
           \/ SendClear
  <2>1. tokens' = <<>>
    BY <1>4 DEF ImageBlock, SendClear
  <2> QED
    BY <2>1, TableAfresh
<1>5. CASE \E code \in Known : SendCode(code)
  BY <1>5, TableSendCode
<1>6. CASE SendEnd \/ \E code \in 0..(Limit - 1) : SendDamaged(code)
  <2>1. PICK code : Send(code) /\ ended' # "no" /\ tokens' = tokens
    BY <1>6 DEF SendEnd, SendDamaged
  <2>2. unread' # <<>> /\ UNCHANGED <<pc, depth>>
    BY <2>1, BitsSent DEF Send, file
  <2> QED
    BY <2>1, <2>2 DEF TableInv, Clear
<1>7. CASE SkipExtension \/ Ended \/ UNCHANGED vars
  <2>1. UNCHANGED <<pc, depth, tokens, unread, ended, table, oldtoken>>
    BY <1>7 DEF SkipExtension, Ended, vars, file, decoder, sender
  <2>2. Clear' = Clear /\ First' = First
    BY <2>1 DEF Clear, First
  <2>3. \A n : EnteredBy(n) => EnteredBy(n)'
    BY <2>1, <2>2 DEF EnteredBy
  <2> QED
    BY <2>1, <2>2, <2>3 DEF TableInv
<1> QED
  BY <1>1, <1>2, <1>3, <1>4, <1>5, <1>6, <1>7 DEF Next

\* TableExact: what is in the table is what the sender means, for pictures, colours, code
\* sizes and numbers of images of any kind, whatever the table has held before.
THEOREM TableIsExact == Spec => []TableExact
<1>1. Init => CodesInv /\ TableInv
  BY DEF Init, CodesInv, TableInv
<1>2. CodesInv /\ TableInv /\ [Next]_vars => (CodesInv /\ TableInv)'
  BY CodesStep, TableStep
<1>3. CodesInv /\ TableInv => TableExact
  <2> DEFINE n == Len(tokens)
             M == MeaningOf(Clear, tokens)
             defined == {j \in 1..(n - 1) : First + j - 1 < Limit}
  <2> SUFFICES ASSUME CodesInv, TableInv, pc = "unpack", unread = <<>>
               PROVE  /\ nextcode = First + Cardinality(defined)
                      /\ \A j \in defined : Expand[First + j - 1] = Append(M[j], M[j + 1][1])
    BY MeaningSent DEF TableExact
  <2>1. /\ depth \in Depths /\ depth >= 2 /\ Sound(Clear, tokens) /\ EnteredBy(n)
        /\ Unpacked(n) /\ n \in Nat
    BY DEF CodesInv, TableInv
  <2>2. nextcode = NextOf(n) /\ n <= Len(tokens)
    BY <2>1 DEF Unpacked
  <2>3. First \in Nat /\ Limit \in Nat /\ First < Limit
    BY <2>1, CodeFacts DEF First
  <2>4. \A j \in 1..(n - 1) : First + j - 1 < Limit => Expand[First + j - 1] = Append(M[j], M[j + 1][1])
    BY <2>1, <2>2, ExpandIs
  <2> HIDE DEF n
  <2>5. nextcode = First + Cardinality(defined)
    <3>1. CASE n = 0
      <4>1. defined = {}
        BY <3>1
      <4> QED
        BY <2>2, <2>3, <3>1, <4>1, FS_EmptySet DEF NextOf
    <3>2. CASE n > 0 /\ First + n - 1 < Limit
      <4>1. defined = 1..(n - 1)
        BY <2>1, <2>3, <3>2
      <4>2. Cardinality(1..(n - 1)) = n - 1
        BY <2>1, <3>2, FS_Interval
      <4>3. nextcode = First + n - 1
        BY <2>2, <2>3, <3>2 DEF NextOf
      <4>4. Cardinality(defined) = n - 1
        BY <4>1, <4>2
      <4> HIDE DEF defined
      <4> QED
        BY <2>1, <2>3, <4>3, <4>4
    <3>3. CASE n > 0 /\ ~(First + n - 1 < Limit)
      <4>1. defined = 1..(Limit - First)
        BY <2>1, <2>3, <3>3
      <4>2. Cardinality(1..(Limit - First)) = Limit - First
        BY <2>3, FS_Interval
      <4>3. nextcode = Limit
        BY <2>2, <3>3 DEF NextOf
      <4>4. Cardinality(defined) = Limit - First
        BY <4>1, <4>2
      <4> HIDE DEF defined
      <4> QED
        BY <2>3, <4>3, <4>4
    <3> QED
      BY <2>1, <3>1, <3>2, <3>3
  <2> QED
    BY <2>4, <2>5
<1> QED
  BY <1>1, <1>2, <1>3, PTL DEF Spec

----------------------------------------------------------------------------
(* The rows of a GIF                                                       *)

Lines == 0..(Height - 1)
Before(r, y) == PassOf(r) < PassOf(y) \/ (PassOf(r) = PassOf(y) /\ r < y)
Rank(y) == Cardinality(SentBefore(y))

\* There are four passes.
LEMMA PassType == \A y \in Nat : PassOf(y) \in 0..3
BY DEF PassOf

\* A row has a finite number of rows before it.
LEMMA RankType ==
  ASSUME Height \in Nat, NEW y \in Lines
  PROVE  /\ Rank(y) \in Nat /\ IsFiniteSet(SentBefore(y)) /\ y \notin SentBefore(y)
         /\ \A r \in Lines : r \in SentBefore(y) <=> Before(r, y)
<1>1. IsFiniteSet(0..(Height - 1)) /\ SentBefore(y) \subseteq 0..(Height - 1)
  BY FS_Interval DEF SentBefore
<1>2. IsFiniteSet(SentBefore(y))
  BY <1>1, FS_Subset
<1>3. Rank(y) \in Nat
  BY <1>2, FS_CardinalityType DEF Rank
<1>4. y \in Nat
  BY DEF Lines
<1> QED
  BY <1>2, <1>3, <1>4, PassType DEF SentBefore, Before, Lines

\* The rows are ordered.
LEMMA RowOrder ==
  ASSUME Height \in Nat, NEW r \in Lines, NEW y \in Lines
  PROVE  /\ r = y \/ Before(r, y) \/ Before(y, r)
         /\ ~Before(y, y) /\ ~(Before(r, y) /\ Before(y, r))
         /\ \A t \in Lines : Before(t, r) /\ Before(r, y) => Before(t, y)
<1>1. \A t \in Lines : t \in Nat /\ PassOf(t) \in Nat
  BY PassType DEF Lines
<1> QED
  BY <1>1 DEF Before

\* What is sent next has one row more before it.
LEMMA NextRank ==
  ASSUME Height \in Nat, NEW y \in Lines, NEW z \in Lines, Before(y, z),
         \A r \in Lines : ~(Before(y, r) /\ Before(r, z))
  PROVE  Rank(z) = Rank(y) + 1
<1>1. SentBefore(z) = SentBefore(y) \cup {y}
  <2>1. \A r \in Lines : Before(r, z) <=> Before(r, y) \/ r = y
    BY RowOrder
  <2>2. SentBefore(z) \subseteq Lines /\ SentBefore(y) \subseteq Lines
    BY DEF SentBefore, Lines
  <2>3. \A r \in Lines : (r \in SentBefore(z) <=> Before(r, z)) /\ (r \in SentBefore(y) <=> Before(r, y))
    BY RankType
  <2> QED
    BY <2>1, <2>2, <2>3
<1>2. IsFiniteSet(SentBefore(y)) /\ y \notin SentBefore(y)
  BY RankType
<1>3. Cardinality(SentBefore(y) \cup {y}) = Cardinality(SentBefore(y)) + 1
  BY <1>2, FS_AddElement
<1> QED
  BY <1>1, <1>3 DEF Rank

\* Two rows do not have the same number of rows before them.
LEMMA RanksDiffer ==
  ASSUME Height \in Nat, NEW y \in Lines, NEW z \in Lines, y # z
  PROVE  Rank(y) # Rank(z)
<1>1. ASSUME NEW r \in Lines, NEW t \in Lines, Before(r, t) PROVE Rank(r) < Rank(t)
  <2>1. SentBefore(r) \cup {r} \subseteq SentBefore(t)
    <3>1. \A v \in Lines : (v \in SentBefore(r) <=> Before(v, r)) /\ (v \in SentBefore(t) <=> Before(v, t))
      BY RankType
    <3>2. SentBefore(r) \subseteq Lines
      BY DEF SentBefore, Lines
    <3> QED
      BY <1>1, <3>1, <3>2, RowOrder
  <2>2. IsFiniteSet(SentBefore(r)) /\ r \notin SentBefore(r) /\ IsFiniteSet(SentBefore(t))
        /\ Rank(r) \in Nat /\ Rank(t) \in Nat
    BY RankType
  <2>3. Cardinality(SentBefore(r) \cup {r}) = Cardinality(SentBefore(r)) + 1
    BY <2>2, FS_AddElement
  <2>4. Cardinality(SentBefore(r) \cup {r}) <= Cardinality(SentBefore(t))
    BY <2>1, <2>2, FS_Subset
  <2> QED
    BY <2>2, <2>3, <2>4 DEF Rank
<1>2. Rank(y) \in Nat /\ Rank(z) \in Nat
  BY RankType
<1>3. Before(y, z) \/ Before(z, y)
  BY RowOrder
<1>4. Rank(y) < Rank(z) \/ Rank(z) < Rank(y)
  BY <1>1, <1>3
<1> QED
  BY <1>2, <1>4

\* The last row has all the others before it.
LEMMA LastRank ==
  ASSUME Height \in Nat, NEW y \in Lines, \A r \in Lines : r = y \/ Before(r, y)
  PROVE  Rank(y) = Height - 1
<1>1. SentBefore(y) = Lines \ {y}
  <2>1. SentBefore(y) \subseteq Lines
    BY DEF SentBefore, Lines
  <2> QED
    BY <2>1, RankType
<1>2. IsFiniteSet(Lines) /\ Cardinality(Lines) = Height
  <2>1. IsFiniteSet(0..(Height - 1)) /\ Cardinality(0..(Height - 1)) = (Height - 1) - 0 + 1
    BY FS_Interval DEF Lines
  <2> QED
    BY <2>1 DEF Lines
<1>3. Cardinality(Lines \ {y}) = Cardinality(Lines) - 1
  BY <1>2, FS_RemoveElement
<1> QED
  BY <1>1, <1>2, <1>3 DEF Rank

\* The first row has none.
LEMMA FirstRank == Rank(0) = 0
<1>1. PassOf(0) = 0
  BY DEF PassOf
<1>2. SentBefore(0) = {}
  <2>1. \A r \in 0..(Height - 1) : PassOf(r) \in 0..3 /\ ~(r < 0)
    BY PassType
  <2> QED
    BY <1>1, <2>1 DEF SentBefore
<1> QED
  BY <1>2, FS_EmptySet DEF Rank

\* Behind a line NextLine goes to the one that is sent next, if there is one.
LEMMA NextLineIs ==
  ASSUME Height \in Nat, interlaced \in BOOLEAN, interlaced => Height >= 5,
         NEW y \in Lines,
         NEW z, NEW m,
         IF ~interlaced THEN z = y + 1 /\ m = PassOf(y)
         ELSE IF y + Increment[PassOf(y) + 1] < Height
         THEN z = y + Increment[PassOf(y) + 1] /\ m = PassOf(y)
         ELSE z = StartLine[PassOf(y) + 2] /\ m = PassOf(y) + 1
  PROVE  \/ /\ z \in Lines /\ m = PassOf(z) /\ Before(y, z)
            /\ \A r \in Lines : ~(Before(y, r) /\ Before(r, z))
         \/ \A r \in Lines : r = y \/ Before(r, y)
<1>1. y \in Nat /\ y < Height
  BY DEF Lines
<1>2. CASE ~interlaced
  <2>1. \A r : PassOf(r) = 0
    BY <1>2 DEF PassOf
  <2>2. CASE y + 1 < Height
    BY <1>1, <1>2, <2>1, <2>2 DEF Lines, Before
  <2>3. CASE ~(y + 1 < Height)
    BY <1>1, <1>2, <2>1, <2>3 DEF Lines, Before
  <2> QED
    BY <2>2, <2>3
<1>3. CASE interlaced
  <2>0. \A r \in Nat : PassOf(r) = IF r % 8 = 0 THEN 0 ELSE IF r % 8 = 4 THEN 1 ELSE IF r % 4 = 2 THEN 2 ELSE 3
    BY <1>3 DEF PassOf
  <2>1. CASE PassOf(y) = 0
    <3>1. y % 8 = 0 /\ Increment[PassOf(y) + 1] = 8 /\ StartLine[PassOf(y) + 2] = 4
      BY <1>1, <2>0, <2>1 DEF Increment, StartLine
    <3>2. \A r \in Nat : PassOf(r) = 0 /\ y < r => y + 8 <= r
      BY <1>1, <2>0, <3>1
    <3>3. CASE y + 8 < Height
      <4>1. z = y + 8 /\ m = 0 /\ PassOf(y + 8) = 0
        BY <1>1, <1>3, <2>0, <2>1, <3>1, <3>3
      <4> QED
        BY <1>1, <2>1, <3>2, <3>3, <4>1, PassType DEF Lines, Before
    <3>4. CASE ~(y + 8 < Height)
      <4>1. z = 4 /\ m = 1 /\ PassOf(4) = 1 /\ 4 \in Lines
        BY <1>1, <1>3, <2>0, <2>1, <3>1, <3>4 DEF Lines
      <4>2. \A r \in Nat : PassOf(r) = 1 => r >= 4
        BY <2>0
      <4> QED
        BY <1>1, <2>1, <3>2, <3>4, <4>1, <4>2, PassType DEF Lines, Before
    <3> QED
      BY <3>3, <3>4
  <2>2. CASE PassOf(y) = 1
    <3>1. y % 8 = 4 /\ Increment[PassOf(y) + 1] = 8 /\ StartLine[PassOf(y) + 2] = 2
      BY <1>1, <2>0, <2>2 DEF Increment, StartLine
    <3>2. \A r \in Nat : PassOf(r) = 1 /\ y < r => y + 8 <= r
      BY <1>1, <2>0, <3>1
    <3>3. CASE y + 8 < Height
      <4>1. z = y + 8 /\ m = 1 /\ PassOf(y + 8) = 1
        BY <1>1, <1>3, <2>0, <2>2, <3>1, <3>3
      <4> QED
        BY <1>1, <2>2, <3>2, <3>3, <4>1, PassType DEF Lines, Before
    <3>4. CASE ~(y + 8 < Height)
      <4>1. z = 2 /\ m = 2 /\ PassOf(2) = 2 /\ 2 \in Lines
        BY <1>1, <1>3, <2>0, <2>2, <3>1, <3>4 DEF Lines
      <4>2. \A r \in Nat : PassOf(r) = 2 => r >= 2
        BY <2>0
      <4> QED
        BY <1>1, <2>2, <3>2, <3>4, <4>1, <4>2, PassType DEF Lines, Before
    <3> QED
      BY <3>3, <3>4
  <2>3. CASE PassOf(y) = 2
    <3>1. y % 4 = 2 /\ Increment[PassOf(y) + 1] = 4 /\ StartLine[PassOf(y) + 2] = 1
      BY <1>1, <2>0, <2>3 DEF Increment, StartLine
    <3>2. \A r \in Nat : PassOf(r) = 2 /\ y < r => y + 4 <= r
      BY <1>1, <2>0, <3>1
    <3>3. CASE y + 4 < Height
      <4>1. z = y + 4 /\ m = 2 /\ PassOf(y + 4) = 2
        BY <1>1, <1>3, <2>0, <2>3, <3>1, <3>3
      <4> QED
        BY <1>1, <2>3, <3>2, <3>3, <4>1, PassType DEF Lines, Before
    <3>4. CASE ~(y + 4 < Height)
      <4>1. z = 1 /\ m = 3 /\ PassOf(1) = 3 /\ 1 \in Lines
        BY <1>1, <1>3, <2>0, <2>3, <3>1, <3>4 DEF Lines
      <4>2. \A r \in Nat : PassOf(r) = 3 => r >= 1
        BY <2>0
      <4> QED
        BY <1>1, <2>3, <3>2, <3>4, <4>1, <4>2, PassType DEF Lines, Before
    <3> QED
      BY <3>3, <3>4
  <2>4. CASE PassOf(y) = 3
    <3>1. y % 2 = 1 /\ Increment[PassOf(y) + 1] = 2
      BY <1>1, <2>0, <2>4 DEF Increment
    <3>2. \A r \in Nat : PassOf(r) = 3 /\ y < r => y + 2 <= r
      BY <1>1, <2>0, <3>1
    <3>3. CASE y + 2 < Height
      <4>1. z = y + 2 /\ m = 3 /\ PassOf(y + 2) = 3
        BY <1>1, <1>3, <2>0, <2>4, <3>1, <3>3
      <4> QED
        BY <1>1, <2>4, <3>2, <3>3, <4>1, PassType DEF Lines, Before
    <3>4. CASE ~(y + 2 < Height)
      BY <1>1, <2>4, <3>2, <3>4, PassType DEF Lines, Before
    <3> QED
      BY <3>3, <3>4
  <2> QED
    BY <1>1, <2>1, <2>2, <2>3, <2>4, PassType
<1> QED
  BY <1>2, <1>3

Outs ==
  [line : Nat, byte : 0..(Width - 1), pass : Nat, row : [0..(Width - 1) -> Int],
   image : [Lines -> [0..(Width - 1) -> Int]]]

\* The first d pixels of s have been put out: n rows of them are in their places, and
\* the others at the beginning of the line.
PlacedRows(o, s, d, n) ==
  /\ o \in Outs
  /\ d = n * Width + o.byte /\ n <= Height
  /\ \A b \in 0..(o.byte - 1) : o.row[b] = s[n * Width + b + 1]
  /\ n < Height => o.line \in Lines /\ Rank(o.line) = n /\ o.pass = PassOf(o.line)
  /\ \A y \in Lines : \A b \in 0..(Width - 1) :
       o.image[y][b] = IF Rank(y) < n THEN s[Rank(y) * Width + b + 1] ELSE Garbage
Placed(o, s, d) == \E n \in Nat : PlacedRows(o, s, d, n)

Picture ==
  /\ Width \in Nat \ {0} /\ Height \in Nat \ {0} /\ interlaced \in BOOLEAN
  /\ interlaced => Height >= 5

\* A row is whole when the pixels of it and of those before it have been sent.
LEMMA WholeRows ==
  ASSUME NEW W \in Nat \ {0}, NEW r \in Nat, NEW n \in Nat, NEW b \in 0..(W - 1)
  PROVE  /\ (r + 1) * W <= n * W + b <=> r < n
         /\ r * W \in Nat /\ n * W \in Nat /\ (n + 1) * W = n * W + W
         /\ r < n => r * W + W <= n * W
<1>1. r * W \in Nat /\ n * W \in Nat /\ (r + 1) * W = r * W + W /\ (n + 1) * W = n * W + W
  BY SMTT(30)
<1>2. r < n => (r + 1) * W <= n * W
  BY SMTT(30)
<1>3. ~(r < n) => n * W <= r * W
  BY SMTT(30)
<1> DEFINE p == r * W
           q == n * W
<1> HIDE DEF p, q
<1>4. p \in Nat /\ q \in Nat /\ (r < n => p + W <= q) /\ (~(r < n) => q <= p)
  BY <1>1, <1>2, <1>3 DEF p, q
<1>5. p + W <= q + b <=> r < n
  BY <1>4
<1> QED
  BY <1>1, <1>4, <1>5 DEF p, q

\* Another pixel is put at its place.
LEMMA PutOne ==
  ASSUME Picture, NEW s \in Seq(Nat), NEW d \in Nat, d < Width * Height, d < Len(s),
         NEW o, Placed(o, s, d)
  PROVE  Placed(PutPixel(o, s[d + 1]), s, d + 1)
<1>1. PICK n \in Nat : PlacedRows(o, s, d, n)
  BY DEF Placed
<1>2. /\ Width \in Nat \ {0} /\ Height \in Nat \ {0} /\ o \in Outs /\ o.byte \in 0..(Width - 1)
      /\ d = n * Width + o.byte /\ s[d + 1] \in Nat /\ n <= Height
  BY <1>1 DEF Picture, PlacedRows, Outs
<1>0. Width \in Nat \ {0} /\ o.byte \in 0..(Width - 1) /\ s[d + 1] \in Nat
  BY <1>2
<1>3. n < Height
  <2>1. Height * Width = Width * Height /\ Height * Width \in Nat
    BY <1>2, SMTT(30)
  <2>2. n = Height => d >= Width * Height
    BY <1>2, <2>1
  <2>3. Width * Height \in Nat
    BY <2>1
  <2> QED
    BY <1>2, <2>2, <2>3
<1>4. o.line \in Lines /\ Rank(o.line) = n /\ o.pass = PassOf(o.line)
  BY <1>1, <1>3 DEF PlacedRows
<1> DEFINE row == [o.row EXCEPT ![o.byte] = s[d + 1]]
<1>5. row \in [0..(Width - 1) -> Int] /\ \A b \in 0..o.byte : row[b] = s[n * Width + b + 1]
  <2>1. o.row \in [0..(Width - 1) -> Int] /\ n * Width \in Nat
    BY <1>2, WholeRows DEF Outs
  <2>2. \A b \in 0..(o.byte - 1) : o.row[b] = s[n * Width + b + 1]
    BY <1>1 DEF PlacedRows
  <2>3. row \in [0..(Width - 1) -> Int]
    <3> DEFINE f == o.row
    <3>1. f \in [0..(Width - 1) -> Int]
      BY <2>1
    <3>2. s[d + 1] \in Int
      BY <1>0
    <3> HIDE DEF f
    <3>3. [f EXCEPT ![o.byte] = s[d + 1]] \in [0..(Width - 1) -> Int]
      BY <3>1, <3>2
    <3> QED
      BY <3>3 DEF f
  <2>4. ASSUME NEW b \in 0..o.byte PROVE row[b] = s[n * Width + b + 1]
    <3>1. CASE b = o.byte
      BY <1>2, <2>1, <3>1
    <3>2. CASE b # o.byte
      <4>1. b \in 0..(o.byte - 1) /\ b \in 0..(Width - 1)
        BY <1>2, <3>2
      <4> QED
        BY <2>1, <2>2, <3>2, <4>1
    <3> QED
      BY <3>1, <3>2
  <2> QED
    BY <2>3, <2>4
<1> HIDE DEF row
<1>6. CASE o.byte + 1 < Width
  <2> DEFINE v == o.byte + 1
             t == [o EXCEPT !.row = row, !.byte = v]
  <2>1. PutPixel(o, s[d + 1]) = t
    BY <1>6 DEF PutPixel, row
  <2>6. v \in 0..(Width - 1) /\ v = o.byte + 1
    BY <1>0, <1>6
  <2> HIDE DEF v
  <2>2. /\ t \in Outs /\ t.byte = o.byte + 1 /\ t.row = row /\ t.line = o.line /\ t.pass = o.pass
        /\ t.image = o.image
    BY <1>2, <1>5, <2>6 DEF Outs
  <2> HIDE DEF t
  <2>3. d + 1 = n * Width + t.byte
    BY <1>2, <2>2, WholeRows
  <2>4. \A b \in 0..(t.byte - 1) : t.row[b] = s[n * Width + b + 1]
    BY <1>2, <1>5, <2>2
  <2>5. PlacedRows(t, s, d + 1, n)
    BY <1>1, <1>2, <2>2, <2>3, <2>4 DEF PlacedRows
  <2> QED
    BY <2>1, <2>5 DEF Placed
<1>7. CASE ~(o.byte + 1 < Width)
  <2> DEFINE u == [o EXCEPT !.row = row, !.byte = 0, !.image[o.line] = row]
             t == NextLine(u)
             z == t.line
             m == t.pass
  <2>1. PutPixel(o, s[d + 1]) = t
    BY <1>7 DEF PutPixel, row
  <2>2. /\ u \in Outs /\ u.byte = 0 /\ u.row = row /\ u.line = o.line /\ u.pass = o.pass
        /\ u.image = [o.image EXCEPT ![o.line] = row]
    <3>1. o.image \in [Lines -> [0..(Width - 1) -> Int]] /\ 0 \in 0..(Width - 1)
      BY <1>2 DEF Outs
    <3>2. [o.image EXCEPT ![o.line] = row] \in [Lines -> [0..(Width - 1) -> Int]]
      BY <1>4, <1>5, <3>1
    <3>3. u = [o EXCEPT !.row = row, !.byte = 0, !.image = [o.image EXCEPT ![o.line] = row]]
      BY <1>2 DEF Outs
    <3> QED
      BY <1>2, <1>5, <3>1, <3>2, <3>3 DEF Outs
  <2> HIDE DEF u
  <2>3. o.line \in Nat /\ PassOf(o.line) \in 0..3
    BY <1>4, PassType DEF Lines
  <2>4. /\ t \in Outs /\ t.byte = 0 /\ t.image = u.image
        /\ IF ~interlaced THEN z = o.line + 1 /\ m = PassOf(o.line)
           ELSE IF o.line + Increment[PassOf(o.line) + 1] < Height
           THEN z = o.line + Increment[PassOf(o.line) + 1] /\ m = PassOf(o.line)
           ELSE z = StartLine[PassOf(o.line) + 2] /\ m = PassOf(o.line) + 1
    <3>1. /\ Increment[PassOf(o.line) + 1] \in Nat /\ StartLine[PassOf(o.line) + 2] \in Nat
      BY <2>3 DEF Increment, StartLine
    <3>5. ASSUME NEW v \in Nat
          PROVE  /\ [u EXCEPT !.line = v] \in Outs
                 /\ [u EXCEPT !.line = v].line = v /\ [u EXCEPT !.line = v].pass = u.pass
                 /\ [u EXCEPT !.line = v].byte = u.byte /\ [u EXCEPT !.line = v].image = u.image
      BY <2>2 DEF Outs
    <3>2. CASE ~interlaced
      <4> DEFINE v == o.line + 1
      <4>1. t = [u EXCEPT !.line = v] /\ v \in Nat
        BY <2>2, <2>3, <3>2 DEF NextLine
      <4> HIDE DEF v, t
      <4> QED
        BY <1>4, <2>2, <3>2, <3>5, <4>1 DEF v
    <3>3. CASE interlaced /\ o.line + Increment[PassOf(o.line) + 1] < Height
      <4> DEFINE v == o.line + Increment[PassOf(o.line) + 1]
      <4>1. t = [u EXCEPT !.line = v] /\ v \in Nat
        BY <1>4, <2>2, <2>3, <3>1, <3>3 DEF NextLine
      <4> HIDE DEF v, t
      <4> QED
        BY <1>4, <2>2, <3>3, <3>5, <4>1 DEF v
    <3>4. CASE interlaced /\ ~(o.line + Increment[PassOf(o.line) + 1] < Height)
      <4> DEFINE v == StartLine[PassOf(o.line) + 2]
                 w == PassOf(o.line) + 1
      <4>1. t = [u EXCEPT !.line = v, !.pass = w] /\ v \in Nat /\ w \in Nat
        BY <1>4, <2>2, <2>3, <3>1, <3>4 DEF NextLine
      <4> HIDE DEF v, w, t
      <4>2. t \in Outs /\ t.byte = 0 /\ t.image = u.image /\ t.line = v /\ t.pass = w
        BY <2>2, <4>1 DEF Outs
      <4> QED
        BY <3>4, <4>2 DEF v, w
    <3> QED
      BY <3>2, <3>3, <3>4
  <2> HIDE DEF t
  <2>5. \/ z \in Lines /\ m = PassOf(z) /\ Rank(z) = n + 1
        \/ n = Height - 1
    <3>1. \/ /\ z \in Lines /\ m = PassOf(z) /\ Before(o.line, z)
             /\ \A r \in Lines : ~(Before(o.line, r) /\ Before(r, z))
          \/ \A r \in Lines : r = o.line \/ Before(r, o.line)
      <4> HIDE DEF z, m
      <4> QED
        BY <1>4, <2>4, NextLineIs DEF Picture
    <3> QED
      BY <1>2, <1>4, <3>1, NextRank, LastRank
  <2>6. d + 1 = (n + 1) * Width + t.byte /\ n + 1 <= Height
    <3>0. o.byte + 1 = Width
      BY <1>0, <1>7
    <3>1. (n + 1) * Width = n * Width + Width /\ n * Width \in Nat
      BY <1>0, WholeRows
    <3> DEFINE q == n * Width
               r == (n + 1) * Width
               b == o.byte
    <3>2. r = q + Width /\ q \in Nat /\ d = q + o.byte
      BY <1>2, <3>1
    <3>3. r = q + Width /\ q \in Nat /\ d = q + b /\ b + 1 = Width /\ b \in Nat /\ Width \in Nat
      BY <1>0, <3>0, <3>2
    <3> HIDE DEF q, r, b
    <3>4. d + 1 = r + 0
      BY <3>3
    <3> QED
      BY <1>2, <1>3, <2>4, <3>4 DEF r
  <2>7. ASSUME NEW y \in Lines, NEW b \in 0..(Width - 1)
        PROVE  t.image[y][b] = IF Rank(y) < n + 1 THEN s[Rank(y) * Width + b + 1] ELSE Garbage
    <3>1. Rank(y) \in Nat /\ o.image \in [Lines -> [0..(Width - 1) -> Int]]
      BY <1>2, RankType DEF Outs
    <3>2. CASE y = o.line
      <4>1. t.image[y] = row /\ Rank(y) = n
        BY <1>4, <2>2, <2>4, <3>1, <3>2
      <4>2. b \in 0..o.byte
        BY <1>2, <1>7
      <4> QED
        BY <1>5, <4>1, <4>2
    <3>3. CASE y # o.line
      <4>1. t.image[y] = o.image[y]
        BY <2>2, <2>4, <3>1, <3>3
      <4>2. Rank(y) # n
        BY <1>2, <1>4, <3>3, RanksDiffer
      <4>3. Rank(y) < n + 1 <=> Rank(y) < n
        BY <3>1, <4>2
      <4> QED
        BY <1>1, <4>1, <4>3 DEF PlacedRows
    <3> QED
      BY <3>2, <3>3
  <2>8. PlacedRows(t, s, d + 1, n + 1)
    <3>1. n + 1 < Height => z \in Lines /\ Rank(z) = n + 1 /\ m = PassOf(z)
      BY <1>2, <2>5
    <3>2. \A b \in 0..(t.byte - 1) : FALSE
      BY <2>4
    <3> QED
      BY <2>4, <2>6, <2>7, <3>1, <3>2 DEF PlacedRows
  <2>9. n + 1 \in Nat
    OBVIOUS
  <2> QED
    BY <2>1, <2>8, <2>9 DEF Placed
<1> QED
  BY <1>6, <1>7

\* What Put goes through.
Step(F, o, string, j) == IF j = 0 THEN o ELSE PutPixel(F[j - 1], string[j])
IsPut(F, o, string, n) == F = [j \in 0..n |-> Step(F, o, string, j)]

\* There is such a function.
LEMMA PutExists ==
  ASSUME NEW o, NEW string
  PROVE  \A n \in Nat : \E F : IsPut(F, o, string, n)
<1> DEFINE T == {n \in Nat : \E F : IsPut(F, o, string, n)}
<1>1. 0 \in T
  <2> DEFINE F == [j \in 0..0 |-> o]
  <2>1. F = [j \in 0..0 |-> Step(F, o, string, j)]
    BY DEF Step
  <2> QED
    BY <2>1 DEF IsPut
<1>2. ASSUME NEW n \in Nat, n \in T PROVE n + 1 \in T
  <2>1. PICK F : IsPut(F, o, string, n)
    BY <1>2
  <2> DEFINE G == [j \in 0..(n + 1) |-> IF j <= n THEN F[j] ELSE Step(F, o, string, j)]
  <2>2. \A j \in 0..n : F[j] = Step(F, o, string, j) /\ G[j] = F[j]
    BY <2>1 DEF IsPut
  <2>3. \A j \in 0..(n + 1) : G[j] = Step(F, o, string, j)
    <3>1. \A j \in 0..(n + 1) : j \in 0..n \/ j = n + 1
      OBVIOUS
    <3>2. G[n + 1] = Step(F, o, string, n + 1)
      OBVIOUS
    <3> QED
      BY <2>2, <3>1, <3>2
  <2>4. \A j \in 0..(n + 1) : Step(G, o, string, j) = Step(F, o, string, j)
    <3> HIDE DEF G
    <3>1. \A j \in 1..(n + 1) : G[j - 1] = F[j - 1]
      BY <2>2
    <3> QED
      BY <3>1 DEF Step
  <2>5. G = [j \in 0..(n + 1) |-> G[j]]
    OBVIOUS
  <2> HIDE DEF G
  <2>6. IsPut(G, o, string, n + 1)
    BY <2>3, <2>4, <2>5 DEF IsPut
  <2> QED
    BY <2>6
<1>3. Nat \subseteq T
  BY <1>1, <1>2, Induction
<1> QED
  BY <1>3

\* The pixels of a string are put at their places.
LEMMA PutAll ==
  ASSUME Picture, NEW s \in Seq(Nat), Len(s) <= Width * Height, NEW string, NEW d \in Nat,
         Len(string) \in Nat, Len(s) = d + Len(string),
         \A j \in 1..Len(string) : s[d + j] = string[j],
         NEW o, Placed(o, s, d)
  PROVE  Placed(Put(o, string), s, Len(s))
<1> DEFINE n == Len(string)
           p == CHOOSE F : IsPut(F, o, string, n)
<1>1. Put(o, string) = p[n]
  BY DEF Put, IsPut, Step
<1>2. IsPut(p, o, string, n)
  BY PutExists
<1> HIDE DEF p
<1>3. \A j \in 0..n : p[j] = Step(p, o, string, j)
  BY <1>2 DEF IsPut
<1> DEFINE T == {j \in Nat : j <= n => Placed(p[j], s, d + j)}
<1>4. 0 \in T
  BY <1>3 DEF Step
<1>5. ASSUME NEW j \in Nat, j \in T PROVE j + 1 \in T
  <2> SUFFICES ASSUME j + 1 <= n PROVE Placed(p[j + 1], s, d + (j + 1))
    OBVIOUS
  <2>1. Placed(p[j], s, d + j) /\ d + j \in Nat /\ d + j < Len(s) /\ (d + j) + 1 = d + (j + 1)
    <3>1. j <= n
      OBVIOUS
    <3> QED
      BY <1>5, <3>1
  <2>2. p[j + 1] = PutPixel(p[j], s[(d + j) + 1])
    <3>1. j + 1 \in 0..n /\ j + 1 # 0 /\ (j + 1) - 1 = j /\ j + 1 \in 1..n
      OBVIOUS
    <3> QED
      BY <1>3, <2>1, <3>1 DEF Step
  <2>3. d + j < Width * Height
    <3>1. Width * Height \in Nat
      BY SMTT(30) DEF Picture
    <3> DEFINE size2 == Width * Height
    <3> HIDE DEF size2
    <3>2. Len(s) <= size2 /\ size2 \in Nat /\ Len(s) \in Nat
      BY <3>1 DEF size2
    <3>3. d + j < size2
      BY <2>1, <3>2
    <3> QED
      BY <3>3 DEF size2
  <2> QED
    BY <2>1, <2>2, <2>3, PutOne
<1>6. Nat \subseteq T
  BY <1>4, <1>5, Induction
<1>7. n \in T
  BY <1>6
<1> QED
  BY <1>1, <1>7

\* Placed looks only at the pixels that are placed.
LEMMA PlacedBefore ==
  ASSUME Picture, NEW o, NEW s, NEW t, NEW d \in Nat, Placed(o, s, d),
         \A j \in 1..d : t[j] = s[j]
  PROVE  Placed(o, t, d)
<1>1. PICK n \in Nat : PlacedRows(o, s, d, n)
  BY DEF Placed
<1>2. /\ Width \in Nat \ {0} /\ Height \in Nat /\ o.byte \in 0..(Width - 1) /\ d = n * Width + o.byte
      /\ n * Width \in Nat
  BY <1>1, WholeRows DEF PlacedRows, Outs, Picture
<1>3. ASSUME NEW b \in 0..(o.byte - 1) PROVE o.row[b] = t[n * Width + b + 1]
  <2> DEFINE q == n * Width
  <2>1. q + b + 1 \in 1..d
    BY <1>2
  <2> QED
    BY <1>1, <2>1 DEF PlacedRows
<1>4. ASSUME NEW y \in Lines, NEW b \in 0..(Width - 1)
      PROVE  o.image[y][b] = IF Rank(y) < n THEN t[Rank(y) * Width + b + 1] ELSE Garbage
  <2>1. Rank(y) \in Nat
    BY <1>2, RankType
  <2>2. CASE Rank(y) < n
    <3> DEFINE q == n * Width
               r == Rank(y) * Width
    <3>1. q \in Nat /\ r \in Nat /\ r + Width <= q
      BY <1>2, <2>1, <2>2, WholeRows
    <3>2. d = q + o.byte
      BY <1>2
    <3> HIDE DEF q, r
    <3>3. r + b + 1 \in 1..d
      BY <1>2, <3>1, <3>2
    <3>4. t[r + b + 1] = s[r + b + 1]
      BY <3>3
    <3>5. o.image[y][b] = s[r + b + 1]
      BY <1>1, <2>2 DEF PlacedRows, r
    <3> QED
      BY <2>2, <3>4, <3>5 DEF r
  <2>3. CASE ~(Rank(y) < n)
    BY <1>1, <2>3 DEF PlacedRows
  <2> QED
    BY <2>2, <2>3
<1>5. PlacedRows(o, t, d, n)
  BY <1>1, <1>3, <1>4 DEF PlacedRows
<1> QED
  BY <1>5 DEF Placed

\* A string of pixels has been sent that is not unpacked yet: it is the last one of source,
\* and what was there before is in its places.
Pending == pc = "unpack" /\ unread # <<>> /\ ended = "no" /\ tokens # <<>>
LastString == MeaningOf(Clear, tokens)[Len(tokens)]
Partly(d) ==
  /\ Len(source) = d + Len(LastString) /\ Placed(out, source, d)
  /\ \A j \in 1..Len(LastString) : source[d + j] = LastString[j]

RowsInv ==
  /\ source \in Seq(Nat) /\ images \in Nat /\ interlaced \in BOOLEAN
  /\ pc = "unpack" => images > 0
  /\ images > 0 /\ pc # "null" =>
       /\ interlaced => Height >= 5
       /\ Len(source) <= Width * Height
       /\ IF Pending THEN \E d \in Nat : Partly(d) ELSE Placed(out, source, Len(source))

\* The pictures that have rows.
LEMMA PictureType ==
  ASSUME CodesInv, RowsInv, images > 0, pc # "null"
  PROVE  Picture
BY GifAssumption DEF CodesInv, RowsInv, Picture, Width, Height

\* The places of a picture are those of its size.
LEMMA SamePlaces ==
  ASSUME UNCHANGED <<size, interlaced>>
  PROVE  \A o, s, d : Placed(o, s, d) => Placed(o, s, d)'
<1>1. Width' = Width /\ Height' = Height
  BY DEF Width, Height
<1>2. \A y : PassOf(y)' = PassOf(y)
  BY DEF PassOf
<1>3. \A y : SentBefore(y)' = SentBefore(y)
  BY <1>1, <1>2 DEF SentBefore
<1>4. Lines' = Lines /\ Outs' = Outs /\ \A y : Rank(y)' = Rank(y)
  BY <1>1, <1>3 DEF Lines, Outs, Rank
<1> QED
  BY <1>1, <1>2, <1>4 DEF Placed, PlacedRows

\* Nothing has been put on a picture that has just been begun.
LEMMA NothingPlaced == (Picture => Placed(Blank(size), <<>>, 0))'
<1>1. Picture => Placed(Blank(size), <<>>, 0)
  <2> SUFFICES ASSUME Picture PROVE Placed(Blank(size), <<>>, 0)
    OBVIOUS
  <2> DEFINE o == Blank(size)
             empty == [b \in 0..(Width - 1) |-> Garbage]
  <2>1. /\ o.line = 0 /\ o.byte = 0 /\ o.pass = 0 /\ o.row = empty
        /\ o.image = [y \in Lines |-> empty]
    BY DEF Blank, Lines, Width, Height
  <2>2. empty \in [0..(Width - 1) -> Int]
    BY DEF Garbage
  <2>3. 0 \in 0..(Width - 1) /\ 0 \in Lines /\ Height \in Nat
    BY DEF Picture, Lines
  <2>4. o \in Outs
    <3>1. o = [line |-> 0, byte |-> 0, pass |-> 0, row |-> empty, image |-> [y \in Lines |-> empty]]
      BY DEF Blank, Lines, Width, Height
    <3> HIDE DEF o, empty
    <3>2. [y \in Lines |-> empty] \in [Lines -> [0..(Width - 1) -> Int]]
      BY <2>2
    <3> QED
      BY <2>2, <2>3, <3>1, <3>2 DEF Outs
  <2>5. \A y \in Lines : \A b \in 0..(Width - 1) : o.image[y][b] = Garbage /\ ~(Rank(y) < 0)
    <3>1. \A y \in Lines : Rank(y) \in Nat
      BY <2>3, RankType
    <3> HIDE DEF o
    <3> QED
      BY <2>1, <3>1
  <2>6. 0 = 0 * Width + 0
    BY DEF Picture
  <2>7. PassOf(0) = 0 /\ Rank(0) = 0
    BY FirstRank DEF PassOf
  <2> HIDE DEF o, empty
  <2>8. PlacedRows(o, <<>>, 0, 0)
    BY <2>1, <2>3, <2>4, <2>5, <2>6, <2>7 DEF PlacedRows
  <2> QED
    BY <2>8 DEF Placed, o
<1> QED
  BY <1>1, PTL

\* A step that touches nothing of the picture, when all that was sent is unpacked.
LEMMA RowsKept ==
  ASSUME RowsInv, UNCHANGED <<size, interlaced, source, out, images>>, ~Pending, ~Pending',
         pc' = "unpack" => images > 0, pc' # "null" => pc # "null"
  PROVE  RowsInv'
<1>1. Width' = Width /\ Height' = Height
  BY DEF Width, Height
<1>2. Placed(out, source, Len(source)) => Placed(out, source, Len(source))'
  BY SamePlaces
<1> QED
  BY <1>1, <1>2 DEF RowsInv

\* A code is sent, and with it the pixels it stands for.
LEMMA RowsSendCode ==
  ASSUME CodesInv, TableInv, RowsInv, NEW code \in Known, SendCode(code)
  PROVE  RowsInv'
<1> DEFINE string == Meaning(Append(tokens, code))[Len(Append(tokens, code))]
<1>1. /\ pc = "unpack" /\ unread = <<>> /\ ended = "no" /\ Send(code)
      /\ tokens' = Append(tokens, code) /\ UNCHANGED <<pc, size, depth, interlaced, images, out, ended>>
      /\ Len(source) + Len(string) <= Width * Height /\ source' = source \o string
  BY DEF SendCode, Send, file, decoder
<1>2. unread' # <<>> /\ CodesInv' /\ TableInv' /\ tokens \in Seq(Nat)
  BY <1>1, BitsSent, StepSendCode, TableSendCode DEF CodesInv
<1>3. Clear' = Clear /\ Width' = Width /\ Height' = Height /\ Clear \in Nat /\ Clear >= 4
  BY <1>1, CodeFacts DEF Clear, Width, Height, CodesInv
<1>4. string = LastString'
  BY <1>1, <1>3, MeaningSent DEF LastString
<1>5. string \in Seq(Nat)
  <2>1. Sound(Clear, tokens')
    BY <1>1, <1>2, <1>3 DEF TableInv
  <2>2. Len(tokens') \in 1..Len(tokens')
    BY <1>1, <1>2
  <2>3. MeaningOf(Clear, tokens')[Len(tokens')] \in Strings
    BY <1>3, <2>1, <2>2, MeaningIs
  <2> QED
    BY <1>3, <1>4, <2>3 DEF LastString, Strings
<1> HIDE DEF string
<1>6. /\ source \in Seq(Nat) /\ Len(source) \in Nat /\ images > 0 /\ Picture
      /\ Placed(out, source, Len(source)) /\ interlaced \in BOOLEAN /\ images \in Nat
      /\ interlaced => Height >= 5
  BY <1>1, PictureType DEF RowsInv, Pending
<1>7. /\ source' \in Seq(Nat) /\ Len(source') = Len(source) + Len(string)
      /\ \A j \in 1..Len(source) : source'[j] = source[j]
      /\ \A j \in 1..Len(string) : source'[Len(source) + j] = string[j]
  BY <1>1, <1>5, <1>6
<1>8. Placed(out, source', Len(source))
  BY <1>6, <1>7, PlacedBefore
<1>9. ASSUME NEW d, d = Len(source) PROVE Partly(d)'
  <2>1. Placed(out, source', d)
    BY <1>8, <1>9
  <2>2. \A s : Placed(out, s, d) => Placed(out', s, d')
    BY <1>1
  <2>3. Placed(out, source, d)'
    BY <1>1, <2>1, SamePlaces
  <2> QED
    BY <1>4, <1>7, <1>9, <2>3 DEF Partly
<1>10. \E d \in Nat : Partly(d)'
  BY <1>6, <1>9
<1>11. Pending'
  BY <1>1, <1>2 DEF Pending
<1> QED
  BY <1>1, <1>3, <1>6, <1>7, <1>10, <1>11 DEF RowsInv

\* A code is unpacked, and its pixels are put out.
LEMMA RowsUnpackCode ==
  ASSUME CodesInv, TableInv, RowsInv, UnpackCode
  PROVE  RowsInv'
<1>1. /\ Reads /\ Code \notin {Clear, EndOfImage} /\ ~IsUnknown /\ out' = Put(out, String)
      /\ UNCHANGED <<pc, size, interlaced, images, source>>
  BY DEF UnpackCode, file
<1>2. pc = "unpack" /\ unread' = <<>> /\ Pending /\ String = LastString /\ ~Pending'
  BY <1>1, CodeRead, GoodCode, TableUnpackCode DEF Pending, Reads, LastString
<1>3. /\ source \in Seq(Nat) /\ images \in Nat /\ images > 0 /\ Picture /\ interlaced \in BOOLEAN
      /\ interlaced => Height >= 5
      /\ Len(source) <= Width * Height
  BY <1>2, PictureType DEF RowsInv
<1>4. PICK d \in Nat : Partly(d)
  BY <1>2, <1>3 DEF RowsInv
<1>5. Len(String) \in Nat
  <2>1. Sound(Clear, tokens) /\ depth \in Depths /\ depth >= 2 /\ Len(tokens) \in 1..Len(tokens)
    BY <1>1, <1>2, CodeRead, GoodCode DEF TableInv
  <2>2. Clear \in Nat /\ Clear >= 4
    BY <2>1, CodeFacts
  <2>3. LastString \in Strings
    BY <2>1, <2>2, MeaningIs DEF LastString
  <2> QED
    BY <1>2, <2>3 DEF Strings
<1>6. Placed(out', source, Len(source))
  <2>1. /\ Placed(out, source, d) /\ Len(source) = d + Len(String)
        /\ \A j \in 1..Len(String) : source[d + j] = String[j]
    BY <1>2, <1>4 DEF Partly
  <2> QED
    BY <1>1, <1>3, <1>5, <2>1, PutAll
<1>7. Placed(out, source, Len(source))'
  BY <1>1, <1>6, SamePlaces
<1>8. Width' = Width /\ Height' = Height
  BY <1>1 DEF Width, Height
<1> QED
  BY <1>1, <1>2, <1>3, <1>7, <1>8 DEF RowsInv

\* A picture is begun.
LEMMA RowsImageBlock ==
  ASSUME RowsInv, NEW s \in Sizes, NEW d \in Depths, NEW i \in BOOLEAN,
         NEW localmap \in BOOLEAN, ImageBlock(s, d, i, localmap)
  PROVE  RowsInv'
<1>1. /\ size' = s /\ interlaced' = i /\ images' = images + 1 /\ source' = <<>> /\ tokens' = <<>>
      /\ out' = Blank(s) /\ (i => s[2] >= 5)
  BY DEF ImageBlock
<1>2. Width' \in Nat \ {0} /\ Height' \in Nat \ {0} /\ (interlaced' => Height' >= 5)
  BY <1>1, GifAssumption DEF Width, Height
<1>3. Picture'
  BY <1>1, <1>2 DEF Picture
<1>4. Placed(out, source, Len(source))'
  <2>1. Placed(Blank(size), <<>>, 0)'
    BY <1>3, NothingPlaced
  <2> QED
    BY <1>1, <2>1
<1>5. Len(source') <= Width' * Height' /\ source' \in Seq(Nat)
  <2>1. \A w, h \in Nat : 0 <= w * h
    BY SMTT(30)
  <2>2. 0 <= Width' * Height'
    BY <1>2, <2>1
  <2>3. source' = <<>> /\ Len(<<>>) = 0 /\ <<>> \in Seq(Nat)
    BY <1>1
  <2> QED
    BY <2>2, <2>3
<1>6. ~Pending'
  BY <1>1 DEF Pending
<1>7. images' \in Nat /\ images' > 0
  BY <1>1 DEF RowsInv
<1> QED
  BY <1>1, <1>2, <1>4, <1>5, <1>6, <1>7 DEF RowsInv

\* Every step keeps the rows in their places.
LEMMA RowsStep ==
  ASSUME CodesInv, TableInv, RowsInv, [Next]_vars
  PROVE  RowsInv'
<1>1. CASE UnpackCode
  BY <1>1, RowsUnpackCode
<1>2. CASE UnpackClear
  <2>1. tokens = <<>> /\ tokens' = tokens /\ UNCHANGED <<size, interlaced, source, out, images, pc>>
    BY <1>2, CodeRead, NoOther DEF UnpackClear, CodesInv, file
  <2> QED
    BY <2>1, RowsKept DEF Pending, RowsInv
<1>3. CASE UnpackEnd
  <2>1. ended = "yes" /\ pc' = "block" /\ pc = "unpack"
        /\ UNCHANGED <<size, interlaced, source, out, images>>
    BY <1>3, CodeRead, NoOther DEF UnpackEnd, CodesInv, file, decoder
  <2> QED
    BY <2>1, RowsKept DEF Pending
<1>4. CASE Confused
  <2>1. ended = "damaged" /\ pc' = "confused" /\ pc = "unpack"
        /\ UNCHANGED <<size, interlaced, source, out, images>>
    BY <1>4, RefusedCode DEF Confused, file, decoder, Reads
  <2> QED
    BY <2>1, RowsKept DEF Pending
<1>5. CASE Truncated \/ BadBlock
  <2>1. pc' = "null" /\ UNCHANGED <<size, interlaced, source, out, images>>
    BY <1>5 DEF Truncated, BadBlock, file, decoder, sender
  <2> QED
    BY <2>1 DEF RowsInv
<1>6. CASE LastBlock
  <2>1. pc = "block" /\ pc' = "returned" /\ UNCHANGED <<size, interlaced, source, out, images>>
    BY <1>6 DEF LastBlock, file, decoder, sender
  <2> QED
    BY <2>1, RowsKept DEF Pending
<1>7. CASE \E s \in Sizes, d \in Depths, i, localmap \in BOOLEAN : ImageBlock(s, d, i, localmap)
  BY <1>7, RowsImageBlock
<1>8. CASE \E code \in Known : SendCode(code)
  BY <1>8, RowsSendCode
<1>9. CASE SendClear \/ SendEnd \/ \E code \in 0..(Limit - 1) : SendDamaged(code)
  <2>1. /\ pc = "unpack" /\ unread = <<>> /\ UNCHANGED <<pc, size, interlaced, source, out, images>>
        /\ tokens' = <<>> \/ ended' # "no"
    BY <1>9 DEF SendClear, SendEnd, SendDamaged, Send, file, decoder
  <2> QED
    BY <2>1, RowsKept DEF Pending, RowsInv
<1>10. CASE SkipExtension \/ Ended \/ UNCHANGED vars
  <2>1. UNCHANGED <<pc, size, depth, interlaced, source, out, images, tokens, unread, ended>>
    BY <1>10 DEF SkipExtension, Ended, vars, file, decoder, sender
  <2>2. Width' = Width /\ Height' = Height /\ LastString' = LastString /\ (Pending' <=> Pending)
    BY <2>1 DEF Width, Height, LastString, Clear, Pending
  <2>3. \A d : Placed(out, source, d) => Placed(out, source, d)'
    <3>1. \A d : Placed(out, source, d) => Placed(out, source, d)'
      BY <2>1, SamePlaces
    <3> QED
      BY <3>1
  <2>4. \A d : Partly(d) => Partly(d)'
    BY <2>1, <2>2, <2>3 DEF Partly
  <2>5. Placed(out, source, Len(source)) => Placed(out, source, Len(source))'
    BY <2>1, SamePlaces
  <2> QED
    BY <2>1, <2>2, <2>4, <2>5 DEF RowsInv
<1> QED
  BY <1>1, <1>2, <1>3, <1>4, <1>5, <1>6, <1>7, <1>8, <1>9, <1>10 DEF Next

\* RowsInPlace: the rows that are complete are at their places and no others have been
\* written, for pictures of every size, interlaced or not.
THEOREM RowsAreInPlace == Spec => []RowsInPlace
<1>1. Init => CodesInv /\ TableInv /\ RowsInv
  BY DEF Init, CodesInv, TableInv, RowsInv
<1>2. CodesInv /\ TableInv /\ RowsInv /\ [Next]_vars => (CodesInv /\ TableInv /\ RowsInv)'
  BY CodesStep, TableStep, RowsStep
<1>3. CodesInv /\ RowsInv => RowsInPlace
  <2> SUFFICES ASSUME CodesInv, RowsInv, unread = <<>>, pc # "null", images > 0, NEW y \in Lines
               PROVE  out.image[y] =
                        [b \in 0..(Width - 1) |->
                           IF (Rank(y) + 1) * Width <= Len(source) THEN source[Rank(y) * Width + b + 1]
                           ELSE Garbage]
    BY DEF RowsInPlace, Lines, Rank
  <2>1. Picture /\ Placed(out, source, Len(source))
    BY PictureType DEF RowsInv, Pending
  <2>2. PICK n \in Nat : PlacedRows(out, source, Len(source), n)
    BY <2>1 DEF Placed
  <2>3. /\ out.image \in [Lines -> [0..(Width - 1) -> Int]] /\ out.byte \in 0..(Width - 1)
        /\ Len(source) = n * Width + out.byte
    BY <2>2 DEF PlacedRows, Outs
  <2>4. Rank(y) \in Nat
    BY <2>1, RankType DEF Picture
  <2>5. (Rank(y) + 1) * Width <= Len(source) <=> Rank(y) < n
    <3> DEFINE r == Rank(y)
               b == out.byte
               W == Width
    <3>1. W \in Nat \ {0} /\ r \in Nat /\ b \in 0..(W - 1) /\ Len(source) = n * W + b
      BY <2>1, <2>3, <2>4 DEF Picture
    <3> HIDE DEF r, b, W
    <3>2. (r + 1) * W <= n * W + b <=> r < n
      BY <3>1, WholeRows
    <3> QED
      BY <3>1, <3>2 DEF r, W
  <2>6. \A b \in 0..(Width - 1) :
          out.image[y][b] = IF Rank(y) < n THEN source[Rank(y) * Width + b + 1] ELSE Garbage
    BY <2>2 DEF PlacedRows
  <2> DEFINE lineOf == out.image[y]
  <2>7. lineOf = [b \in 0..(Width - 1) |-> lineOf[b]]
    BY <2>3
  <2> HIDE DEF lineOf
  <2>8. \A b \in 0..(Width - 1) :
          lineOf[b] = IF (Rank(y) + 1) * Width <= Len(source) THEN source[Rank(y) * Width + b + 1]
                      ELSE Garbage
    BY <2>5, <2>6 DEF lineOf
  <2>9. lineOf = [b \in 0..(Width - 1) |->
                    IF (Rank(y) + 1) * Width <= Len(source) THEN source[Rank(y) * Width + b + 1]
                    ELSE Garbage]
    BY <2>7, <2>8
  <2> QED
    BY <2>9 DEF lineOf
<1> QED
  BY <1>1, <1>2, <1>3, PTL DEF Spec
=============================================================================
