------------------------------ MODULE Img2sif ------------------------------
(***************************************************************************)
(* utils/utils/img2sif.c: reads a picture with loadgif and writes it as a   *)
(* .sif file.  It takes the picture for one of 96 by 24 whatever its size   *)
(* is, and looks at that much memory.                                       *)
(***************************************************************************)
EXTENDS GifReader, Images

VARIABLE sif     \* the output file; <<>> while it is what it was before

SifInit == Init /\ sif = <<>>

\* main: an error, and no file, unless loadgif returned a picture.
Convert ==
  /\ pc = "returned" /\ images > 0 /\ sif = <<>>
  /\ \E beyond \in {0, 1} :
       LET img == [n \in 0..(COLS * ROWS - 1) |->
                     IF n < Width * Height THEN out.image[n \div Width][n % Width] ELSE beyond]
       IN  sif' = writefile(img)
  /\ UNCHANGED vars

SifNext == (Next /\ UNCHANGED sif) \/ Convert

SifSpec == SifInit /\ [][SifNext]_<<vars, sif>>

----------------------------------------------------------------------------
(* Properties *)

\* The output file is touched only when all of the picture has been read; and what
\* p and sp show of it is then the pixels of the picture in the order in which they
\* are stored (the picture itself if that is 96 wide), those of each byte in reverse:
\* img2sif writes the first pixel as the highest bit, the others read the lowest first.
SifMirrored ==
  LET nth(p) == p[2] * COLS + (p[1] \div BYTE + 1) * BYTE - 1 - (p[1] % BYTE)
  IN  sif # <<>> =>
        /\ ended = "yes" /\ Len(source) = Width * Height
        /\ \A p \in DOMAIN p_shows(sif) :
             LET n == nth(p)
             IN  /\ n < Width * Height =>
                      p_shows(sif)[p] = (IF out.image[n \div Width][n % Width] = 0 THEN 0 ELSE 1)
                 /\ sp_shows(<<sif>>)[p] = p_shows(sif)[p]
=============================================================================
