----------------------------- MODULE GifReader -----------------------------
(***************************************************************************)
(* utils/utils/gif.c: the reader that unpacks a GIF file for img2sif.      *)
(* loadgif walks over the blocks of the file; unpackimage unpacks the      *)
(* codes of an image block (LZW with codes of growing size), and puts the  *)
(* lines of an interlaced picture in their places.                         *)
(*                                                                         *)
(* The file is the environment: it comes block by block and code by code,  *)
(* and may be cut off anywhere.  Its codes are those of any encoder: it    *)
(* may send any code it knows, and start afresh at any time; a damaged     *)
(* file may hold a code that is not known.  The bytes and sub-blocks that  *)
(* the codes lie across are abstracted to one stream of bits, of which one *)
(* code at a time is on its way.                                           *)
(***************************************************************************)
EXTENDS Integers, Sequences, FiniteSets

CONSTANTS
  Sizes,       \* <<width, height>> of the pictures
  Colours,     \* the colours that the pictures of each size use
  Depths,      \* the initial code sizes in the files; 2 to 8 are accepted
  MaxSize,     \* bits of the longest code, 12
  MaxImages    \* bound: image blocks in a file

ASSUME GifAssumption ==
  /\ Sizes \subseteq (Nat \ {0}) \X (Nat \ {0})
  /\ Colours \in [Sizes -> SUBSET Nat]
  /\ Depths \subseteq 1..(MaxSize - 1)
  /\ MaxSize \in Nat /\ MaxImages \in Nat

VARIABLES
  pc,            \* "block", "unpack", or how loadgif ends: "returned" a pointer to
                 \* the last picture, "null" for a file it cannot read, "confused"
                 \* by a code
  images,        \* image blocks so far
  size, depth, interlaced,                        \* the image's header
  nextcode, codesize, oldcode, oldtoken, table,   \* variables of unpackimage; table
                 \* holds codestack and lastcodestack, <<link, last pixel>> per code
  out,           \* its variables line, byte, pass, linebuffer and buffer
  unread,        \* the bits of the code on its way
  ended,         \* have the codes ended: "no", "yes" with the end code, or "damaged"?
  tokens,        \* history: the codes since the last clear code
  source         \* history: the pixels that have been sent

file == <<size, depth, interlaced, images>>
decoder == <<nextcode, codesize, oldcode, oldtoken, table, out>>
sender == <<unread, ended, tokens, source>>
vars == <<pc, file, decoder, sender>>

Width == size[1]
Height == size[2]
\* 1 << n.
Power[n \in 0..MaxSize] == IF n = 0 THEN 1 ELSE 2 * Power[n - 1]

Limit == Power[MaxSize]
NoCode == -1
Garbage == -1

\* bits2, the end code and the first code of the table.
Clear == Power[depth]
EndOfImage == Clear + 1
First == Clear + 2

Blank(s) ==
  [line |-> 0, byte |-> 0, pass |-> 0, row |-> [x \in 0..(s[1] - 1) |-> Garbage],
   image |-> [y \in 0..(s[2] - 1) |-> [x \in 0..(s[1] - 1) |-> Garbage]]]

Init ==
  /\ pc = "block"
  /\ images = 0
  /\ size \in Sizes /\ depth \in Depths /\ interlaced \in BOOLEAN
  /\ nextcode = 0 /\ codesize = 0 /\ oldcode = NoCode /\ oldtoken = NoCode
  /\ table = <<>>
  /\ out = Blank(size)
  /\ unread = <<>> /\ ended = "no"
  /\ tokens = <<>> /\ source = <<>>

----------------------------------------------------------------------------
(* The sender of an image's codes (external)                               *)

\* The pixels that the code at place j of the codes ts stands for: itself, or
\* what an earlier code stood for and the first pixel of the code after that.
Meaning(ts) ==
  LET m[j \in 1..Len(ts)] ==
        IF ts[j] < Clear THEN <<ts[j]>>
        ELSE LET e == ts[j] - First + 1
             IN  Append(m[e], IF e + 1 = j THEN m[e][1] ELSE m[e + 1][1])
  IN  m

\* The codes it may send next: a pixel of the bits in the header, or what a code but
\* the last, and the one after it, have made known.
Known == {c \in Colours[size] : c < Clear} \cup {code \in First..(First + Len(tokens) - 1) : code < Limit}

\* A code has as many bits as the largest one that could stand in its place.
Largest ==
  IF tokens = <<>> THEN EndOfImage
  ELSE IF First + Len(tokens) - 1 < Limit THEN First + Len(tokens) - 1
  ELSE Limit - 1
SentSize == CHOOSE s \in 1..MaxSize : Power[s - 1] <= Largest /\ Largest < Power[s]

\* The bits of a code, the lowest first.
Send(code) ==
  /\ pc = "unpack" /\ unread = <<>> /\ ended = "no"
  /\ unread' = [k \in 1..SentSize |-> (code \div Power[k - 1]) % 2]
  /\ UNCHANGED <<pc, file, decoder>>

SendCode(code) ==
  LET sent == Append(tokens, code)
      string == Meaning(sent)[Len(sent)]
  IN  /\ Send(code)
      /\ Len(source) + Len(string) <= Width * Height
      /\ tokens' = sent
      /\ source' = source \o string
      /\ UNCHANGED ended

SendClear ==
  /\ Send(Clear)
  /\ tokens' = <<>>
  /\ UNCHANGED <<ended, source>>

SendEnd ==
  /\ Send(EndOfImage)
  /\ Len(source) = Width * Height
  /\ ended' = "yes"
  /\ UNCHANGED <<tokens, source>>

\* In a damaged file a code may come that nothing has made known.
SendDamaged(code) ==
  /\ Send(code)
  /\ code > Largest /\ code < Power[SentSize]
  /\ ended' = "damaged"
  /\ UNCHANGED <<tokens, source>>

----------------------------------------------------------------------------
(* unpackimage *)

\* The next codesize bits, the lowest first; the stream must hold as many.
HasCode == codesize <= Len(unread)
Code ==
  LET value[k \in 0..codesize] == IF k = 0 THEN 0 ELSE value[k - 1] + unread[k] * Power[k - 1]
  IN  value[codesize]
Rest == SubSeq(unread, codesize + 1, Len(unread))

\* A code that the table cannot have yet.
IsUnknown == Code > nextcode \/ (Code = nextcode /\ oldcode = NoCode)

\* Following the links of the table, from the codes it has.
Expand ==
  LET e[code \in (0..(Clear - 1)) \cup (First..(nextcode - 1))] ==
        IF code < Clear THEN <<code>> ELSE Append(e[table[code][1]], table[code][2])
  IN  e

\* The pixels of the code at hand.  The one code that is not in the table yet
\* stands for the last code and its first pixel.
String == IF Code = nextcode THEN Append(Expand[oldcode], oldtoken) ELSE Expand[Code]

Increment == <<8, 8, 4, 2, 0>>
StartLine == <<0, 4, 2, 1, 0>>

\* Mutant: the start of the pass that ends, not of the one that begins.
NextLine_sameStart(o) ==
  IF ~interlaced THEN [o EXCEPT !.line = @ + 1]
  ELSE IF o.line + Increment[o.pass + 1] < Height
       THEN [o EXCEPT !.line = @ + Increment[o.pass + 1]]
       ELSE [o EXCEPT !.line = StartLine[o.pass + 1], !.pass = @ + 1]

\* Behind a line that is complete.
NextLine(o) ==
  IF ~interlaced THEN [o EXCEPT !.line = @ + 1]
  ELSE IF o.line + Increment[o.pass + 1] < Height
       THEN [o EXCEPT !.line = @ + Increment[o.pass + 1]]
       ELSE [o EXCEPT !.line = StartLine[o.pass + 2], !.pass = @ + 1]

PutPixel(o, pixel) ==
  LET row == [o.row EXCEPT ![o.byte] = pixel]
  IN  IF o.byte + 1 < Width
      THEN [o EXCEPT !.row = row, !.byte = @ + 1]
      ELSE NextLine([o EXCEPT !.row = row, !.byte = 0, !.image[o.line] = row])

Put(o, string) ==
  LET p[k \in 0..Len(string)] == IF k = 0 THEN o ELSE PutPixel(p[k - 1], string[k])
  IN  p[Len(string)]

\* Mutant: the code size grows one code late.
Grown_late == IF nextcode + 1 > Power[codesize] /\ codesize < MaxSize THEN codesize + 1 ELSE codesize

\* The code size when another code has been entered.
Grown == IF nextcode + 1 >= Power[codesize] /\ codesize < MaxSize THEN codesize + 1 ELSE codesize

\* Mutant: the last pixel of the string, not the first.
Enter_last ==
  IF nextcode < Limit /\ oldcode # NoCode
  THEN /\ table' = [code \in DOMAIN table \cup {nextcode} |->
                      IF code = nextcode THEN <<oldcode, String[Len(String)]>> ELSE table[code]]
       /\ nextcode' = nextcode + 1
       /\ codesize' = Grown
  ELSE UNCHANGED <<table, nextcode, codesize>>

\* The code before, and the first pixel of this one, make a new code.
Enter ==
  IF nextcode < Limit /\ oldcode # NoCode
  THEN /\ table' = [code \in DOMAIN table \cup {nextcode} |->
                      IF code = nextcode THEN <<oldcode, String[1]>> ELSE table[code]]
       /\ nextcode' = nextcode + 1
       /\ codesize' = Grown
  ELSE UNCHANGED <<table, nextcode, codesize>>

Reads == pc = "unpack" /\ unread # <<>> /\ HasCode /\ unread' = Rest

UnpackCode ==
  /\ Reads /\ Code \notin {Clear, EndOfImage} /\ ~IsUnknown
  /\ Enter
  /\ out' = Put(out, String)
  /\ oldtoken' = String[1]
  /\ oldcode' = Code
  /\ UNCHANGED <<pc, file, ended, tokens, source>>

UnpackClear ==
  /\ Reads /\ Code = Clear
  /\ nextcode' = First
  /\ codesize' = depth + 1
  /\ oldtoken' = NoCode /\ oldcode' = NoCode
  /\ UNCHANGED <<pc, file, table, out, ended, tokens, source>>

UnpackEnd ==
  /\ Reads /\ Code = EndOfImage
  /\ pc' = "block"
  /\ UNCHANGED <<file, decoder, ended, tokens, source>>

Confused ==
  /\ Reads /\ Code \notin {Clear, EndOfImage} /\ IsUnknown
  /\ pc' = "confused"
  /\ UNCHANGED <<file, decoder, ended, tokens, source>>

\* The data end, where a byte or a block of them should follow.
Truncated ==
  /\ pc = "unpack" /\ (unread # <<>> => ~HasCode)
  /\ pc' = "null"
  /\ UNCHANGED <<file, decoder, sender>>

----------------------------------------------------------------------------
(* loadgif.  The header has been read; here it walks over the blocks.      *)

\* An image block: its header and what unpackimage begins with.  A local
\* colour map is always refused: its size is compared with the wrong variable.
\* Interlaced pictures of fewer than 5 rows have no second pass, which the code
\* does not skip; they are left out.
ImageBlock(s, d, i, localmap) ==
  /\ pc = "block" /\ images < MaxImages
  /\ i => s[2] >= 5
  /\ images' = images + 1
  /\ pc' = IF localmap \/ d \notin 2..8 THEN "null" ELSE "unpack"
  /\ size' = s /\ depth' = d /\ interlaced' = i
  /\ nextcode' = Power[d] + 2 /\ codesize' = d + 1
  /\ oldcode' = NoCode /\ oldtoken' = NoCode
  /\ out' = Blank(s)
  /\ unread' = <<>> /\ ended' = "no" /\ tokens' = <<>> /\ source' = <<>>
  /\ UNCHANGED table

\* An extension is read over, whatever is in it; so is a 0 between blocks.
SkipExtension ==
  /\ pc = "block"
  /\ UNCHANGED vars

\* Any other byte, or the end of the file.
LastBlock ==
  /\ pc = "block" /\ pc' = "returned"
  /\ UNCHANGED <<file, decoder, sender>>

\* The header of a block is cut off, or there is no memory.
BadBlock ==
  /\ pc = "block" /\ pc' = "null"
  /\ UNCHANGED <<file, decoder, sender>>

Ended == pc \in {"returned", "null", "confused"} /\ UNCHANGED vars

Next ==
  \/ UnpackCode \/ UnpackClear \/ UnpackEnd \/ Confused \/ Truncated
  \/ SkipExtension \/ LastBlock \/ BadBlock \/ Ended
  \/ \E s \in Sizes, d \in Depths, i, localmap \in BOOLEAN : ImageBlock(s, d, i, localmap)
  \/ (\E code \in Known : SendCode(code)) \/ SendClear \/ SendEnd
  \/ \E code \in 0..(Limit - 1) : SendDamaged(code)

Spec == Init /\ [][Next]_vars

----------------------------------------------------------------------------
(* Properties *)

\* No encoder's codes, whatever their sizes, are ever taken for others or
\* refused: the sizes on both sides change at the same code, and stop growing
\* at the same; and a code that cannot be known is never unpacked.
NeverConfused ==
  /\ pc = "unpack" /\ unread # <<>> => Len(unread) = codesize
  /\ unread = <<>> => (pc = "confused" <=> ended = "damaged")

\* Every code that the codes since the last clear code have defined expands to what the
\* encoder means by it, whatever the table still holds from before a clear
\* code; and the next code to define is the one the encoder will use.
TableExact ==
  pc = "unpack" /\ unread = <<>> =>
    LET means == Meaning(tokens)
        defined == {j \in 1..(Len(tokens) - 1) : First + j - 1 < Limit}
    IN  /\ nextcode = First + Cardinality(defined)
        /\ \A j \in defined : Expand[First + j - 1] = Append(means[j], means[j + 1][1])

\* The pass that sends a row of an interlaced GIF: every 8th, every 8th from the 4th,
\* every 4th from the 2nd, or the odd ones; and the rows that are sent before a row.
PassOf(y) ==
  IF ~interlaced \/ y % 8 = 0 THEN 0
  ELSE IF y % 8 = 4 THEN 1
  ELSE IF y % 4 = 2 THEN 2 ELSE 3
SentBefore(y) ==
  {r \in 0..(Height - 1) : PassOf(r) < PassOf(y) \/ (PassOf(r) = PassOf(y) /\ r < y)}

\* Whenever the codes sent so far are unpacked, the rows they complete are at
\* their places in the picture, and no other row has been written.  A picture
\* that is returned is therefore whole.
RowsInPlace ==
  unread = <<>> /\ pc # "null" /\ images > 0 =>
    \A y \in 0..(Height - 1) :
      LET nth == Cardinality(SentBefore(y))
      IN  out.image[y] =
            [b \in 0..(Width - 1) |->
               IF (nth + 1) * Width <= Len(source) THEN source[nth * Width + b + 1] ELSE Garbage]
=============================================================================
