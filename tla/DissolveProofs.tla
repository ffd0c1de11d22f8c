--------------------------- MODULE DissolveProofs ---------------------------
(***************************************************************************)
(* Proofs about develop/random.c for every picture size, every width of a  *)
(* byte, every number of banks and every use of the tools meanwhile.       *)
(***************************************************************************)
EXTENDS Dissolve, FiniteSetTheorems, TLAPS

----------------------------------------------------------------------------
(* The order of the banks                                                  *)

\* (bank + 1) % 4, without the remainder.
LEMMA NextBankCases ==
  ASSUME NEW d \in Banks
  PROVE  NextBank(d) = IF d + 1 = NBanks THEN 0 ELSE d + 1
<1> USE BankAssumption DEF Banks
<1>1. CASE d + 1 = NBanks
  BY <1>1, SMTT(20) DEF NextBank
<1>2. CASE d + 1 < NBanks
  BY <1>2, SMTT(20) DEF NextBank
<1>3. QED
  BY <1>1, <1>2

\* The bank a program draws in is a bank, and not the one it comes after.
LEMMA NextBankDiffers ==
  ASSUME NEW d \in Banks
  PROVE  NextBank(d) \in Banks /\ NextBank(d) # d
BY NextBankCases, BankAssumption DEF Banks

\* No two banks have the same bank after them.
LEMMA NextBankInjective ==
  ASSUME NEW d \in Banks, NEW e \in Banks, NextBank(d) = NextBank(e)
  PROVE  d = e
BY NextBankCases, BankAssumption DEF Banks

----------------------------------------------------------------------------
(* Arithmetic of pixels, bytes and bits                                    *)

\* A pixel is a bit of a byte: pixel / 8 and pixel % 8 of the inner loop give it back.
LEMMA ByteAndBit ==
  ASSUME NEW pixel \in Pixels
  PROVE  /\ pixel \div Width \in Nat /\ pixel % Width \in Bits
         /\ pixel = Width * (pixel \div Width) + (pixel % Width)
<1>1. pixel \in Nat /\ Width \in Nat \ {0}
  BY DissolveAssumption DEF Pixels
<1>2. QED
  BY <1>1, SMTT(30) DEF Bits

\* The pixels of a byte are pixels: the picture is a whole number of bytes.
LEMMA WholeBytes ==
  ASSUME NEW pixel \in Pixels, NEW k \in Bits
  PROVE  Width * (pixel \div Width) + k \in Pixels
<1> DEFINE q == pixel \div Width
           m == N \div Width
<1>1. Width \in Nat \ {0} /\ N \in Nat \ {0} /\ q \in Nat /\ k \in 0..(Width - 1)
  BY ByteAndBit, DissolveAssumption DEF Bits
<1>2. m \in Nat /\ N = Width * m
  <2>1. N = Width * (N \div Width) + (N % Width) /\ N \div Width \in Nat
    BY <1>1, SMTT(30)
  <2>2. QED
    BY <2>1, DissolveAssumption
<1>3. Width * q \in Nat /\ Width * q < Width * m
  <2>1. Width * q \in Nat
    BY <1>1, SMTT(30)
  <2>2. Width * q <= pixel /\ pixel < N
    <3>1. pixel \in Nat /\ pixel < N
      BY <1>1 DEF Pixels
    <3>2. pixel % Width \in Nat /\ pixel = Width * q + (pixel % Width)
      BY ByteAndBit DEF Bits
    <3>3. \A a \in Nat, r \in Nat : pixel = a + r => a <= pixel
      BY <3>1
    <3>4. QED
      BY <2>1, <3>1, <3>2, <3>3
  <2>3. QED
    BY <1>1, <1>2, <2>1, <2>2 DEF Pixels
<1> HIDE DEF q, m
<1>4. q < m
  BY <1>1, <1>2, <1>3, SMTT(30)
<1>5. Width * q + Width <= Width * m
  BY <1>1, <1>2, <1>4, SMTT(30)
<1>6. Width * q + k \in Pixels
  BY <1>1, <1>2, <1>3, <1>5 DEF Pixels
<1>7. QED
  BY <1>6 DEF q

\* The pixel at bit k of the byte at hand is a pixel of that byte, and every
\* pixel of that byte is found at its own bit.
LEMMA AtFacts ==
  ASSUME TypeOK, pc \in {"load", "store"}
  PROVE  /\ i \in Pixels /\ pArray[i] \in Pixels
         /\ \A k \in Bits : At(k) \in Pixels
         /\ \A pixel \in Pixels :
              pixel \div Width = pArray[i] \div Width => At(pixel % Width) = pixel
         /\ \A k \in Bits : At(k) = pArray[i] <=> k = pArray[i] % Width
<1>1. i \in Pixels /\ pArray[i] \in Pixels
  BY DissolveAssumption DEF TypeOK, Pixels
<1>2. \A k \in Bits : At(k) \in Pixels
  BY <1>1, WholeBytes DEF At
<1>3. ASSUME NEW pixel \in Pixels, pixel \div Width = pArray[i] \div Width
      PROVE  At(pixel % Width) = pixel
  BY <1>3, ByteAndBit DEF At
<1>4. ASSUME NEW k \in Bits
      PROVE  At(k) = pArray[i] <=> k = pArray[i] % Width
  <2> DEFINE base == Width * (pArray[i] \div Width)
  <2>1. /\ pArray[i] \div Width \in Nat /\ pArray[i] % Width \in Bits
        /\ pArray[i] = base + (pArray[i] % Width)
    BY <1>1, ByteAndBit
  <2>2. base \in Nat
    <3>1. \A w \in Nat, q \in Nat : w * q \in Nat
      BY SMTT(30)
    <3>2. QED
      BY <2>1, <3>1, DissolveAssumption
  <2>3. At(k) = base + k
    BY DEF At
  <2>4. \A r, l \in Nat : base + l = base + r <=> l = r
    BY <2>2
  <2>5. k \in Nat /\ pArray[i] % Width \in Nat
    BY <2>1 DEF Bits
  <2> HIDE DEF base
  <2>6. QED
    BY <2>1, <2>3, <2>4, <2>5
<1>5. QED
  BY <1>1, <1>2, <1>3, <1>4

----------------------------------------------------------------------------
(* Type correctness                                                        *)

\* Before random starts the state is typed.
LEMMA InitType == Init => TypeOK
<1> SUFFICES ASSUME Init PROVE TypeOK
  OBVIOUS
<1>1. Identity \in [Pixels -> Pixels] /\ ZeroByte \in [Bits -> {0, 1}]
  BY DEF Identity, ZeroByte
<1>2. ram \in [Banks -> [Pixels -> {0, 1}]] /\ pBuf \in [Pixels -> {0, 1}]
  BY DissolveAssumption DEF Init
<1>3. 0 \in Banks /\ 0 \in 0..N
  BY BankAssumption, DissolveAssumption DEF Banks
<1>4. QED
  BY <1>1, <1>2, <1>3 DEF Init, TypeOK

\* Every step of random and of a tool keeps the state typed.
LEMMA TypeStep == TypeOK /\ [Next]_vars => TypeOK'
<1> SUFFICES ASSUME TypeOK, [Next]_vars PROVE TypeOK'
  OBVIOUS
<1> USE DEF TypeOK
<1>0. steady' \in BOOLEAN
  BY DEF Next, Program, BankTool, ModeTool, Ended, vars
<1> USE <1>0
<1>1. CASE OpenFile
  BY <1>1 DEF OpenFile, board
<1>2. CASE SetMode
  BY <1>2 DEF SetMode, ioctl_SETMODE, OneBit, Modes
<1>3. CASE GetMode
  BY <1>3 DEF GetMode, board
<1>4. CASE GetBank
  <2>1. Identity \in [Pixels -> Pixels] /\ 0 \in 0..N
    BY DissolveAssumption DEF Identity
  <2>2. QED
    BY <1>4, <2>1 DEF GetBank, board
<1>5. ASSUME NEW p \in Pixels, Shuffle(p) PROVE TypeOK'
  <2>1. i \in Pixels /\ i + 1 \in 0..N
    BY <1>5, DissolveAssumption DEF Shuffle, Pixels
  <2>2. QED
    BY <1>5, <2>1 DEF Shuffle, board
<1>6. CASE ReadFile
  <2>1. 0 \in 0..N /\ 0 < N
    BY DissolveAssumption
  <2>2. QED
    BY <1>6, <2>1, DissolveAssumption DEF ReadFile, board
<1>7. CASE Load
  <2>1. b' \in [Bits -> {0, 1}]
    BY <1>7, AtFacts DEF Load
  <2>2. QED
    BY <1>7, <2>1 DEF Load, board
<1>8. CASE Store
  <2>1. i + 1 \in 0..N /\ (i + 1 # N => i + 1 < N)
    BY <1>8, DissolveAssumption DEF Store
  <2>2. NextBank(nBank) \in Banks
    BY NextBankDiffers
  <2>3. ram' \in [Banks -> [Pixels -> {0, 1}]]
    BY <1>8, ByteAndBit DEF Store
  <2>4. QED
    BY <1>8, <2>1, <2>2, <2>3 DEF Store
<1>9. CASE Write
  BY <1>9 DEF Write
<1>10. CASE SetBank
  BY <1>10 DEF SetBank, ioctl_SETBANK
<1>11. ASSUME NEW to \in Banks, BankTool(to) PROVE TypeOK'
  BY <1>11, DissolveAssumption DEF BankTool, ioctl_SETBANK, local
<1>12. ASSUME NEW to \in Modes, ModeTool(to) PROVE TypeOK'
  BY <1>12, DissolveAssumption DEF ModeTool, ioctl_SETMODE, local
<1>13. CASE UNCHANGED vars
  BY <1>13 DEF vars
<1>14. QED
  BY <1>1, <1>2, <1>3, <1>4, <1>5, <1>6, <1>7, <1>8, <1>9, <1>10, <1>11, <1>12, <1>13
     DEF Next, Program, Ended

\* Type correctness of random.
THEOREM TypeCorrect == Spec => []TypeOK
BY InitType, TypeStep, PTL DEF Spec

----------------------------------------------------------------------------
(* The order of the pixels                                                 *)

\* The array before the shuffle has every pixel once.
LEMMA IdentityIsPermutation == pArray = Identity => IsPermutation
BY DEF IsPermutation, Identity

\* Exchanging two places of a permutation gives a permutation.
LEMMA SwapKeepsPermutation ==
  ASSUME TypeOK, IsPermutation, NEW k \in Pixels, NEW p \in Pixels,
         pArray' = [pArray EXCEPT ![k] = pArray[p], ![p] = pArray[k]]
  PROVE  IsPermutation'
<1> DEFINE swapped(j) == IF j = p THEN k ELSE IF j = k THEN p ELSE j
<1>1. \A j \in Pixels : swapped(j) \in Pixels /\ pArray'[j] = pArray[swapped(j)]
  BY DEF TypeOK
<1>2. \A j, l \in Pixels : swapped(j) = swapped(l) => j = l
  OBVIOUS
<1>3. \A j \in Pixels : swapped(swapped(j)) = j
  OBVIOUS
<1> HIDE DEF swapped
<1>4. \A j, l \in Pixels : pArray'[j] = pArray'[l] => j = l
  BY <1>1, <1>2 DEF IsPermutation
<1>5. ASSUME NEW pixel \in Pixels
      PROVE  \E j \in Pixels : pArray'[j] = pixel
  <2>1. PICK l \in Pixels : pArray[l] = pixel
    BY DEF IsPermutation
  <2>2. swapped(l) \in Pixels /\ pArray'[swapped(l)] = pixel
    BY <1>1, <1>3, <2>1
  <2>3. QED
    BY <2>2
<1>6. QED
  BY <1>4, <1>5 DEF IsPermutation

\* No step of random takes a pixel out of the array or puts one in twice.
LEMMA PermutationStep == TypeOK /\ IsPermutation /\ [Next]_vars => IsPermutation'
<1> SUFFICES ASSUME TypeOK, IsPermutation, [Next]_vars PROVE IsPermutation'
  OBVIOUS
<1>1. CASE pArray' = pArray
  BY <1>1 DEF IsPermutation
<1>2. CASE GetBank
  BY <1>2 DEF GetBank, IsPermutation, Identity
<1>3. ASSUME NEW p \in Pixels, Shuffle(p) PROVE IsPermutation'
  <2>1. i \in Pixels
    BY <1>3, DissolveAssumption DEF Shuffle, TypeOK, Pixels
  <2>2. QED
    BY <1>3, <2>1, SwapKeepsPermutation DEF Shuffle
<1>4. QED
  BY <1>1, <1>2, <1>3 DEF Next, Program, OpenFile, SetMode, GetMode, ReadFile, Load, Store,
     Write, SetBank, BankTool, ModeTool, Ended, local, vars

\* Whatever rand returns, MakeUnsortedArray's array holds every pixel once.
THEOREM ShuffleIsPermutation == Spec => []IsPermutation
<1>1. Init => IsPermutation
  BY IdentityIsPermutation DEF Init
<1>2. QED
  BY <1>1, TypeCorrect, PermutationStep, PTL DEF Spec

----------------------------------------------------------------------------
(* The dissolved bank                                                      *)

\* Once the loop is over, the bank before nBank holds the new picture; once it
\* is written too, so does nBank.
WholePicture ==
  /\ pc \in {"write", "setbank"} =>
       /\ i = N
       /\ \A d \in Banks : NextBank(d) = nBank => ram[d] = pBuf
  /\ pc = "setbank" => ram[nBank] = pBuf

DissolveInv == TypeOK /\ IsPermutation /\ DissolvedPart /\ WholePicture

\* Storing the byte in hand changes the pixel at hand and no other.
LEMMA StoreChangesOnePixel ==
  ASSUME TypeOK, DissolvedPart, Store
  PROVE  ram' = [ram EXCEPT ![nBank] = [@ EXCEPT ![pArray[i]] = pBuf[pArray[i]]]]
<1> DEFINE stored == [pixel \in Pixels |->
                        IF pixel \div Width = pArray[i] \div Width THEN b[pixel % Width]
                                                                   ELSE ram[nBank][pixel]]
           turned == [ram[nBank] EXCEPT ![pArray[i]] = pBuf[pArray[i]]]
<1>1. ram' = [ram EXCEPT ![nBank] = stored]
  BY DEF Store
<1>2. ram[nBank] \in [Pixels -> {0, 1}] /\ pc = "store" /\ pArray[i] \in Pixels
  BY AtFacts DEF TypeOK, Store
<1>3. ASSUME NEW pixel \in Pixels
      PROVE  stored[pixel] = turned[pixel]
  <2>1. CASE pixel \div Width = pArray[i] \div Width
    <3>1. pixel % Width \in Bits /\ At(pixel % Width) = pixel
      BY <1>2, <2>1, AtFacts, ByteAndBit
    <3>2. b[pixel % Width] = IF pixel = pArray[i] THEN pBuf[pixel] ELSE ram[nBank][pixel]
      BY <1>2, <3>1 DEF DissolvedPart
    <3>3. QED
      BY <1>2, <2>1, <3>2
  <2>2. CASE pixel \div Width # pArray[i] \div Width
    BY <1>2, <2>2
  <2>3. QED
    BY <2>1, <2>2
<1>4. stored = turned
  BY <1>2, <1>3
<1>5. QED
  BY <1>1, <1>4

\* When the loop goes on, the pixel at hand joins the visited ones.
LEMMA VisitedGrows ==
  ASSUME TypeOK, i < N, i' = i + 1, pArray' = pArray
  PROVE  Visited' = Visited \cup {pArray[i]}
<1>1. i \in Nat /\ 0..((i + 1) - 1) = 0..(i - 1) \cup {i}
  BY DEF TypeOK
<1>2. QED
  BY <1>1 DEF Visited

\* After the last turn of the loop every pixel has been visited.
LEMMA AllVisited ==
  ASSUME TypeOK, IsPermutation
  PROVE  {pArray[j] : j \in 0..(N - 1)} = Pixels
<1>1. \A j \in Pixels : pArray[j] \in Pixels
  BY DEF TypeOK
<1>2. \A pixel \in Pixels : \E j \in Pixels : pArray[j] = pixel
  BY DEF IsPermutation
<1>3. {pArray[j] : j \in Pixels} = Pixels
  BY <1>1, <1>2
<1>4. QED
  BY <1>3 DEF Pixels

\* Every step keeps what the loop of random relies on.
LEMMA DissolveStep == DissolveInv /\ [Next]_vars => DissolveInv'
<1> SUFFICES ASSUME DissolveInv, [Next]_vars PROVE DissolveInv'
  OBVIOUS
<1>0. TypeOK /\ TypeOK' /\ IsPermutation /\ IsPermutation' /\ DissolvedPart /\ WholePicture
  BY TypeStep, PermutationStep DEF DissolveInv
<1> SUFFICES DissolvedPart' /\ WholePicture'
  BY <1>0 DEF DissolveInv
<1>1. CASE /\ UNCHANGED <<ram, nBank, pBuf, pArray, i, b>>
           /\ pc' = pc \/ pc' \notin {"load", "store", "write", "setbank"}
  BY <1>0, <1>1 DEF DissolvedPart, WholePicture, Visited, At
<1>2. CASE GetBank \/ \E p \in Pixels : Shuffle(p)
  BY <1>2 DEF GetBank, Shuffle, DissolvedPart, WholePicture
<1>3. CASE ReadFile
  <2>1. i' = 0 /\ 0..(0 - 1) = {}
    BY <1>3 DEF ReadFile
  <2>2. Visited' = {}
    BY <2>1 DEF Visited
  <2>3. QED
    BY <1>3, <2>2 DEF ReadFile, DissolvedPart, WholePicture
<1>4. CASE Load
  <2>1. \A k \in Bits :
          b'[k] = IF At(k) = pArray[i] THEN pBuf[At(k)] ELSE ram[nBank][At(k)]
    BY <1>0, <1>4, AtFacts DEF Load
  <2>2. UNCHANGED <<ram, nBank, pBuf, pArray, i>> /\ pc = "load" /\ pc' = "store"
    BY <1>4 DEF Load, board
  <2>3. Visited' = Visited /\ \A k \in Bits : At(k)' = At(k)
    BY <2>2 DEF Visited, At
  <2>4. QED
    BY <1>0, <2>1, <2>2, <2>3 DEF DissolvedPart, WholePicture
<1>5. CASE Store
  <2>1. /\ ram' = [ram EXCEPT ![nBank] = [@ EXCEPT ![pArray[i]] = pBuf[pArray[i]]]]
        /\ nBank \in Banks /\ ram \in [Banks -> [Pixels -> {0, 1}]]
        /\ pArray[i] \in Pixels /\ pBuf \in [Pixels -> {0, 1}]
        /\ pBuf' = pBuf
    BY <1>0, <1>5, StoreChangesOnePixel, AtFacts DEF TypeOK, Store
  <2>2. Visited' = Visited \cup {pArray[i]}
    BY <1>0, <1>5, VisitedGrows DEF Store, TypeOK
  <2>3. \A pixel \in Visited' : ram'[nBank][pixel] = pBuf[pixel]
    <3>1. \A pixel \in Visited : ram[nBank][pixel] = pBuf[pixel] /\ pixel \in Pixels
      <4>1. Visited \subseteq Pixels
        BY <1>0, DissolveAssumption DEF TypeOK, Visited, Pixels
      <4>2. QED
        BY <1>0, <1>5, <4>1 DEF DissolvedPart, Store
    <3>2. QED
      BY <2>1, <2>2, <3>1
  <2>4. CASE i + 1 = N
    <3>1. pc' = "write" /\ i' = N /\ nBank' = NextBank(nBank)
      BY <1>5, <2>4 DEF Store
    <3>2. Visited' = Pixels
      BY <1>0, <1>5, <3>1, AllVisited DEF Visited, Store
    <3>3. ram'[nBank] = pBuf
      <4>1. ram'[nBank] \in [Pixels -> {0, 1}]
        BY <1>0, <2>1 DEF TypeOK
      <4>2. QED
        BY <2>1, <2>3, <3>2, <4>1
    <3>4. \A d \in Banks : NextBank(d) = nBank' => ram'[d] = pBuf
      BY <2>1, <3>1, <3>3, NextBankInjective
    <3>5. QED
      BY <2>1, <3>1, <3>4 DEF DissolvedPart, WholePicture
  <2>5. CASE i + 1 # N
    <3>1. pc' = "load" /\ nBank' = nBank
      BY <1>5, <2>5 DEF Store
    <3>2. QED
      BY <2>1, <2>3, <3>1 DEF DissolvedPart, WholePicture
  <2>6. QED
    BY <2>4, <2>5
<1>6. CASE Write
  <2>1. \A d \in Banks : NextBank(d) = nBank => d # nBank
    BY NextBankDiffers
  <2>2. QED
    BY <1>0, <1>6, <2>1 DEF Write, DissolvedPart, WholePicture, TypeOK
<1>7. QED
  BY <1>1, <1>2, <1>3, <1>4, <1>5, <1>6
     DEF Next, Program, OpenFile, SetMode, GetMode, SetBank, BankTool, ModeTool, Ended,
         local, vars, board, ioctl_SETMODE, ioctl_SETBANK

\* What the loop of random relies on, in every state.
LEMMA DissolveInvariant == Spec => []DissolveInv
<1>1. Init => DissolveInv
  <2> SUFFICES ASSUME Init PROVE DissolveInv
    OBVIOUS
  <2>1. DissolvedPart /\ WholePicture
    BY DEF Init, DissolvedPart, WholePicture
  <2>2. QED
    BY <2>1, InitType, IdentityIsPermutation DEF Init, DissolveInv
<1>2. QED
  BY <1>1, DissolveStep, PTL DEF Spec

\* In the loop every visited pixel is new, and the byte in hand is not stale.
THEOREM VisitedPixelsAreNew == Spec => []DissolvedPart
<1>1. DissolveInv => DissolvedPart
  BY DEF DissolveInv
<1>2. QED
  BY <1>1, DissolveInvariant, PTL

\* The switch to the next bank at the end cannot be seen, unless somebody has
\* switched away from the dissolved bank: this needs that the shuffle loses no
\* pixel.
THEOREM LastSwitchIsInvisible == Spec => LastSwitchInvisible
<1>1. ASSUME DissolveInv, SetBank, NextBank(bank) = nBank
      PROVE  Screen' = Screen
  <2>1. pc = "setbank" /\ bank \in Banks /\ bank' = nBank /\ ram' = ram
    BY <1>1 DEF SetBank, ioctl_SETBANK, DissolveInv, TypeOK
  <2>2. ram[bank] = pBuf /\ ram[nBank] = pBuf
    BY <1>1, <2>1 DEF DissolveInv, WholePicture
  <2>3. QED
    BY <2>1, <2>2 DEF Screen
<1>2. DissolveInv /\ [Next]_vars
        => [SetBank /\ NextBank(bank) = nBank => Screen' = Screen]_vars
  BY <1>1
<1>3. QED
  BY <1>2, DissolveInvariant, PTL DEF Spec, LastSwitchInvisible

\* What flickers: the pixels that a step changes on the sign.
Changed == {pixel \in Pixels : Screen'[pixel] # Screen[pixel]}

\* A step that changes nothing, and one that turns one pixel.
LEMMA AtMostOne ==
  ASSUME NEW pixel, Changed \subseteq {pixel}
  PROVE  Cardinality(Changed) <= 1
<1>1. IsFiniteSet({pixel}) /\ Cardinality({pixel}) = 1
  BY FS_Singleton
<1>2. Changed \in SUBSET {pixel}
  OBVIOUS
<1> QED
  BY ONLY <1>1, <1>2, FS_Subset

\* A step that leaves memory and bank alone changes nothing on the sign.
LEMMA NothingChanged ==
  ASSUME ram' = ram, bank' = bank
  PROVE  Changed = {}
BY DEF Changed, Screen

\* While the bank on display stays, a pixel changes only by taking its value in the
\* new picture, and one at a time but for the write of the whole picture: whatever
\* the tools do meanwhile, for every picture size and number of banks.
THEOREM NothingFlickers == Spec => NoFlicker
<1>1. ASSUME DissolveInv, [Next]_vars, bank' = bank
      PROVE  /\ \A pixel \in Changed : Screen'[pixel] = pBuf[pixel]
             /\ pc # "write" => Cardinality(Changed) <= 1
  <2>0. bank \in Banks /\ ram \in [Banks -> [Pixels -> {0, 1}]] /\ nBank \in Banks
    BY <1>1 DEF DissolveInv, TypeOK
  <2>1. CASE ram' = ram
    <3>1. Changed = {}
      BY <1>1, <2>1, NothingChanged
    <3> QED
      BY <3>1, AtMostOne
  <2>2. CASE Store
    <3>1. ram' = [ram EXCEPT ![nBank] = [ram[nBank] EXCEPT ![pArray[i]] = pBuf[pArray[i]]]]
      BY <1>1, <2>2, StoreChangesOnePixel DEF DissolveInv
    <3>2. ASSUME NEW pixel \in Changed
          PROVE  pixel = pArray[i] /\ Screen'[pixel] = pBuf[pixel]
      <4>1. pixel \in Pixels /\ ram'[bank][pixel] # ram[bank][pixel]
        BY <1>1 DEF Changed, Screen
      <4>2. bank = nBank
        BY <2>0, <3>1, <4>1
      <4>3. ram'[bank] = [ram[nBank] EXCEPT ![pArray[i]] = pBuf[pArray[i]]] /\ DOMAIN ram[nBank] = Pixels
        BY <2>0, <3>1, <4>2
      <4>4. pixel = pArray[i]
        BY <4>1, <4>2, <4>3
      <4> QED
        BY <1>1, <4>1, <4>3, <4>4 DEF Screen
    <3> QED
      BY <3>2, AtMostOne
  <2>3. CASE Write
    <3>1. pc = "write" /\ ram' = [ram EXCEPT ![nBank] = pBuf]
      BY <2>3 DEF Write
    <3>2. ASSUME NEW pixel \in Changed PROVE Screen'[pixel] = pBuf[pixel]
      BY <1>1, <2>0, <3>1 DEF Changed, Screen
    <3> QED
      BY <3>1, <3>2
  <2> QED
    BY <1>1, <2>1, <2>2, <2>3
       DEF Next, Program, OpenFile, SetMode, GetMode, GetBank, Shuffle, ReadFile, Load, SetBank, BankTool,
           ModeTool, Ended, vars, board, ioctl_SETMODE, ioctl_SETBANK
<1>2. DissolveInv /\ [Next]_vars =>
        [bank' = bank =>
           /\ \A pixel \in Changed : Screen'[pixel] = pBuf[pixel]
           /\ pc # "write" => Cardinality(Changed) <= 1]_vars
  BY <1>1
<1> QED
  BY <1>2, DissolveInvariant, PTL DEF Spec, NoFlicker, Changed

----------------------------------------------------------------------------
(* The program implements the abstract dissolve when nobody switches banks *)
(* meanwhile.                                                              *)

\* The dissolved bank is the one on display.
DisplayInv ==
  /\ pc \in {"shuffle", "read", "load", "store"} => nBank = bank
  /\ pc \in {"write", "setbank"} => nBank = NextBank(bank)
  /\ pc = "done" => i = N /\ Screen = pBuf

SteadyInv == steady => DisplayInv

\* A tool that has switched banks has switched them for good.
LEMMA SteadyStep == [Next]_vars /\ steady' => steady
BY DEF Next, Program, BankTool, ModeTool, Ended, vars

\* While nobody switches banks, every step keeps what the sign shows in step with the
\* program.
LEMMA DisplayStep ==
  ASSUME DissolveInv, DisplayInv, [Next]_vars, steady'
  PROVE  DisplayInv'
<1> USE DEF DisplayInv
<1>1. CASE OpenFile \/ SetMode \/ GetMode \/ GetBank
  BY <1>1 DEF OpenFile, SetMode, GetMode, GetBank, ioctl_SETMODE, board
<1>2. CASE \E p \in Pixels : Shuffle(p)
  BY <1>2 DEF Shuffle, board
<1>3. CASE ReadFile \/ Load
  BY <1>3 DEF ReadFile, Load, board
<1>4. CASE Store
  BY <1>4 DEF Store
<1>5. CASE Write
  BY <1>5 DEF Write
<1>6. CASE SetBank
  BY <1>6 DEF SetBank, ioctl_SETBANK, Screen, DissolveInv, WholePicture
<1>7. ASSUME NEW to \in Modes, ModeTool(to) PROVE DisplayInv'
  BY <1>7 DEF ModeTool, ioctl_SETMODE, local, Screen
<1>8. ASSUME NEW to \in Banks, BankTool(to) PROVE DisplayInv'
  BY <1>8 DEF BankTool, ioctl_SETBANK, local, Screen, DissolveInv, TypeOK
<1>9. CASE UNCHANGED vars
  BY <1>9 DEF vars, Screen
<1>10. QED
  BY <1>1, <1>2, <1>3, <1>4, <1>5, <1>6, <1>7, <1>8, <1>9 DEF Next, Program, Ended

\* While nobody switches banks, the sign shows what the program has drawn.
LEMMA SteadyInvariant == Spec => []SteadyInv
<1>1. Init => SteadyInv
  BY DEF Init, SteadyInv, DisplayInv
<1>2. DissolveInv /\ SteadyInv /\ [Next]_vars => SteadyInv'
  BY SteadyStep, DisplayStep DEF SteadyInv
<1>3. QED
  BY <1>1, <1>2, DissolveInvariant, PTL DEF Spec

\* While nobody switches banks, every step of random is a step or a stutter of the
\* abstract dissolve.
LEMMA RefinementStep ==
  ASSUME DissolveInv, DisplayInv, [Next]_vars, steady'
  PROVE  [Abstract!PNext]_(Abstract!pvars)
<1>0. TypeOK /\ IsPermutation /\ DissolvedPart /\ WholePicture
  BY DEF DissolveInv
<1>1. CASE OpenFile \/ SetMode \/ GetMode \/ GetBank \/ \E p \in Pixels : Shuffle(p)
  <2>1. Phase = "waiting"
    BY <1>1 DEF OpenFile, SetMode, GetMode, GetBank, Shuffle, Phase
  <2>2. Phase' = "waiting"
    BY <1>1 DEF OpenFile, SetMode, GetMode, GetBank, Shuffle, Phase
  <2>3. UNCHANGED <<Screen, pBuf>>
    BY <1>1 DEF OpenFile, SetMode, GetMode, GetBank, Shuffle, board, ioctl_SETMODE, Screen
  <2>4. QED
    BY <2>1, <2>2, <2>3 DEF Todo, Abstract!pvars
<1>2. CASE ReadFile
  <2>1. Phase = "waiting" /\ Todo = Pixels /\ UNCHANGED Screen
    BY <1>2 DEF ReadFile, Phase, Todo, board, Screen
  <2>2. CASE pc' = "failed" /\ UNCHANGED pBuf
    <3>1. Phase' = "waiting" /\ Todo' = Pixels
      BY <2>2 DEF Phase, Todo
    <3>2. QED
      BY <2>1, <2>2, <3>1 DEF Abstract!pvars
  <2>3. CASE pc' = "load" /\ pBuf' \in Pictures
    <3>1. Phase' = "turning"
      BY <2>3 DEF Phase
    <3>2. Todo' = Pixels
      BY <1>0, <1>2, <3>1, AllVisited DEF ReadFile, Todo
    <3>3. Abstract!Begin
      BY <2>1, <2>3, <3>1, <3>2 DEF Abstract!Begin
    <3>4. QED
      BY <3>3 DEF Abstract!PNext
  <2>4. QED
    BY <1>2, <2>2, <2>3 DEF ReadFile
<1>3. CASE Load
  <2>1. Phase = "turning" /\ Phase' = "turning"
    BY <1>3 DEF Load, Phase
  <2>2. UNCHANGED <<Screen, pBuf>>
    BY <1>3 DEF Load, board, Screen
  <2>3. Todo' = Todo
    BY <1>3, <2>1 DEF Load, Todo
  <2>4. QED
    BY <2>1, <2>2, <2>3 DEF Abstract!pvars
<1>4. CASE Store
  <2>1. Phase = "turning" /\ Phase' = "turning"
    BY <1>4 DEF Store, Phase
  <2>2. /\ ram' = [ram EXCEPT ![nBank] = [@ EXCEPT ![pArray[i]] = pBuf[pArray[i]]]]
        /\ nBank = bank /\ bank' = bank /\ bank \in Banks
        /\ pArray[i] \in Pixels /\ i \in Pixels
    BY <1>0, <1>4, StoreChangesOnePixel, AtFacts DEF TypeOK, Store, DisplayInv
  <2>3. Screen' = [Screen EXCEPT ![pArray[i]] = pBuf[pArray[i]]]
    BY <1>0, <2>2 DEF Screen, TypeOK
  <2>4. Todo = {pArray[j] : j \in i..(N - 1)} /\ Todo' = {pArray[j] : j \in (i + 1)..(N - 1)}
    BY <1>4, <2>1 DEF Store, Todo
  <2>5. /\ i..(N - 1) = {i} \cup ((i + 1)..(N - 1)) /\ i..(N - 1) \subseteq Pixels
        /\ i \notin (i + 1)..(N - 1)
    BY <2>2, DissolveAssumption DEF Pixels
  <2>6. pArray[i] \in Todo /\ Todo' = Todo \ {pArray[i]}
    BY <1>0, <2>2, <2>4, <2>5 DEF IsPermutation
  <2>7. Abstract!Turn(pArray[i])
    BY <1>4, <2>1, <2>3, <2>6 DEF Abstract!Turn, Store
  <2>8. QED
    BY <2>2, <2>7 DEF Abstract!PNext
<1>5. CASE Write
  <2>1. Phase = "turning" /\ Phase' = "turning"
    BY <1>5 DEF Write, Phase
  <2>2. bank \in Banks /\ nBank # bank
    BY <1>0, <1>5, NextBankDiffers DEF Write, TypeOK, DisplayInv
  <2>3. UNCHANGED <<Screen, pBuf>>
    BY <1>0, <1>5, <2>2 DEF Write, Screen, TypeOK
  <2>4. Todo' = Todo
    BY <1>5, <2>1 DEF Write, Todo
  <2>5. QED
    BY <2>1, <2>3, <2>4 DEF Abstract!pvars
<1>6. CASE SetBank
  <2>1. Phase = "turning" /\ Phase' = "over" /\ pc = "setbank"
    BY <1>6 DEF SetBank, Phase
  <2>2. i = N /\ i' = N
    BY <1>0, <1>6, <2>1 DEF WholePicture, SetBank
  <2>3. Todo = {} /\ Todo' = {}
    <3>1. N..(N - 1) = {}
      BY DissolveAssumption
    <3>2. QED
      BY <2>1, <2>2, <3>1 DEF Todo
  <2>4. nBank = NextBank(bank) /\ bank \in Banks
    BY <1>0, <2>1 DEF DisplayInv, TypeOK
  <2>5. Screen = pBuf /\ Screen' = pBuf /\ pBuf' = pBuf
    BY <1>0, <1>6, <2>1, <2>4 DEF WholePicture, SetBank, ioctl_SETBANK, Screen
  <2>6. Abstract!Finish
    BY <2>1, <2>3, <2>5 DEF Abstract!Finish
  <2>7. QED
    BY <2>6 DEF Abstract!PNext
<1>7. ASSUME NEW to \in Modes, ModeTool(to)
      PROVE  UNCHANGED Abstract!pvars
  BY <1>7 DEF ModeTool, ioctl_SETMODE, local, Screen, Phase, Todo, Abstract!pvars
<1>8. ASSUME NEW to \in Banks, BankTool(to)
       PROVE  UNCHANGED Abstract!pvars
  BY <1>0, <1>8 DEF BankTool, ioctl_SETBANK, local, Screen, Phase, Todo, Abstract!pvars, TypeOK
<1>9. CASE UNCHANGED vars
  BY <1>9 DEF vars, Screen, Phase, Todo, Abstract!pvars
<1>10. QED
  BY <1>1, <1>2, <1>3, <1>4, <1>5, <1>6, <1>7, <1>8, <1>9 DEF Next, Program, Ended

\* For every picture, bank count and order of the pixels: while nobody switches
\* banks, the picture on display turns into the new one, each pixel once.
THEOREM Refinement == Spec => ImplementsDissolve
<1>1. Init => Abstract!PInit
  BY DEF Init, Screen, Phase, Todo, Abstract!PInit
<1>2. DissolveInv /\ SteadyInv /\ [Next]_vars
        => [steady' => Abstract!PNext]_(Abstract!pvars)
  BY SteadyStep, RefinementStep DEF SteadyInv
<1>3. QED
  BY <1>1, <1>2, SteadyInvariant, DissolveInvariant, PTL DEF Spec, ImplementsDissolve
=============================================================================
