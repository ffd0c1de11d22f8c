----------------------------- MODULE ShowProofs -----------------------------
(***************************************************************************)
(* Proofs about develop/show.c for every number of banks above one, every  *)
(* picture size, every set of runs, command lines and files.               *)
(***************************************************************************)
EXTENDS Show, TLAPS

\* The bank a program draws in is a bank, and not the one it comes after.
LEMMA NextBankDiffers ==
  ASSUME NEW d \in Banks
  PROVE  NextBank(d) \in Banks /\ NextBank(d) # d
<1> USE BankAssumption DEF Banks
<1>1. CASE d + 1 = NBanks
  BY <1>1, SMTT(20) DEF NextBank
<1>2. CASE d + 1 < NBanks
  BY <1>2, SMTT(20) DEF NextBank
<1> QED
  BY <1>1, <1>2

\* A run that is fresh knows the bank on display, and draws in the next one.
FreshInv ==
  \A p \in fresh :
    /\ pc[p] \in {"open", "copy", "setbank", "sleep", "done"}
    /\ pc[p] \in {"open", "sleep"} => cur[p] = bank
    /\ pc[p] \in {"copy", "setbank"} => cur[p] = NextBank(bank)

\* Without overlap one run at most is under way, and it is fresh from the
\* moment it has asked for the bank.
Serial ==
  /\ \A p, q \in Progs : Running(p) /\ Running(q) => p = q
  /\ \A p \in Progs :
       pc[p] \in {"open", "copy", "setbank", "sleep"} => p \in fresh

\* Without overlap nobody else writes what a run has copied.
Copied ==
  \A p \in Progs :
    /\ pc[p] = "copy" =>
         \A c \in 0..(copied[p] - 1) : ram[cur[p]][c] = buf[p][c]
    /\ pc[p] \in {"setbank", "sleep"} => ram[cur[p]] = buf[p]

AloneInv == alone => Serial /\ Copied

----------------------------------------------------------------------------
\* A command line names at least one file.
LEMMA PlaylistFacts ==
  ASSUME NEW p \in Progs
  PROVE  /\ Len(Playlist[p]) \in Nat \ {0}
         /\ \A i \in 1..Len(Playlist[p]) : Playlist[p][i] \in Files
BY ShowAssumption

\* A picture with the bytes of a file read over its start is a picture.
LEMMA OverlayType ==
  ASSUME NEW b \in [Cells -> Contents], NEW f \in Files
  PROVE  Overlay(b, f) \in [Cells -> Contents]
BY DEF Overlay, Contents

----------------------------------------------------------------------------
\* The loop variables stay in their ranges at the end of an iteration.
LEMMA NextFileType ==
  ASSUME TypeOK, NEW p \in Progs, NextFile(p)
  PROVE  /\ n' \in [Progs -> Nat \ {0}]
         /\ \A q \in Progs : n'[q] <= Len(Playlist[q])
         /\ x' \in [Progs -> Nat]
         /\ \/ Goto(p, "open")
            \/ Goto(p, "done")
<1>1. n[p] \in Nat \ {0} /\ x[p] \in Nat
  BY DEF TypeOK
<1>2. CASE n[p] < Len(Playlist[p])
  <2>1. n' = [n EXCEPT ![p] = n[p] + 1] /\ x' = x /\ Goto(p, "open")
    BY <1>2 DEF NextFile
  <2>2. QED
    BY <1>1, <1>2, <2>1, PlaylistFacts DEF TypeOK
<1>3. CASE ~(n[p] < Len(Playlist[p]))
  <2>1. /\ n' = [n EXCEPT ![p] = 1]
        /\ x' = [x EXCEPT ![p] = IF Forever(p) THEN 1 ELSE x[p] + 1]
        /\ Goto(p, "open") \/ Goto(p, "done")
    BY <1>3 DEF NextFile
  <2>2. QED
    BY <1>1, <2>1, PlaylistFacts DEF TypeOK
<1>4. QED
  BY <1>2, <1>3

\* Every step of every run of show keeps the state typed.
LEMMA TypeStep == TypeOK /\ [Next]_vars => TypeOK'
<1> SUFFICES ASSUME TypeOK, [Next]_vars PROVE TypeOK'
  OBVIOUS
<1> USE DEF TypeOK
<1>1. ASSUME NEW p \in Progs, Start(p) PROVE TypeOK'
  BY <1>1 DEF Start, Goto, board
<1>2. ASSUME NEW p \in Progs, GetMode(p), alone' = alone PROVE TypeOK'
  BY <1>2 DEF GetMode, Goto, board
<1>3. ASSUME NEW p \in Progs, SetMode(p), alone' = alone PROVE TypeOK'
  BY <1>3 DEF SetMode, ioctl_SETMODE, OneBit, Modes, Goto
<1>4. ASSUME NEW p \in Progs, GetBank(p), alone' = alone PROVE TypeOK'
  BY <1>4 DEF GetBank, Goto, board
<1>5. ASSUME NEW p \in Progs, Skip(p), alone' = alone PROVE TypeOK'
  BY <1>5, NextFileType DEF Skip, Goto, board
<1>6. ASSUME NEW p \in Progs, Read(p), alone' = alone PROVE TypeOK'
  <2>1. File(p) \in Files
    BY PlaylistFacts DEF File
  <2>2. Overlay(buf[p], File(p)) \in [Cells -> Contents]
    BY <2>1, OverlayType
  <2>3. NextBank(cur[p]) \in Banks
    BY NextBankDiffers
  <2>4. QED
    BY <1>6, <2>2, <2>3, ShowAssumption DEF Read, Goto, board
<1>7. ASSUME NEW p \in Progs, Copy(p), alone' = alone PROVE TypeOK'
  <2>1. copied[p] \in 0..(Size - 1) /\ copied[p] + 1 \in 0..Size /\ copied[p] \in Cells
    BY <1>7, ShowAssumption DEF Copy
  <2>2. cur[p] \in Banks /\ buf[p][copied[p]] \in Contents
    BY <2>1
  <2>3. ram' \in [Banks -> [Cells -> Contents]]
    BY <1>7, <2>1, <2>2 DEF Copy, Poke
  <2>4. copied' \in [Progs -> 0..Size]
    BY <1>7, <2>1 DEF Copy
  <2>5. \A q \in Progs : pc'[q] = "copy" => copied'[q] < Size
    BY <1>7, <2>1, ShowAssumption DEF Copy, Goto
  <2>6. QED
    BY <1>7, <2>3, <2>4, <2>5 DEF Copy, Poke, Goto
<1>8. ASSUME NEW p \in Progs, SetBank(p), alone' = alone PROVE TypeOK'
  BY <1>8 DEF SetBank, ioctl_SETBANK, Goto
<1>9. ASSUME NEW p \in Progs, Wake(p), alone' = alone PROVE TypeOK'
  BY <1>9, NextFileType DEF Wake, Goto, board
<1>10. CASE UNCHANGED vars
  BY <1>10 DEF vars
<1>11. QED
  BY <1>1, <1>2, <1>3, <1>4, <1>5, <1>6, <1>7, <1>8, <1>9, <1>10 DEF Next, Step

\* Type correctness of show.
THEOREM TypeCorrect == Spec => []TypeOK
<1>1. Init => TypeOK
  BY PlaylistFacts, ShowAssumption, BankAssumption DEF Init, TypeOK, Contents, Banks
<1>2. QED
  BY <1>1, TypeStep, PTL DEF Spec

----------------------------------------------------------------------------
(* What a fresh run knows, with any number of runs under way.              *)

\* A run that is fresh stays right about the banks until another one switches.
LEMMA FreshStep == TypeOK /\ FreshInv /\ [Next]_vars => FreshInv'
<1> SUFFICES ASSUME TypeOK, FreshInv, [Next]_vars PROVE FreshInv'
  OBVIOUS
<1> USE DEF FreshInv
<1>0. /\ pc \in [Progs -> {"idle", "getmode", "setmode", "getbank", "open", "copy",
                            "setbank", "sleep", "done"}]
      /\ cur \in [Progs -> Banks] /\ fresh \subseteq Progs
  BY DEF TypeOK
<1>1. ASSUME NEW p \in Progs, Start(p) PROVE FreshInv'
  BY <1>0, <1>1 DEF Start, Goto, board
<1>2. ASSUME NEW p \in Progs, GetMode(p) PROVE FreshInv'
  BY <1>0, <1>2 DEF GetMode, Goto, board
<1>3. ASSUME NEW p \in Progs, SetMode(p) PROVE FreshInv'
  BY <1>0, <1>3 DEF SetMode, ioctl_SETMODE, Goto
<1>4. ASSUME NEW p \in Progs, GetBank(p) PROVE FreshInv'
  BY <1>0, <1>4 DEF GetBank, Goto, board
<1>5. ASSUME NEW p \in Progs, Skip(p) PROVE FreshInv'
  BY <1>0, <1>5, NextFileType DEF Skip, Goto, board
<1>6. ASSUME NEW p \in Progs, Read(p) PROVE FreshInv'
  BY <1>0, <1>6 DEF Read, Goto, board
<1>7. ASSUME NEW p \in Progs, Copy(p) PROVE FreshInv'
  BY <1>0, <1>7 DEF Copy, Poke, Goto
<1>8. ASSUME NEW p \in Progs, SetBank(p) PROVE FreshInv'
  BY <1>0, <1>8 DEF SetBank, ioctl_SETBANK, Goto
<1>9. ASSUME NEW p \in Progs, Wake(p) PROVE FreshInv'
  BY <1>0, <1>9, NextFileType DEF Wake, Goto, board
<1>10. CASE UNCHANGED vars
  BY <1>10 DEF vars
<1>11. QED
  BY <1>1, <1>2, <1>3, <1>4, <1>5, <1>6, <1>7, <1>8, <1>9, <1>10 DEF Next, Step

\* What a fresh run knows of the banks, in every state.
LEMMA FreshInvariant == Spec => []FreshInv
<1>1. Init => FreshInv
  BY DEF Init, FreshInv
<1>2. QED
  BY <1>1, TypeCorrect, FreshStep, PTL DEF Spec

\* With any number of overlapping runs: a run tears the picture on display only
\* if another run has switched banks behind its back.
THEOREM SetterNeverTearsIt == Spec => []SetterNeverTears
<1>1. TypeOK /\ FreshInv => SetterNeverTears
  BY NextBankDiffers DEF TypeOK, FreshInv, SetterNeverTears
<1>2. QED
  BY <1>1, TypeCorrect, FreshInvariant, PTL

----------------------------------------------------------------------------
(* Runs that do not overlap.                                               *)

\* A run that starts while none is under way is fresh.
LEMMA SerialStep ==
  ASSUME TypeOK, FreshInv, Serial, [Next]_vars, alone'
  PROVE  Serial'
<1> USE DEF Serial, Running
<1>0. /\ pc \in [Progs -> {"idle", "getmode", "setmode", "getbank", "open", "copy",
                            "setbank", "sleep", "done"}]
      /\ fresh \subseteq Progs
  BY DEF TypeOK
<1>1. ASSUME NEW p \in Progs, Start(p) PROVE Serial'
  BY <1>0, <1>1 DEF Start, Goto
<1>2. ASSUME NEW p \in Progs, GetMode(p) PROVE Serial'
  BY <1>0, <1>2 DEF GetMode, Goto
<1>3. ASSUME NEW p \in Progs, SetMode(p) PROVE Serial'
  BY <1>0, <1>3 DEF SetMode, Goto
<1>4. ASSUME NEW p \in Progs, GetBank(p) PROVE Serial'
  BY <1>0, <1>4 DEF GetBank, Goto
<1>5. ASSUME NEW p \in Progs, Skip(p) PROVE Serial'
  BY <1>0, <1>5, NextFileType DEF Skip, Goto
<1>6. ASSUME NEW p \in Progs, Read(p) PROVE Serial'
  BY <1>0, <1>6 DEF Read, Goto
<1>7. ASSUME NEW p \in Progs, Copy(p) PROVE Serial'
  BY <1>0, <1>7 DEF Copy, Goto
<1>8. ASSUME NEW p \in Progs, SetBank(p) PROVE Serial'
  BY <1>0, <1>8 DEF SetBank, Goto
<1>9. ASSUME NEW p \in Progs, Wake(p) PROVE Serial'
  BY <1>0, <1>9, NextFileType DEF Wake, Goto
<1>10. CASE UNCHANGED vars
  BY <1>10 DEF vars
<1>11. QED
  BY <1>1, <1>2, <1>3, <1>4, <1>5, <1>6, <1>7, <1>8, <1>9, <1>10 DEF Next, Step

\* A run that draws alone keeps what it has drawn in its bank.
LEMMA CopyStep ==
  ASSUME TypeOK, Serial, Copied, [Next]_vars
  PROVE  Copied'
<1> USE DEF Copied
<1>0. /\ pc \in [Progs -> {"idle", "getmode", "setmode", "getbank", "open", "copy",
                            "setbank", "sleep", "done"}]
      /\ ram \in [Banks -> [Cells -> Contents]] /\ buf \in [Progs -> [Cells -> Contents]]
      /\ cur \in [Progs -> Banks] /\ copied \in [Progs -> 0..Size]
      /\ \A p \in Progs : pc[p] = "copy" => copied[p] < Size
  BY DEF TypeOK
<1>1. ASSUME NEW p \in Progs, Start(p) PROVE Copied'
  BY <1>0, <1>1 DEF Start, Goto, board
<1>2. ASSUME NEW p \in Progs, GetMode(p) PROVE Copied'
  BY <1>0, <1>2 DEF GetMode, Goto, board
<1>3. ASSUME NEW p \in Progs, SetMode(p) PROVE Copied'
  BY <1>0, <1>3 DEF SetMode, ioctl_SETMODE, Goto
<1>4. ASSUME NEW p \in Progs, GetBank(p) PROVE Copied'
  BY <1>0, <1>4 DEF GetBank, Goto, board
<1>5. ASSUME NEW p \in Progs, Skip(p) PROVE Copied'
  <2>1. UNCHANGED <<ram, cur, buf, copied>>
    BY <1>5 DEF Skip, board
  <2>2. Goto(p, "open") \/ Goto(p, "done")
    BY <1>5, NextFileType DEF Skip
  <2>3. \A q \in Progs : pc'[q] \in {"copy", "setbank", "sleep"} => pc'[q] = pc[q]
    BY <1>0, <2>2 DEF Goto
  <2>4. QED
    BY <2>1, <2>3
<1>6. ASSUME NEW p \in Progs, Read(p) PROVE Copied'
  <2>1. copied'[p] = 0 /\ 0..(0 - 1) = {} /\ pc'[p] = "copy" /\ ram' = ram
    BY <1>0, <1>6 DEF Read, Goto, board
  <2>2. ASSUME NEW q \in Progs, q # p
        PROVE  pc'[q] = pc[q] /\ cur'[q] = cur[q] /\ buf'[q] = buf[q] /\ copied'[q] = copied[q]
    BY <1>0, <1>6, <2>2 DEF Read, Goto
  <2>3. QED
    BY <2>1, <2>2
<1>7. ASSUME NEW p \in Progs, Copy(p) PROVE Copied'
  <2> DEFINE k == copied[p]
  <2>1. /\ k \in 0..(Size - 1) /\ k \in Cells /\ cur[p] \in Banks
        /\ buf' = buf /\ cur' = cur
    BY <1>0, <1>7, ShowAssumption DEF Copy
  <2>2. \A c \in Cells : ram'[cur[p]][c] = IF c = k THEN buf[p][k] ELSE ram[cur[p]][c]
    BY <1>0, <1>7, <2>1 DEF Copy, Poke
  <2>3. \A c \in 0..k : ram'[cur[p]][c] = buf[p][c]
    <3>1. \A c \in 0..(k - 1) : ram[cur[p]][c] = buf[p][c]
      BY <1>7 DEF Copy
    <3>2. \A c \in 0..k : c \in Cells /\ (c = k \/ c \in 0..(k - 1))
      BY <2>1, ShowAssumption
    <3>3. QED
      BY <2>2, <3>1, <3>2
  <2>4. ASSUME NEW q \in Progs, q # p
        PROVE  pc'[q] = pc[q] /\ pc[q] \notin {"copy", "setbank", "sleep"}
    BY <1>0, <1>7, <2>4 DEF Copy, Goto, Serial, Running
  <2>5. CASE k + 1 = Size
    <3>1. pc'[p] = "setbank"
      BY <1>0, <1>7, <2>5 DEF Copy, Goto
    <3>2. ram'[cur[p]] \in [Cells -> Contents] /\ buf[p] \in [Cells -> Contents]
      <4>1. buf[p][k] \in Contents /\ ram' = [ram EXCEPT ![cur[p]][k] = buf[p][k]]
        BY <1>0, <1>7, <2>1 DEF Copy, Poke
      <4>2. QED
        BY <1>0, <2>1, <4>1
    <3>3. \A c \in Cells : ram'[cur[p]][c] = buf[p][c]
      BY <2>1, <2>3, <2>5, ShowAssumption
    <3>4. ram'[cur[p]] = buf[p]
      BY <3>2, <3>3
    <3>5. QED
      BY <2>1, <2>4, <3>1, <3>4
  <2>6. CASE k + 1 # Size
    <3>1. pc'[p] = "copy" /\ copied'[p] = k + 1 /\ (k + 1) - 1 = k
      BY <1>0, <1>7, <2>1, <2>6 DEF Copy, Goto
    <3>2. QED
      BY <2>1, <2>3, <2>4, <3>1
  <2>7. QED
    BY <2>5, <2>6
<1>8. ASSUME NEW p \in Progs, SetBank(p) PROVE Copied'
  BY <1>0, <1>8 DEF SetBank, ioctl_SETBANK, Goto
<1>9. ASSUME NEW p \in Progs, Wake(p) PROVE Copied'
  <2>1. UNCHANGED <<ram, cur, buf, copied>>
    BY <1>9 DEF Wake, board
  <2>2. Goto(p, "open") \/ Goto(p, "done")
    BY <1>9, NextFileType DEF Wake
  <2>3. \A q \in Progs : pc'[q] \in {"copy", "setbank", "sleep"} => pc'[q] = pc[q]
    BY <1>0, <2>2 DEF Goto
  <2>4. QED
    BY <2>1, <2>3
<1>10. CASE UNCHANGED vars
  BY <1>10 DEF vars
<1>11. QED
  BY <1>1, <1>2, <1>3, <1>4, <1>5, <1>6, <1>7, <1>8, <1>9, <1>10 DEF Next, Step

\* Runs that have overlapped have overlapped for good.
LEMMA AloneStep == [Next]_vars /\ alone' => alone
BY DEF Next, Step, Start, vars

\* Runs that do not overlap draw whole pictures into the bank that is not on display.
LEMMA AloneInvariant == Spec => []AloneInv
<1>1. Init => AloneInv
  BY DEF Init, AloneInv, Serial, Copied, Running
<1>2. TypeOK /\ FreshInv /\ AloneInv /\ [Next]_vars => AloneInv'
  <2> SUFFICES ASSUME TypeOK, FreshInv, AloneInv, [Next]_vars, alone' PROVE Serial' /\ Copied'
    BY DEF AloneInv
  <2>1. Serial /\ Copied
    BY AloneStep DEF AloneInv
  <2>2. QED
    BY <2>1, SerialStep, CopyStep
<1>3. QED
  BY <1>1, <1>2, TypeCorrect, FreshInvariant, PTL DEF Spec

\* Runs that do not overlap never draw into the bank on display.
THEOREM NoTearWithoutOverlap == Spec => []NoTear
<1>1. SetterNeverTears /\ AloneInv => NoTear
  BY DEF SetterNeverTears, AloneInv, Serial, NoTear
<1>2. QED
  BY <1>1, AloneInvariant, SetterNeverTearsIt, PTL

----------------------------------------------------------------------------
(* What the sign shows, byte for byte.                                     *)

\* Byte c of what p has drawn when it has been through m files of its command line,
\* after y passes.
Drawn(p, c, m, y) ==
  LET covers(i) == FileLen[Playlist[p][i]] > c
      now == {i \in 1..m : covers(i)}
      before == {i \in 1..Len(Playlist[p]) : y > 0 /\ covers(i)}
      newest(S) == CHOOSE i \in S : \A j \in S : j <= i
  IN  IF now # {} THEN Playlist[p][newest(now)]
      ELSE IF before # {} THEN Playlist[p][newest(before)]
      ELSE Garbage

\* The buffer of a run holds what its files have left there.
DrawnInv ==
  \A p \in Progs :
    /\ pc[p] \in {"idle", "getmode", "setmode", "getbank"} =>
         n[p] = 1 /\ x[p] = 0 /\ \A c \in Cells : buf[p][c] = Garbage
    /\ pc[p] = "open" => \A c \in Cells : buf[p][c] = Drawn(p, c, n[p] - 1, x[p])
    /\ pc[p] \in {"copy", "setbank", "sleep"} =>
         \A c \in Cells : buf[p][c] = Drawn(p, c, n[p], x[p])

\* A run that has seen to the mode finds the mode as it left it: no run sets another.
ModeInv ==
  \A p \in Progs :
    pc[p] \in {"getbank", "open", "copy", "setbank", "sleep"} => mode = OneBit

\* The next file covers its bytes of the picture and leaves the others.
LEMMA DrawnNext ==
  ASSUME NEW p \in Progs, NEW c \in Cells, NEW i \in 1..Len(Playlist[p]), NEW y \in Nat
  PROVE  Drawn(p, c, i, y) =
           IF FileLen[Playlist[p][i]] > c THEN Playlist[p][i] ELSE Drawn(p, c, i - 1, y)
<1> DEFINE now(m) == {j \in 1..m : FileLen[Playlist[p][j]] > c}
       newest(S) == CHOOSE m \in S : \A j \in S : j <= m
       rest == IF {j \in 1..Len(Playlist[p]) : y > 0 /\ FileLen[Playlist[p][j]] > c} # {}
               THEN Playlist[p][newest({j \in 1..Len(Playlist[p]) : y > 0 /\ FileLen[Playlist[p][j]] > c})]
               ELSE Garbage
<1>0. \A m : Drawn(p, c, m, y) = IF now(m) # {} THEN Playlist[p][newest(now(m))] ELSE rest
  BY DEF Drawn
<1>1. CASE FileLen[Playlist[p][i]] > c
  <2>1. i \in now(i) /\ \A j \in now(i) : j <= i
    BY <1>1, PlaylistFacts
  <2>2. ASSUME NEW m \in now(i), \A j \in now(i) : j <= m PROVE m = i
    BY <2>1, <2>2, PlaylistFacts
  <2>3. newest(now(i)) = i
    BY <2>1, <2>2
  <2> QED
    BY <1>0, <1>1, <2>1, <2>3
<1>2. CASE ~(FileLen[Playlist[p][i]] > c)
  <2>1. now(i) = now(i - 1)
    BY <1>2, PlaylistFacts
  <2> HIDE DEF now, rest, newest
  <2> QED
    BY <1>0, <1>2, <2>1
<1> QED
  BY <1>1, <1>2

\* After the last file comes the first, of another pass.
LEMMA DrawnAgain ==
  ASSUME NEW p \in Progs, NEW c \in Cells, NEW y \in Nat, NEW z \in Nat \ {0}
  PROVE  Drawn(p, c, Len(Playlist[p]), y) = Drawn(p, c, 0, z)
<1>1. {i \in 1..0 : FileLen[Playlist[p][i]] > c} = {}
  OBVIOUS
<1>2. CASE {i \in 1..Len(Playlist[p]) : FileLen[Playlist[p][i]] > c} = {}
  <2>1. {i \in 1..Len(Playlist[p]) : y > 0 /\ FileLen[Playlist[p][i]] > c} = {}
    BY <1>2
  <2>2. {i \in 1..Len(Playlist[p]) : z > 0 /\ FileLen[Playlist[p][i]] > c} = {}
    BY <1>2
  <2> QED
    BY <1>1, <1>2, <2>1, <2>2 DEF Drawn
<1>3. CASE {i \in 1..Len(Playlist[p]) : FileLen[Playlist[p][i]] > c} # {}
  <2>1. {i \in 1..Len(Playlist[p]) : z > 0 /\ FileLen[Playlist[p][i]] > c} =
          {i \in 1..Len(Playlist[p]) : FileLen[Playlist[p][i]] > c}
    OBVIOUS
  <2>2. Drawn(p, c, 0, z) = Playlist[p][CHOOSE i \in {k \in 1..Len(Playlist[p]) : FileLen[Playlist[p][k]] > c} :
                              \A j \in {k \in 1..Len(Playlist[p]) : FileLen[Playlist[p][k]] > c} : j <= i]
    BY <1>1, <1>3, <2>1 DEF Drawn
  <2>3. Drawn(p, c, Len(Playlist[p]), y) =
          Playlist[p][CHOOSE i \in {k \in 1..Len(Playlist[p]) : FileLen[Playlist[p][k]] > c} :
                              \A j \in {k \in 1..Len(Playlist[p]) : FileLen[Playlist[p][k]] > c} : j <= i]
    BY <1>3 DEF Drawn
  <2> QED
    BY <2>2, <2>3
<1> QED
  BY <1>2, <1>3

\* Before the first file of the first pass.
LEMMA DrawnNothing ==
  ASSUME NEW p \in Progs, NEW c \in Cells
  PROVE  Drawn(p, c, 0, 0) = Garbage
<1>1. {i \in 1..0 : FileLen[Playlist[p][i]] > c} = {}
  OBVIOUS
<1>2. {i \in 1..Len(Playlist[p]) : 0 > 0 /\ FileLen[Playlist[p][i]] > c} = {}
  OBVIOUS
<1> QED
  BY <1>1, <1>2 DEF Drawn

\* The end of an iteration keeps what has been drawn.
LEMMA DrawnNextFile ==
  ASSUME TypeOK, NEW p \in Progs, NextFile(p), NEW c \in Cells
  PROVE  Drawn(p, c, n'[p] - 1, x'[p]) = Drawn(p, c, n[p], x[p])
<1>1. n[p] \in Nat \ {0} /\ x[p] \in Nat /\ n[p] <= Len(Playlist[p]) /\ Len(Playlist[p]) \in Nat
  BY PlaylistFacts DEF TypeOK
<1>2. CASE n[p] < Len(Playlist[p])
  <2>1. n'[p] - 1 = n[p] /\ x'[p] = x[p]
    BY <1>1, <1>2 DEF NextFile, TypeOK
  <2> QED
    BY <2>1
<1>3. CASE ~(n[p] < Len(Playlist[p]))
  <2>1. n'[p] - 1 = 0 /\ x'[p] \in Nat \ {0} /\ n[p] = Len(Playlist[p])
    BY <1>1, <1>3 DEF NextFile, TypeOK
  <2> QED
    BY <1>1, <2>1, DrawnAgain
<1> QED
  BY <1>2, <1>3

\* Every step of show keeps the bytes it has drawn those of the files so far on its
\* command line.
LEMMA DrawnStep ==
  ASSUME TypeOK, DrawnInv, [Next]_vars
  PROVE  DrawnInv'
<1>0. /\ pc \in [Progs -> {"idle", "getmode", "setmode", "getbank", "open", "copy",
                            "setbank", "sleep", "done"}]
      /\ buf \in [Progs -> [Cells -> Contents]]
      /\ n \in [Progs -> Nat \ {0}] /\ x \in [Progs -> Nat]
      /\ \A p \in Progs : n[p] <= Len(Playlist[p])
  BY DEF TypeOK
<1> DEFINE Keeps(q) == pc'[q] = pc[q] /\ n'[q] = n[q] /\ x'[q] = x[q] /\ buf'[q] = buf[q]
           Holds(q) ==
             /\ pc[q] \in {"idle", "getmode", "setmode", "getbank"} =>
                  n[q] = 1 /\ x[q] = 0 /\ \A c \in Cells : buf[q][c] = Garbage
             /\ pc[q] = "open" => \A c \in Cells : buf[q][c] = Drawn(q, c, n[q] - 1, x[q])
             /\ pc[q] \in {"copy", "setbank", "sleep"} =>
                  \A c \in Cells : buf[q][c] = Drawn(q, c, n[q], x[q])
<1>a. SUFFICES ASSUME NEW q \in Progs PROVE Holds(q)'
  BY DEF DrawnInv
<1>b. Holds(q) /\ (Keeps(q) => Holds(q)')
  BY DEF DrawnInv
<1>c. n[q] \in 1..Len(Playlist[q]) /\ x[q] \in Nat
  BY <1>0, PlaylistFacts
<1>1. ASSUME NEW p \in Progs, Start(p) PROVE Holds(q)'
  BY <1>0, <1>1, <1>b DEF Start, Goto
<1>2. ASSUME NEW p \in Progs, GetMode(p) PROVE Holds(q)'
  BY <1>0, <1>2, <1>b DEF GetMode, Goto
<1>3. ASSUME NEW p \in Progs, SetMode(p) PROVE Holds(q)'
  BY <1>0, <1>3, <1>b DEF SetMode, Goto
<1>4. ASSUME NEW p \in Progs, GetBank(p) PROVE Holds(q)'
  <2>1. q = p => \A c \in Cells : Drawn(q, c, n[q] - 1, x[q]) = Garbage
    <3>1. q = p => n[q] - 1 = 0 /\ x[q] = 0
      BY <1>4, <1>b DEF GetBank
    <3> QED
      BY <3>1, DrawnNothing
  <2> QED
    BY <1>0, <1>4, <1>b, <2>1 DEF GetBank, Goto
<1>5. ASSUME NEW p \in Progs, Skip(p) PROVE Holds(q)'
  <2>1. CASE q # p
    BY <1>0, <1>5, <1>b, <2>1, NextFileType DEF Skip, Goto, NextFile
  <2>2. CASE q = p
    <3>1. pc[q] = "open" /\ pc'[q] \in {"open", "done"} /\ buf' = buf
      BY <1>0, <1>5, <2>2, NextFileType DEF Skip, Goto
    <3>2. ASSUME NEW c \in Cells PROVE buf'[q][c] = Drawn(q, c, n'[q] - 1, x'[q])
      <4>1. ~(FileLen[Playlist[q][n[q]]] > c)
        BY <1>5, <2>2, ShowAssumption DEF Skip, File, Missing
      <4>2. Drawn(q, c, n[q], x[q]) = Drawn(q, c, n[q] - 1, x[q])
        BY <1>c, <4>1, DrawnNext, PlaylistFacts
      <4>3. Drawn(q, c, n'[q] - 1, x'[q]) = Drawn(q, c, n[q], x[q])
        BY <1>5, <2>2, DrawnNextFile DEF Skip
      <4> QED
        BY <1>b, <3>1, <4>2, <4>3
    <3> QED
      BY <3>1, <3>2
  <2> QED
    BY <2>1, <2>2
<1>6. ASSUME NEW p \in Progs, Read(p) PROVE Holds(q)'
  <2>1. CASE q # p
    BY <1>0, <1>6, <1>b, <2>1 DEF Read, Goto
  <2>2. CASE q = p
    <3>1. pc[q] = "open" /\ pc'[q] = "copy" /\ n' = n /\ x' = x /\ buf'[q] = Overlay(buf[q], File(q))
      BY <1>0, <1>6, <2>2 DEF Read, Goto
    <3>2. ASSUME NEW c \in Cells PROVE buf'[q][c] = Drawn(q, c, n[q], x[q])
      <4>1. FileLen[File(q)] \in Int /\ c \in Int
        BY <1>0, PlaylistFacts, ShowAssumption DEF File, Missing
      <4>2. buf'[q][c] = IF FileLen[File(q)] > c THEN File(q) ELSE buf[q][c]
        BY <3>1, <4>1 DEF Overlay
      <4>3. Drawn(q, c, n[q], x[q]) =
              IF FileLen[File(q)] > c THEN File(q) ELSE Drawn(q, c, n[q] - 1, x[q])
        BY <1>c, DrawnNext, PlaylistFacts DEF File
      <4> QED
        BY <1>b, <3>1, <4>2, <4>3
    <3> QED
      BY <3>1, <3>2
  <2> QED
    BY <2>1, <2>2
<1>7. ASSUME NEW p \in Progs, Copy(p) PROVE Holds(q)'
  BY <1>0, <1>7, <1>b DEF Copy, Goto
<1>8. ASSUME NEW p \in Progs, SetBank(p) PROVE Holds(q)'
  BY <1>0, <1>8, <1>b DEF SetBank, Goto
<1>9. ASSUME NEW p \in Progs, Wake(p) PROVE Holds(q)'
  <2>1. CASE q # p
    BY <1>0, <1>9, <1>b, <2>1 DEF Wake, Goto, NextFile
  <2>2. CASE q = p
    <3>1. pc[q] = "sleep" /\ pc'[q] \in {"open", "done"} /\ buf' = buf
      BY <1>0, <1>9, <2>2, NextFileType DEF Wake, Goto
    <3>2. ASSUME NEW c \in Cells PROVE buf'[q][c] = Drawn(q, c, n'[q] - 1, x'[q])
      BY <1>9, <1>b, <2>2, <3>1, DrawnNextFile DEF Wake
    <3> QED
      BY <3>1, <3>2
  <2> QED
    BY <2>1, <2>2
<1>10. CASE UNCHANGED vars
  BY <1>10, <1>b DEF vars
<1>11. QED
  BY <1>1, <1>2, <1>3, <1>4, <1>5, <1>6, <1>7, <1>8, <1>9, <1>10 DEF Next, Step

\* Nothing leaves the one-bit mode that a run has set.
LEMMA ModeStep ==
  ASSUME TypeOK, ModeInv, [Next]_vars
  PROVE  ModeInv'
<1> USE DEF ModeInv
<1>0. pc \in [Progs -> {"idle", "getmode", "setmode", "getbank", "open", "copy",
                        "setbank", "sleep", "done"}]
  BY DEF TypeOK
<1>1. ASSUME NEW p \in Progs, Start(p) PROVE ModeInv'
  BY <1>0, <1>1 DEF Start, Goto, board
<1>2. ASSUME NEW p \in Progs, GetMode(p) PROVE ModeInv'
  BY <1>0, <1>2 DEF GetMode, Goto, board
<1>3. ASSUME NEW p \in Progs, SetMode(p) PROVE ModeInv'
  BY <1>3 DEF SetMode, ioctl_SETMODE
<1>4. ASSUME NEW p \in Progs, GetBank(p) PROVE ModeInv'
  BY <1>0, <1>4 DEF GetBank, Goto, board
<1>5. ASSUME NEW p \in Progs, Skip(p) PROVE ModeInv'
  BY <1>0, <1>5, NextFileType DEF Skip, Goto, board
<1>6. ASSUME NEW p \in Progs, Read(p) PROVE ModeInv'
  BY <1>0, <1>6 DEF Read, Goto, board
<1>7. ASSUME NEW p \in Progs, Copy(p) PROVE ModeInv'
  BY <1>0, <1>7 DEF Copy, Goto, Poke
<1>8. ASSUME NEW p \in Progs, SetBank(p) PROVE ModeInv'
  BY <1>0, <1>8 DEF SetBank, Goto, ioctl_SETBANK
<1>9. ASSUME NEW p \in Progs, Wake(p) PROVE ModeInv'
  BY <1>0, <1>9, NextFileType DEF Wake, Goto, board
<1>10. CASE UNCHANGED vars
  BY <1>10 DEF vars
<1>11. QED
  BY <1>1, <1>2, <1>3, <1>4, <1>5, <1>6, <1>7, <1>8, <1>9, <1>10 DEF Next, Step

\* While a run sleeps, and none has overlapped, the sign shows what the command
\* line says, byte for byte, in the one-bit mode: for every number of banks, picture
\* size, set of files, of whatever lengths, and command line.
THEOREM ScreenIsExact == Spec => []ScreenExact
<1>1. Init => DrawnInv /\ ModeInv
  BY DEF Init, DrawnInv, ModeInv
<1>2. TypeOK /\ DrawnInv /\ ModeInv /\ [Next]_vars => (DrawnInv /\ ModeInv)'
  BY DrawnStep, ModeStep
<1>3. TypeOK /\ FreshInv /\ AloneInv /\ DrawnInv /\ ModeInv => ScreenExact
  <2> SUFFICES ASSUME TypeOK, FreshInv, AloneInv, DrawnInv, ModeInv,
                      NEW p \in Progs, pc[p] = "sleep", alone
               PROVE  mode = OneBit /\ Screen = [c \in Cells |-> LastCovering(p, c)]
    BY DEF ScreenExact
  <2>1. mode = OneBit
    BY DEF ModeInv
  <2>2. Screen = buf[p]
    BY DEF AloneInv, Serial, FreshInv, Copied, Screen
  <2>3. \A c \in Cells : buf[p][c] = LastCovering(p, c)
    BY DEF DrawnInv, Drawn, LastCovering
  <2>4. buf[p] \in [Cells -> Contents]
    BY DEF TypeOK
  <2> QED
    BY <2>1, <2>2, <2>3, <2>4
<1> QED
  BY <1>1, <1>2, <1>3, TypeCorrect, FreshInvariant, AloneInvariant, PTL DEF Spec

----------------------------------------------------------------------------
(* The program implements the abstract show.                               *)

\* A step that changes neither the picture on display nor what the abstract
\* show is about to do is a stutter.
LEMMA Stutter ==
  ASSUME UNCHANGED <<Screen, buf, At, Ready>>
  PROVE  UNCHANGED Slides!svars
BY DEF Slides!svars

\* At the end of an iteration the abstract show already stands at the file
\* that the program opens next.
LEMMA NextFileAt ==
  ASSUME TypeOK, NEW p \in Progs, NextFile(p)
  PROVE  /\ n' = [n EXCEPT ![p] = After(p, n[p])]
         /\ pc' \in {[pc EXCEPT ![p] = "open"], [pc EXCEPT ![p] = "done"]}
BY DEF NextFile, After, Goto

\* A refinement step: under the invariants every step of the program is a step
\* of the abstract show or changes nothing in it.
LEMMA RefinementStep ==
  ASSUME TypeOK, FreshInv, Serial, Copied, [Next]_vars
  PROVE  [Slides!SNext]_(Slides!svars)
<1>0. /\ pc \in [Progs -> {"idle", "getmode", "setmode", "getbank", "open", "copy",
                            "setbank", "sleep", "done"}]
      /\ ram \in [Banks -> [Cells -> Contents]] /\ bank \in Banks
      /\ buf \in [Progs -> [Cells -> Contents]]
      /\ cur \in [Progs -> Banks] /\ n \in [Progs -> Nat \ {0}]
  BY DEF TypeOK
<1> USE DEF At, Ready
<1>1. ASSUME NEW p \in Progs, Start(p) PROVE UNCHANGED Slides!svars
  <2>1. At' = At /\ Ready' = Ready
    BY <1>0, <1>1 DEF Start, Goto
  <2>2. QED
    BY <1>1, <2>1, Stutter DEF Start, board, Screen
<1>2. ASSUME NEW p \in Progs, GetMode(p) PROVE UNCHANGED Slides!svars
  <2>1. At' = At /\ Ready' = Ready
    BY <1>0, <1>2 DEF GetMode, Goto
  <2>2. QED
    BY <1>2, <2>1, Stutter DEF GetMode, board, Screen
<1>3. ASSUME NEW p \in Progs, SetMode(p) PROVE UNCHANGED Slides!svars
  <2>1. At' = At /\ Ready' = Ready
    BY <1>0, <1>3 DEF SetMode, Goto
  <2>2. QED
    BY <1>3, <2>1, Stutter DEF SetMode, ioctl_SETMODE, Screen
<1>4. ASSUME NEW p \in Progs, GetBank(p) PROVE UNCHANGED Slides!svars
  <2>1. At' = At /\ Ready' = Ready
    BY <1>0, <1>4 DEF GetBank, Goto
  <2>2. QED
    BY <1>4, <2>1, Stutter DEF GetBank, board, Screen
<1>5. ASSUME NEW p \in Progs, Skip(p) PROVE Slides!PassOver(p)
  <2>1. /\ n' = [n EXCEPT ![p] = After(p, n[p])]
        /\ pc' \in {[pc EXCEPT ![p] = "open"], [pc EXCEPT ![p] = "done"]}
    BY <1>5, NextFileAt DEF Skip
  <2>2. pc[p] = "open" /\ At[p] = n[p] /\ p \notin Ready
    BY <1>5 DEF Skip
  <2>3. Ready' = Ready
    BY <1>0, <2>1, <2>2
  <2>4. At' = [At EXCEPT ![p] = After(p, n[p])]
    BY <1>0, <2>1, <2>2
  <2>5. UNCHANGED <<Screen, buf>>
    BY <1>5 DEF Skip, board, Screen
  <2>6. FileLen[Playlist[p][n[p]]] = -1
    BY <1>5 DEF Skip, File, Missing
  <2>7. QED
    BY <2>2, <2>3, <2>4, <2>5, <2>6
       DEF Slides!PassOver, Slides!File, Slides!After, Slides!Missing, After
<1>6. ASSUME NEW p \in Progs, Read(p) PROVE Slides!Prepare(p)
  <2>1. pc[p] = "open" /\ At[p] = n[p] /\ p \notin Ready /\ pc' = [pc EXCEPT ![p] = "copy"] /\ n' = n
    BY <1>6 DEF Read, Goto
  <2>2. Ready' = Ready \cup {p}
    BY <1>0, <2>1
  <2>3. At' = At
    BY <1>0, <2>1
  <2>4. FileLen[Playlist[p][n[p]]] # -1
    BY <1>6 DEF Read, File, Missing
  <2>5. buf' = [buf EXCEPT ![p] = Overlay(buf[p], File(p))]
    BY <1>6 DEF Read
  <2>6. Slides!Overlay(buf[p], File(p)) = Overlay(buf[p], File(p))
    BY <1>0 DEF Slides!Overlay, Overlay
  <2>7. UNCHANGED Screen
    BY <1>6 DEF Read, board, Screen
  <2>8. QED
    BY <2>1, <2>2, <2>3, <2>4, <2>5, <2>6, <2>7
       DEF Slides!Prepare, Slides!File, Slides!Missing, File
<1>7. ASSUME NEW p \in Progs, Copy(p) PROVE UNCHANGED Slides!svars
  <2>1. pc[p] = "copy" /\ pc' \in {[pc EXCEPT ![p] = "copy"], [pc EXCEPT ![p] = "setbank"]}
    BY <1>7 DEF Copy, Goto
  <2>2. n' = n /\ buf' = buf /\ bank' = bank
    BY <1>7 DEF Copy, Poke
  <2>3. At' = At /\ Ready' = Ready
    BY <1>0, <2>1, <2>2
  <2>4. cur[p] # bank
    BY <1>0, <2>1, NextBankDiffers DEF Serial, FreshInv
  <2>5. Screen' = Screen
    BY <1>0, <1>7, <2>2, <2>4 DEF Copy, Poke, Screen
  <2>6. QED
    BY <2>2, <2>3, <2>5, Stutter
<1>8. ASSUME NEW p \in Progs, SetBank(p) PROVE Slides!Reveal(p)
  <2>1. pc[p] = "setbank" /\ pc' = [pc EXCEPT ![p] = "sleep"] /\ n' = n
    BY <1>8 DEF SetBank, Goto
  <2>2. At[p] = n[p] /\ p \in Ready
    BY <2>1
  <2>3. Ready' = Ready \ {p}
    BY <1>0, <2>1
  <2>4. At' = [At EXCEPT ![p] = After(p, At[p])]
    BY <1>0, <2>1, <2>2 DEF After
  <2>5. Screen' = buf[p]
    BY <1>0, <1>8, <2>1 DEF SetBank, ioctl_SETBANK, Screen, Copied
  <2>6. UNCHANGED buf
    BY <1>8 DEF SetBank
  <2>7. QED
    BY <2>2, <2>3, <2>4, <2>5, <2>6 DEF Slides!Reveal, Slides!After, After
<1>9. ASSUME NEW p \in Progs, Wake(p) PROVE UNCHANGED Slides!svars
  <2>1. /\ n' = [n EXCEPT ![p] = After(p, n[p])]
        /\ pc' \in {[pc EXCEPT ![p] = "open"], [pc EXCEPT ![p] = "done"]}
        /\ pc[p] = "sleep"
    BY <1>9, NextFileAt DEF Wake
  <2>2. At' = At
    BY <1>0, <2>1 DEF After
  <2>3. Ready' = Ready
    BY <1>0, <2>1
  <2>4. QED
    BY <1>9, <2>2, <2>3, Stutter DEF Wake, board, Screen
<1>10. CASE UNCHANGED vars
  BY <1>10 DEF vars, Slides!svars, Screen
<1>11. QED
  BY <1>1, <1>2, <1>3, <1>4, <1>5, <1>6, <1>7, <1>8, <1>9, <1>10
     DEF Next, Step, Slides!SNext

\* Runs that do not overlap implement the abstract show: finished pictures, in
\* the order of the command line, each at once, for every number of banks,
\* every picture size, every set of files and every command line.
THEOREM Refinement == Spec => ImplementsSlideShow
<1>1. Init => Slides!SInit
  <2> SUFFICES ASSUME Init PROVE Slides!SInit
    OBVIOUS
  <2>1. Screen = [c \in Cells |-> Old]
    BY DEF Init, Screen
  <2>2. buf = [p \in Progs |-> [c \in 0..(Size - 1) |-> Garbage]]
    BY ShowAssumption DEF Init
  <2>3. At = [p \in Progs |-> 1] /\ Ready = {}
    BY DEF Init, At, Ready
  <2>4. QED
    BY <2>1, <2>2, <2>3 DEF Slides!SInit
<1>2. TypeOK /\ FreshInv /\ AloneInv /\ [Next]_vars
        => [alone' => Slides!SNext]_(Slides!svars)
  BY AloneStep, RefinementStep DEF AloneInv
<1>3. QED
  BY <1>1, <1>2, TypeCorrect, FreshInvariant, AloneInvariant, PTL DEF Spec, ImplementsSlideShow
=============================================================================
