-------------------------------- MODULE Show --------------------------------
(***************************************************************************)
(* develop/show.c: the program that shows picture files on the sign, one   *)
(* after another.  It draws each picture in the bank after the one it      *)
(* believes to be on display and then switches the display to that bank.   *)
(*                                                                         *)
(* Several runs of the program may be under way (the scripts of pics/ run  *)
(* such programs one after another, and were started in the background     *)
(* beside others): they share the card and nothing tells a run that        *)
(* another one has switched the bank it read when it started.              *)
(*                                                                         *)
(* A byte is abstracted to the file it was read from.                      *)
(***************************************************************************)
EXTENDS Board, Sequences

CONSTANTS
  Progs,      \* runs of the program
  Size,       \* bytes of a picture, 288
  Files,      \* picture files
  FileLen,    \* FileLen[f]: the bytes of f (288 at most are read), Missing
              \* if it cannot be opened
  Playlist,   \* Playlist[p]: the files of p's command line
  Loops,      \* Loops[p]: nloops, 0 to go on for ever
  Old,        \* what the card holds before the first run
  Garbage     \* what an uninitialised buffer holds

VARIABLES
  pc,         \* pc[p]: what p does next
  cur,        \* cur[p]: the variable bank of p
  buf,        \* buf[p]: the variable buf of p
  n,          \* n[p]: the variable n of p, counted from 1
  x,          \* x[p]: the variable x of p
  copied,     \* copied[p]: the bytes memcpy has copied
  fresh,      \* history: the runs whose cur was the bank on display when they
              \* last read or set it, and that no other run has undone
  alone       \* history: no run has started while another one was under way

vars == <<ram, bank, mode, pc, cur, buf, n, x, copied, fresh, alone>>

Missing == -1

ASSUME ShowAssumption ==
  /\ Size \in Nat \ {0}
  /\ Cells = 0..(Size - 1)
  /\ FileLen \in [Files -> {Missing} \cup 0..Size]
  /\ Playlist \in [Progs -> Seq(Files) \ {<<>>}]
  /\ Loops \in [Progs -> Int]

Forever(p) == Loops[p] = 0
Contents == Files \cup {Old, Garbage}
Running(p) == pc[p] \notin {"idle", "done"}

TypeOK ==
  /\ ram \in [Banks -> [Cells -> Contents]]
  /\ bank \in Banks
  /\ mode \in Modes
  /\ pc \in [Progs -> {"idle", "getmode", "setmode", "getbank", "open", "copy",
                       "setbank", "sleep", "done"}]
  /\ cur \in [Progs -> Banks]
  /\ buf \in [Progs -> [Cells -> Contents]]
  /\ n \in [Progs -> Nat \ {0}]
  /\ \A p \in Progs : n[p] <= Len(Playlist[p])
  /\ x \in [Progs -> Nat]
  /\ copied \in [Progs -> 0..Size]
  /\ \A p \in Progs : pc[p] = "copy" => copied[p] < Size
  /\ fresh \subseteq Progs
  /\ alone \in BOOLEAN

Init ==
  /\ ram = [b \in Banks |-> [c \in Cells |-> Old]]
  /\ bank \in Banks
  /\ mode \in Modes
  /\ pc = [p \in Progs |-> "idle"]
  /\ cur = [p \in Progs |-> 0]
  /\ buf = [p \in Progs |-> [c \in Cells |-> Garbage]]
  /\ n = [p \in Progs |-> 1]
  /\ x = [p \in Progs |-> 0]
  /\ copied = [p \in Progs |-> 0]
  /\ fresh = {}
  /\ alone = TRUE

Goto(p, label) == pc' = [pc EXCEPT ![p] = label]

----------------------------------------------------------------------------
(* The program up to the loop *)

Start(p) ==
  /\ pc[p] = "idle"
  /\ alone' = (alone /\ \A q \in Progs : ~Running(q))
  /\ Goto(p, "getmode")
  /\ UNCHANGED <<board, cur, buf, n, x, copied, fresh>>

\* Mutant: the comparison the wrong way round.
GetMode_inverted(p) ==
  /\ pc[p] = "getmode"
  /\ Goto(p, IF mode = OneBit THEN "setmode" ELSE "getbank")
  /\ UNCHANGED <<board, cur, buf, n, x, copied, fresh>>

GetMode(p) ==
  /\ pc[p] = "getmode"
  /\ Goto(p, IF mode # OneBit THEN "setmode" ELSE "getbank")
  /\ UNCHANGED <<board, cur, buf, n, x, copied, fresh>>

SetMode(p) ==
  /\ pc[p] = "setmode"
  /\ ioctl_SETMODE(OneBit)
  /\ Goto(p, "getbank")
  /\ UNCHANGED <<cur, buf, n, x, copied, fresh>>

\* The condition of the outer loop.
Enters(p, loop) == loop < Loops[p] \/ Forever(p)

GetBank(p) ==
  /\ pc[p] = "getbank"
  /\ cur' = [cur EXCEPT ![p] = bank]
  /\ fresh' = fresh \cup {p}
  /\ Goto(p, IF Enters(p, 0) THEN "open" ELSE "done")
  /\ UNCHANGED <<board, buf, n, x, copied>>

----------------------------------------------------------------------------
(* The loop *)

File(p) == Playlist[p][n[p]]
Overlay(b, f) == [c \in Cells |-> IF c < FileLen[f] THEN f ELSE b[c]]

\* Mutant: x is never counted up.
NextFile_uncounted(p) ==
  IF n[p] < Len(Playlist[p])
  THEN n' = [n EXCEPT ![p] = @ + 1] /\ Goto(p, "open") /\ UNCHANGED x
  ELSE n' = [n EXCEPT ![p] = 1] /\ Goto(p, IF Enters(p, x[p]) THEN "open" ELSE "done") /\ UNCHANGED x

\* The end of an iteration.  An endless run never looks at x: 1 stands for
\* every value after the first pass.
NextFile(p) ==
  IF n[p] < Len(Playlist[p])
  THEN /\ n' = [n EXCEPT ![p] = @ + 1]
       /\ Goto(p, "open")
       /\ UNCHANGED x
  ELSE /\ n' = [n EXCEPT ![p] = 1]
       /\ x' = [x EXCEPT ![p] = IF Forever(p) THEN 1 ELSE @ + 1]
       /\ Goto(p, IF Enters(p, x[p] + 1) THEN "open" ELSE "done")

\* The file cannot be opened: a message, and on to the next.
Skip(p) ==
  /\ pc[p] = "open" /\ FileLen[File(p)] = Missing
  /\ NextFile(p)
  /\ UNCHANGED <<board, cur, buf, copied, fresh>>

\* open and read: a picture that is too small is reported, and shown.
Read(p) ==
  /\ pc[p] = "open" /\ FileLen[File(p)] # Missing
  /\ buf' = [buf EXCEPT ![p] = Overlay(@, File(p))]
  /\ cur' = [cur EXCEPT ![p] = NextBank(@)]
  /\ copied' = [copied EXCEPT ![p] = 0]
  /\ Goto(p, "copy")
  /\ UNCHANGED <<board, n, x, fresh>>

\* One byte of memcpy(skyltaddr + bank*512, buf, 288).
Copy(p) ==
  /\ pc[p] = "copy"
  /\ Poke(cur[p], copied[p], buf[p][copied[p]])
  /\ copied' = [copied EXCEPT ![p] = @ + 1]
  /\ Goto(p, IF copied[p] + 1 = Size THEN "setbank" ELSE "copy")
  /\ UNCHANGED <<cur, buf, n, x, fresh>>

SetBank(p) ==
  /\ pc[p] = "setbank"
  /\ ioctl_SETBANK(cur[p])
  /\ fresh' = {p}
  /\ Goto(p, "sleep")
  /\ UNCHANGED <<cur, buf, n, x, copied>>

\* Mutant: the same file again.
Wake_again(p) ==
  /\ pc[p] = "sleep"
  /\ Goto(p, "open")
  /\ UNCHANGED <<board, cur, buf, n, x, copied, fresh>>

\* usleep is over.
Wake(p) ==
  /\ pc[p] = "sleep"
  /\ NextFile(p)
  /\ UNCHANGED <<board, cur, buf, copied, fresh>>

Step(p) ==
  /\ UNCHANGED alone
  /\ \/ GetMode(p) \/ SetMode(p) \/ GetBank(p)
     \/ Skip(p) \/ Read(p) \/ Copy(p) \/ SetBank(p) \/ Wake(p)

Next == \E p \in Progs : Start(p) \/ Step(p)

Spec == Init /\ [][Next]_vars

\* The scheduler runs every process; nobody has to start one.
FairSpec == Spec /\ \A p \in Progs : WF_vars(Step(p))

----------------------------------------------------------------------------
(* Properties *)

\* A run draws into the bank on display only if another run has switched banks
\* since it last asked for, or set, the bank itself.
SetterNeverTears ==
  \A p \in fresh : pc[p] = "copy" => cur[p] # bank

\* Runs that do not overlap never draw into the bank on display.
NoTear ==
  alone => \A p \in Progs : pc[p] = "copy" => cur[p] # bank

\* The file that byte c of the picture must come from when p has just shown
\* file n[p]: the last file on the way there that is longer than c.
LastCovering(p, c) ==
  LET covers(i) == FileLen[Playlist[p][i]] > c
      now == {i \in 1..n[p] : covers(i)}
      before == {i \in 1..Len(Playlist[p]) : x[p] > 0 /\ covers(i)}
      newest(S) == CHOOSE i \in S : \A j \in S : j <= i
  IN  IF now # {} THEN Playlist[p][newest(now)]
      ELSE IF before # {} THEN Playlist[p][newest(before)]
      ELSE Garbage

\* While a run sleeps, and none has overlapped, the sign shows what its command line says, byte for
\* byte, in the one-bit mode: no stale bank and no byte that was not copied.
\* A short file leaves the tail of the pictures before it.
ScreenExact ==
  \A p \in Progs : pc[p] = "sleep" /\ alone =>
    /\ mode = OneBit
    /\ Screen = [c \in Cells |-> LastCovering(p, c)]

\* Whatever other runs do to the sign, a run with a loop count ends, and one without
\* shows every file that can be opened again and again.
RunsGoOn ==
  \A p \in Progs :
    IF Forever(p)
    THEN \A i \in 1..Len(Playlist[p]) : FileLen[Playlist[p][i]] # Missing =>
           (pc[p] = "getmode" ~> []<>(pc[p] = "sleep" /\ n[p] = i))
    ELSE pc[p] = "getmode" ~> pc[p] = "done"

\* The abstract show.  A run that sleeps has shown file n[p].
After(p, i) == IF i < Len(Playlist[p]) THEN i + 1 ELSE 1
At == [p \in Progs |-> IF pc[p] = "sleep" THEN After(p, n[p]) ELSE n[p]]
Ready == {p \in Progs : pc[p] \in {"copy", "setbank"}}

Slides == INSTANCE SlideShow WITH
  Pictures <- {[c \in Cells |-> Old]}, screen <- Screen, frame <- buf, at <- At,
  ready <- Ready

\* As long as runs do not overlap, the program implements the abstract show:
\* finished pictures, in order, each at once.
ImplementsSlideShow == Slides!SInit /\ [][alone' => Slides!SNext]_(Slides!svars)
=============================================================================
