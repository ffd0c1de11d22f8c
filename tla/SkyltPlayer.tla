---------------------------- MODULE SkyltPlayer ----------------------------
(***************************************************************************)
(* skyltsrv/SkyltController.cc: the child process that plays a programme   *)
(* on the sign (Run), and the parent that starts it (Start) and ends it    *)
(* with SIGHUP (Kill, Restart) at any moment, half-way through a picture   *)
(* too, to start another one with the next programme.                      *)
(*                                                                         *)
(* A programme is a file of commands: set the mode, sleep, show a frame.   *)
(* It may be cut off inside the operand of its last command.  The ioctls   *)
(* of the class pass their argument by value, but for the one of the       *)
(* command SETMODE, which passes an address: the mode it sets is whatever  *)
(* the driver makes of that.                                               *)
(*                                                                         *)
(* A byte of a frame is abstracted to the frame it belongs to.             *)
(***************************************************************************)
EXTENDS Board, Sequences

CONSTANTS
  Size,       \* bytes of a frame, 288
  Frames,     \* the frames of the programmes
  Commands,   \* the commands that are no frames: "mode", "sleep", "unknown"
  Inputs,     \* the programmes: [cmds |-> their commands, cut |-> is the last one
              \* followed by one cut off?, seekable |-> can lseek rewind it?]
  Old         \* what the card holds before the first player

None == "none"

ASSUME PlayerAssumption ==
  /\ Size \in Nat \ {0}
  /\ Cells = 0..(Size - 1)
  /\ Commands \subseteq {"mode", "sleep", "unknown"}
  /\ Inputs \subseteq [cmds : Seq(Frames \cup Commands), cut : BOOLEAN, seekable : BOOLEAN]
  /\ Frames \cap Commands = {} /\ None \notin Frames /\ Old \notin Frames

VARIABLES
  pc,         \* what the child does next; "none": there is no child
  m_inp,      \* the programme of the child
  pos,        \* the index of the next command in it
  cur,        \* the variable bank of Run
  buffer,     \* the frame in the variable buffer
  copied,     \* the bytes memcpy has copied
  shown       \* history: the last frame a child has switched the sign to; None
              \* since a child set bank 1

vars == <<ram, bank, mode, pc, m_inp, pos, cur, buffer, copied, shown>>

Running == pc \notin {"none", "returned"}

TypeOK ==
  /\ ram \in [Banks -> [Cells -> Frames \cup {Old}]]
  /\ bank \in Banks
  /\ mode \in Modes
  /\ pc \in {"none", "setbank1", "setmode1", "read", "mode", "sleep", "copy", "setbank",
             "returned"}
  /\ m_inp \in Inputs
  /\ pos \in 1..(Len(m_inp.cmds) + 1)
  /\ cur \in Banks
  /\ buffer \in Frames \cup {Old}
  /\ copied \in 0..Size
  /\ pc = "copy" => copied < Size /\ buffer \in Frames
  /\ pc = "setbank" => buffer \in Frames
  /\ shown \in Frames \cup {None}

Init ==
  /\ ram = [b \in Banks |-> [c \in Cells |-> Old]]
  /\ bank \in Banks
  /\ mode \in Modes
  /\ pc = "none"
  /\ m_inp \in Inputs
  /\ pos = 1
  /\ cur = 1
  /\ buffer = Old
  /\ copied = 0
  /\ shown = None

----------------------------------------------------------------------------
(* The parent *)

\* fork, and Run up to the mapping of the card, which may fail.
Start ==
  /\ ~Running
  /\ pc' \in {"setbank1", "returned"}
  /\ m_inp' \in Inputs
  /\ pos' = 1
  /\ UNCHANGED <<board, cur, buffer, copied, shown>>

\* SIGHUP: the handler, or the default action before it is installed, ends the
\* child wherever it is.
Kill ==
  /\ Running
  /\ pc' = "none"
  /\ UNCHANGED <<board, m_inp, pos, cur, buffer, copied, shown>>

----------------------------------------------------------------------------
(* The child: Run *)

SetFirstBank ==
  /\ pc = "setbank1" /\ pc' = "setmode1"
  /\ cur' = 1
  /\ ioctl_SETBANK(1)
  /\ shown' = None
  /\ UNCHANGED <<m_inp, pos, buffer, copied>>

SetFirstMode ==
  /\ pc = "setmode1" /\ pc' = "read"
  /\ ioctl_SETMODE(OneBit)
  /\ UNCHANGED <<m_inp, pos, cur, buffer, copied, shown>>

AtEnd == pos > Len(m_inp.cmds)
Command == m_inp.cmds[pos]

\* SETFRAME with its 288 bytes: the next bank is drawn.
ReadFrame ==
  /\ pc = "read" /\ ~AtEnd /\ Command \in Frames
  /\ pc' = "copy"
  /\ pos' = pos + 1
  /\ buffer' = Command
  /\ cur' = NextBank(cur)
  /\ copied' = 0
  /\ UNCHANGED <<board, m_inp, shown>>

\* SETMODE and SLEEP with their operands; any other byte is passed over.
ReadOther ==
  /\ pc = "read" /\ ~AtEnd /\ Command \notin Frames
  /\ pc' = IF Command \in {"mode", "sleep"} THEN Command ELSE "read"
  /\ pos' = pos + 1
  /\ UNCHANGED <<board, m_inp, cur, buffer, copied, shown>>

\* Mutants: every programme is rewound; none is.
ReadEnd_always ==
  /\ pc = "read" /\ AtEnd
  /\ IF m_inp.seekable THEN pc' = "read" /\ pos' = 1 ELSE pc' = "returned" /\ pos' = pos
  /\ UNCHANGED <<board, m_inp, cur, buffer, copied, shown>>
ReadEnd_never ==
  /\ pc = "read" /\ AtEnd
  /\ pc' = "returned"
  /\ UNCHANGED <<board, m_inp, pos, cur, buffer, copied, shown>>

\* No further command: Run returns.  A command that is cut off rewinds the
\* programme instead; if that is impossible the next read ends Run.
ReadEnd ==
  /\ pc = "read" /\ AtEnd
  /\ IF m_inp.cut /\ m_inp.seekable THEN pc' = "read" /\ pos' = 1
                                    ELSE pc' = "returned" /\ pos' = pos
  /\ UNCHANGED <<board, m_inp, cur, buffer, copied, shown>>

\* Mutant: the last byte is left out.
Copy_short ==
  /\ pc = "copy"
  /\ Poke(cur, copied, buffer)
  /\ copied' = copied + 1
  /\ pc' = IF copied + 2 >= Size THEN "setbank" ELSE "copy"
  /\ UNCHANGED <<m_inp, pos, cur, buffer, shown>>

\* One byte of memcpy(m_pSkylt+bank*512, buffer, 288).
Copy ==
  /\ pc = "copy"
  /\ Poke(cur, copied, buffer)
  /\ copied' = copied + 1
  /\ pc' = IF copied + 1 = Size THEN "setbank" ELSE "copy"
  /\ UNCHANGED <<m_inp, pos, cur, buffer, shown>>

SetBank ==
  /\ pc = "setbank" /\ pc' = "read"
  /\ ioctl_SETBANK(cur)
  /\ shown' = buffer
  /\ UNCHANGED <<m_inp, pos, cur, buffer, copied>>

SetMode ==
  /\ pc = "mode" /\ pc' = "read"
  /\ \E m \in Modes : ioctl_SETMODE(m)
  /\ UNCHANGED <<m_inp, pos, cur, buffer, copied, shown>>

Sleep ==
  /\ pc = "sleep" /\ pc' = "read"
  /\ UNCHANGED <<board, m_inp, pos, cur, buffer, copied, shown>>

Run ==
  \/ SetFirstBank \/ SetFirstMode \/ ReadFrame \/ ReadOther \/ ReadEnd
  \/ Copy \/ SetBank \/ SetMode \/ Sleep

Next == Start \/ Kill \/ Run

Spec == Init /\ [][Next]_vars

\* The child is scheduled; nobody has to start or to kill one.
FairSpec == Spec /\ WF_vars(Run)

----------------------------------------------------------------------------
(* Properties *)

\* A frame is drawn in a bank that is not on display, whatever an earlier child
\* was doing when it was killed.
NoTear == pc = "copy" => cur # bank

\* From a child's first frame on the sign shows its last one, whole; a child
\* killed in the middle of drawing the next leaves nothing of it on the sign.
\* (Between a child's start and its first frame the sign shows bank 1.)
ScreenIsLastFrame == shown # None => Screen = [c \in Cells |-> shown]

\* A whole programme, or one that cannot be rewound, is played once.
PlayedOnce ==
  \A input \in Inputs : ~(input.cut /\ input.seekable) =>
    (pc = "setbank1" /\ m_inp = input ~> ~Running)

\* A programme that is cut off is played again and again, every frame of it,
\* until the child is killed.
PlayedForEver ==
  \A input \in Inputs : \A j \in 1..Len(input.cmds) :
    input.cut /\ input.seekable /\ input.cmds[j] \in Frames =>
      (pc = "read" /\ m_inp = input ~>
         (pc = "none" \/ (pc = "setbank" /\ buffer = input.cmds[j])))
=============================================================================
