----------------------------- MODULE SlideShow -----------------------------
(***************************************************************************)
(* What show promises whoever looks at the sign: the picture on display    *)
(* changes only from one finished picture to the next, all at once, and    *)
(* the pictures come in the order of the command line, files that cannot   *)
(* be opened being passed over.  A file that is too short replaces the     *)
(* first part of the picture before it.                                    *)
(***************************************************************************)
EXTENDS Integers, Sequences

CONSTANTS
  Progs,       \* runs of the program
  Size,        \* bytes of a picture
  Playlist,    \* Playlist[p]: the files of p's command line
  FileLen,     \* FileLen[f]: the bytes of f, Missing if it cannot be opened
  Garbage,     \* what an uninitialised buffer holds
  Pictures     \* what the sign may show before the first run

VARIABLES
  screen,      \* the picture on display
  frame,       \* frame[p]: the picture p last prepared
  at,          \* at[p]: the file that p prepares next, or has prepared
  ready        \* the runs that have prepared a picture and not yet shown it

svars == <<screen, frame, at, ready>>

Missing == -1
File(p, i) == Playlist[p][i]
After(p, i) == IF i < Len(Playlist[p]) THEN i + 1 ELSE 1

\* The buffer after reading file f into it.
Overlay(buf, f) == [c \in DOMAIN buf |-> IF c < FileLen[f] THEN f ELSE buf[c]]

SInit ==
  /\ screen \in Pictures
  /\ frame = [p \in Progs |-> [c \in 0..(Size - 1) |-> Garbage]]
  /\ at = [p \in Progs |-> 1]
  /\ ready = {}

PassOver(p) ==
  /\ p \notin ready
  /\ FileLen[File(p, at[p])] = Missing
  /\ at' = [at EXCEPT ![p] = After(p, @)]
  /\ UNCHANGED <<screen, frame, ready>>

Prepare(p) ==
  /\ p \notin ready
  /\ FileLen[File(p, at[p])] # Missing
  /\ frame' = [frame EXCEPT ![p] = Overlay(@, File(p, at[p]))]
  /\ ready' = ready \cup {p}
  /\ UNCHANGED <<screen, at>>

Reveal(p) ==
  /\ p \in ready
  /\ screen' = frame[p]
  /\ at' = [at EXCEPT ![p] = After(p, @)]
  /\ ready' = ready \ {p}
  /\ UNCHANGED frame

SNext == \E p \in Progs : PassOver(p) \/ Prepare(p) \/ Reveal(p)

SSpec == SInit /\ [][SNext]_svars
=============================================================================
