--------------------------- MODULE MCSkyltPlayer ---------------------------
(* Three programmes for the player: a whole one, one that is cut off and   *)
(* can be rewound, and one that is cut off and comes through a pipe.  Or a *)
(* program that uses Fork.                                                 *)
EXTENDS SkyltPlayer, Fork

CONSTANTS f1, f2, f3

MCCells == 0..(Size - 1)
MCInputs ==
  {[cmds |-> <<"sleep", f1, "mode", f2, f3, "unknown">>, cut |-> FALSE, seekable |-> TRUE],
   [cmds |-> <<f3, "sleep", f1>>, cut |-> TRUE, seekable |-> TRUE],
   [cmds |-> <<f2>>, cut |-> TRUE, seekable |-> FALSE]}

mcvars == <<vars, forkvars>>

MCInit ==
  \/ Init /\ ForkStart("off")
  \/ /\ ForkStart("program")
     /\ Init /\ bank = 1 /\ mode = OneBit /\ m_inp.seekable = FALSE

MCNext ==
  \/ at = "off" /\ Next /\ UNCHANGED forkvars
  \/ at # "off" /\ ForkNext /\ UNCHANGED vars

\* A child and a process that has work go on, a signal takes effect; nobody has to
\* start or to kill a player.
MCSpec ==
  /\ MCInit /\ [][MCNext]_mcvars
  /\ WF_mcvars(at = "off" /\ Run /\ UNCHANGED forkvars)
  /\ WF_mcvars(ForkWork /\ UNCHANGED vars)
  /\ \A c \in Kids : WF_mcvars(kid[c] = "doomed" /\ Die(c) /\ UNCHANGED vars)
=============================================================================
