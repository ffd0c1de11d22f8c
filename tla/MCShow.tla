------------------------------- MODULE MCShow -------------------------------
(* Files of the full size, too short by one and by two bytes, and one that *)
(* is not there, shown by two runs of the program.                 *)
EXTENDS Show

CONSTANTS whole, other, short, shorter, absent, p1, p2

MCCells == 0..(Size - 1)
MCFileLen ==
  [f \in Files |-> CASE f = absent -> Missing
                     [] f = short -> Size - 1
                     [] f = shorter -> Size - 2
                     [] OTHER -> Size]
MCPlaylist ==
  [p \in Progs |-> CASE p = p1 -> <<short, whole, absent>>
                     [] p = p2 -> <<other, absent, short, shorter>>]
MCLoops ==   \* for ever, twice
  [p \in Progs |-> CASE p = p1 -> 0 [] p = p2 -> 2]
=============================================================================
