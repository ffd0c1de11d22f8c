----------------------------- MODULE MCBsDriver -----------------------------
(* A card of two bytes behind two possible base addresses, two files of    *)
(* which one is shared by two processes.                                   *)
EXTENDS BsDriver

CONSTANTS p1, p2, own, shared

MCUsers == [f \in Files |-> IF f = shared THEN Procs ELSE {p1}]
MCByte == {{1, 3}}
MCBytes == {{0}, {1}, {1, 3}}
=============================================================================
