--------------------------- MODULE MCSkyltServer ---------------------------
(* Clients with a long, a shorter and an empty programme.                  *)
EXTENDS SkyltServer

CONSTANTS long, shorter, empty

MCLength == [c \in Clients |-> CASE c = long -> 3 [] c = shorter -> 2 [] c = empty -> 0]
=============================================================================
