----------------------------- MODULE MCVScroll -----------------------------
(* Pictures of three lines, all lines told apart.                          *)
EXTENDS VScroll

MCCells == 0..(Lines - 1)
MCLine == 10..39
MCPictures == {[l \in MCCells |-> 10 * pic + l] : pic \in 1..3}
=============================================================================
