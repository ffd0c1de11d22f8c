----------------------------- MODULE MCDissolve -----------------------------
(* Pictures of two bytes with two bits each.                                    *)
EXTENDS Dissolve

MCCells == 0..(N - 1)
MCPictures == {[j \in MCCells |-> j \div (N \div 2)], [j \in MCCells |-> (j + 1) % 2]}
=============================================================================
