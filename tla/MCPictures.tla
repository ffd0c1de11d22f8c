----------------------------- MODULE MCPictures -----------------------------
(* Values for TLC of the constants of GifReader and Img2sif, whose larger    *)
(* picture has one colour: the runs of it are long enough to fill the table; *)
(* and of ShowPic, with pictures two pixels wider than a sign of 4 by 2.     *)
EXTENDS Img2sif, ShowPic

MCSizes == {<<1, 6>>, <<2, 6>>}
MCColours == [s \in MCSizes |-> IF s = <<2, 6>> THEN {1} ELSE {0, 1}]
MCDepths == {1, 2}

MCCells == Places
MCMemory == {[c \in Places |-> [b \in Bits |-> v]] : v \in {0, 1}}
Light(n, m) == [i \in 1..m |-> IF (n \div 2^i) % 2 = 1 THEN 101 ELSE 100]
MCFiles ==
  {[w |-> 6, h |-> 2, light |-> Light(n, 12)] : n \in {2741, 5482}} \cup
  {[w |-> 6, h |-> 2, light |-> Light(4095, 7)], [w |-> 4, h |-> 2, light |-> Light(90, 8)],
   [w |-> 6, h |-> 1, light |-> Light(45, 6)]}

mcvars == <<vars, sif, board, spvars>>

\* A behaviour is one of img2sif or one of a program that draws.
MCInit ==
  \/ /\ SifInit
     /\ ram = [b \in Banks |-> <<>>] /\ bank = 0 /\ mode = 0 /\ before = ram
     /\ prog = "none" /\ spc = "off" /\ cbank = 0 /\ cmode = 0 /\ img = <<>> /\ width = 0
     /\ x = 0 /\ k = 0 /\ switched = FALSE
  \/ /\ ShowPicInit
     /\ SifInit /\ size = <<1, 6>> /\ depth = 2 /\ interlaced = FALSE

MCNext ==
  \/ spc = "off" /\ SifNext /\ UNCHANGED <<board, spvars>>
  \/ spc # "off" /\ ShowPicNext /\ UNCHANGED <<vars, sif>>

MCSpec == MCInit /\ [][MCNext]_mcvars
=============================================================================
