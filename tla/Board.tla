------------------------------- MODULE Board -------------------------------
(***************************************************************************)
(* The sign's card as the display programs of develop/ use it through      *)
(* /dev/bs0: memory banks that each hold a picture, the register that says *)
(* which bank is on display, and the register that says how the memory is  *)
(* read (0 the ROM, 1 one bit per pixel, 3 four bits).  The driver these   *)
(* programs were built for has BSGETBANK, BSSETMODE and mmap, and is not   *)
(* in the repository: this module is what the programs expect of it.       *)
(*                                                                         *)
(* A picture is a function on Cells; a cell is a byte, a line or a pixel,  *)
(* as the program that extends this module moves them one at a time.       *)
(***************************************************************************)
EXTENDS Integers

CONSTANTS
  NBanks,   \* the banks of the card
  Cells     \* the cells of a picture

ASSUME BankAssumption == NBanks \in Nat /\ NBanks > 1

VARIABLES ram, bank, mode

board == <<ram, bank, mode>>

Banks == 0..(NBanks - 1)
Modes == {0, 1, 3}
OneBit == 1

\* The picture on display.
Screen == ram[bank]

\* A store through the mapping, skyltaddr + b*512, or by lseek and write.
Poke(b, c, v) ==
  /\ ram' = [ram EXCEPT ![b][c] = v]
  /\ UNCHANGED <<bank, mode>>

ioctl_SETBANK(b) == bank' = b /\ UNCHANGED <<ram, mode>>

ioctl_SETMODE(m) == mode' = m /\ UNCHANGED <<ram, bank>>

\* Mutant: the picture is drawn in the bank on display.
NextBank_same(b) == b

\* (bank + 1) % 4, the bank every program draws its next picture in.
NextBank(b) == (b + 1) % NBanks
=============================================================================
