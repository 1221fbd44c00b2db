----------------------------- MODULE Bin2DecCpu -----------------------------
(***************************************************************************)
(* The program of bin2dec.asm, as program.rom holds it, on the pipeline of *)
(* module Cpu.  What it must show is what module Bin2Dec converts to.      *)
(*                                                                         *)
(* The source's instruction memory has 4096 words, of which the program    *)
(* takes 59 and the rest are 0; here ROMWORDS may be anything from 59 on.  *)
(* The word 0 has no effect, so that only the length of the pause between  *)
(* two runs of the program differs.                                        *)
(***************************************************************************)
EXTENDS Cpu, Assembler, Sequences

B2D == INSTANCE Bin2Dec WITH Inputs <- {}, input <- 0, x1 <- 0, x2 <- 0, block <- 0

(* Read the input, clear the result and load the constants.                *)
Prologue ==
  << ReadSwitches(x(1)),
     Addi(x(2), x0, 0),                                 \* li x2, 0
     Lui(x(3), 2), Addi(x(3), x(3), 0 - 1638),          \* li x3, 0x199a
     Addi(x(4), x0, 10),
     Lui(x(5), 16), Addi(x(5), x(5), 0 - 1),            \* li x5, 0xffff
     Lui(x(6), 1048560), Addi(x(6), x(6), 0) >>         \* li x6, 0xffff0000

(* Mutant: the fraction of the digit is not masked off.                    *)
DigitBlockUnmasked(adjust, place) ==
  << Mul3(x(7), x(1), x(3)),
     Srli(x(1), x(7), 16),
     And3(x(7), x(7), x(5)),
     Mul3(x(7), x(7), x(4)) >>
  \o adjust \o
  << place,
     Add3(x(2), x(7), x(2)),
     Add3(x(7), x0, x0) >>

(* The instructions for one digit; place moves it from x7[19:16].          *)
DigitBlock(adjust, place) ==
  << Mul3(x(7), x(1), x(3)),
     Srli(x(1), x(7), 16),
     And3(x(7), x(7), x(5)),
     Mul3(x(7), x(7), x(4)),
     And3(x(7), x(7), x(6)) >>
  \o adjust \o
  << place,
     Add3(x(2), x(7), x(2)),
     Add3(x(7), x0, x0) >>

Program ==
  Prologue
  \o DigitBlock(<< Srli(x(2), x(2), 4) >>, Srli(x(7), x(7), 16))
  \o DigitBlock(<< >>, Srli(x(7), x(7), 12))
  \o DigitBlock(<< >>, Srli(x(7), x(7), 8))
  \o DigitBlock(<< >>, Srli(x(7), x(7), 4))
  \o DigitBlock(<< >>, Srli(x(7), x(7), 0))
  \o DigitBlock(<< >>, Slli(x(7), x(7), 4))
  \o << WriteHex(x(2), x(2)) >>

(* program.rom, padded with zeroes by whoever loads it.                    *)
program_rom ==
  [i \in 0 .. ROMWORDS-1 |-> IF i < Len(Program) THEN Program[i+1] ELSE {}]

(* What the display shows for each setting of the switches.                *)
DisplayFor == [s \in Switches |-> Lit(24, B2D!Converted(Num(s)))]

-----------------------------------------------------------------------------

(***************************************************************************)
(* Whatever resets and changes of the switches happen, and whenever they   *)
(* do, the display only ever shows the complete conversion of a number     *)
(* that was on the switches: never a partial result, and never one put     *)
(* together from the registers of before and after a reset.                *)
(***************************************************************************)
DisplaysWholeConversions ==
  hexes \in PowerUpHexes \cup { DisplayFor[s] : s \in Switches }

(***************************************************************************)
(* The clock keeps running: out of reset, instructions keep being fetched. *)
(* The steps that fetch and leave rst alone are those of Advance.          *)
(***************************************************************************)
FairSpec == Spec /\ WF_PC_F(~rst /\ Fetch /\ UNCHANGED rst)

(***************************************************************************)
(* Once the switches and the reset button are left alone, the display      *)
(* comes to show the conversion of the switches, and stays so: the program *)
(* starts again when the program counter wraps.                            *)
(***************************************************************************)
DisplayFollowsSwitches ==
  \A s \in Switches : <>[](~rst /\ io0 = s) => <>[](hexes = DisplayFor[s])

=============================================================================
