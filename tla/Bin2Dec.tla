------------------------------ MODULE Bin2Dec ------------------------------
(***************************************************************************)
(* bin2dec.asm, the program that program.rom holds: it reads the switches, *)
(* converts the number to decimal, one hex digit of the display for each   *)
(* decimal digit, and shows it.  This module is the algorithm, on          *)
(* integers; module Bin2DecCpu runs the program itself on the pipeline.    *)
(*                                                                         *)
(* Each of six blocks of instructions multiplies by 6554, a 16-bit         *)
(* fixed-point 0.1: the integer part of the product is the number without  *)
(* its last digit, ten times the fraction is, rounded down, that digit.    *)
(* No product exceeds 2^31, so no instruction wraps.                       *)
(***************************************************************************)
EXTENDS Integers

CONSTANT Inputs         \* the numbers set on the switches

ASSUME InputsAssumption == Inputs \subseteq 0 .. 2^18 - 1

VARIABLES
  input,        \* the switches when the program read them
  x1,           \* what remains to be converted
  x2,           \* the digits so far, four bits each
  block         \* the block to execute next; 6 when x2 goes to the display

vars == <<input, x1, x2, block>>

(* Mutant: 0.1 rounded down.                                               *)
TenthRoundedDown == 6553

Tenth == 6554                                                    \* x3, 0x199a

(* Mutant: the digit rounded to nearest.                                   *)
DigitRounded(n) == (((n * Tenth) % 2^16) * 10 + 2^15) \div 2^16

Quotient(n) == (n * Tenth) \div 2^16
Digit(n)    == (((n * Tenth) % 2^16) * 10) \div 2^16

(* Mutant: every block shifts the result, as in the lines commented out.   *)
ShiftedAlways(k, result) == result \div 16

(* The first block shifts the result right before it adds its digit.       *)
Shifted(k, result) == IF k = 0 THEN result \div 16 ELSE result

(***************************************************************************)
(* Block k puts its digit at hex digit k.  For the last one, that is       *)
(* slli x7, x7, 4: the digit comes in the upper half of x7.                *)
(***************************************************************************)
Placed(k, digit) == digit * 16^k

-----------------------------------------------------------------------------

Init ==
  /\ input \in Inputs
  /\ x1 = input
  /\ x2 = 0
  /\ block = 0

ConvertDigit ==
  /\ block < 6
  /\ x2' = Shifted(block, x2) + Placed(block, Digit(x1))
  /\ x1' = Quotient(x1)
  /\ block' = block + 1
  /\ UNCHANGED input

Next == ConvertDigit

Spec == Init /\ [][Next]_vars

(* The sum of one term for each of the six blocks.                         *)
Total(term) == term[0] + term[1] + term[2] + term[3] + term[4] + term[5]

(* The word that the display ends up with for n.                           *)
Converted(n) ==
  LET rest[k \in 0 .. 5] == IF k = 0 THEN n ELSE Quotient(rest[k-1])
  IN  Total([k \in 0 .. 5 |-> Placed(k, Digit(rest[k]))])

-----------------------------------------------------------------------------

DecimalDigit(n, k) == (n \div 10^k) % 10

(* n in decimal, one hex digit for each decimal digit.                     *)
Decimal(n) == Total([k \in 0 .. 5 |-> DecimalDigit(n, k) * 16^k])

(* The digit of the display at position k.                                 *)
Shown(k) == (x2 \div 16^k) % 16

(***************************************************************************)
(* bin2dec.asm says that inputs of five digits and below work fine.        *)
(***************************************************************************)
DisplaysDecimal == block = 6 => x2 = Decimal(input)

(* The claim of bin2dec.asm holds of the inputs of up to 14 bits.          *)
ExactUpTo14Bits == input < 2^14 => DisplaysDecimal

(***************************************************************************)
(* Whatever the input, right or wrong, the display shows decimal digits    *)
(* only: the six blocks write six disjoint hex digits, none above 9, and   *)
(* no block carries into a digit that another one has written.             *)
(***************************************************************************)
OnlyDecimalDigits ==
  /\ \A k \in 0 .. 5 : Shown(k) \in 0 .. 9
  /\ \A k \in 0 .. 5 : k >= block => Shown(k) = 0
  /\ x2 < 16^6

(***************************************************************************)
(* The error of the fixed-point 0.1 is one-sided: what the program shows,  *)
(* read as a decimal number, is never below the input, and above it by at  *)
(* most one part in 8192 (which 163840 reaches).                           *)
(***************************************************************************)
ShownNumber == Total([k \in 0 .. 5 |-> Shown(k) * 10^k])

ErrorIsBounded == block = 6 => ShownNumber - input \in 0 .. input \div 8192

=============================================================================
