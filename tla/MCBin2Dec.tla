----------------------------- MODULE MCBin2Dec -----------------------------
(* The ranges of inputs of the two runs.                                 *)
EXTENDS Bin2Dec

AllSwitches  == 0 .. 2^18 - 1
FiveDigits   == 16000 .. 17000

=============================================================================
