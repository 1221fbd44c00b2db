------------------------------- MODULE MCAlu -------------------------------
(* Every pair of operands at a width whose products TLC can compute.       *)
EXTENDS AluBench

MCOperands == Word

=============================================================================
