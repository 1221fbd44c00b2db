----------------------------- MODULE MCFrontEnd -----------------------------
(***************************************************************************)
(* A memory of eight words, which the longest test fills with the two      *)
(* cycles that its last instruction takes to be written back.  The files   *)
(* are those of the tests, one that is too long, and all files of up to    *)
(* two lines of the kinds below.  Three cycles are just enough for one     *)
(* word, and from the eleventh on a second round would show.               *)
(***************************************************************************)
EXTENDS FrontEnd, TestSuite

MCROMWORDS  == 8
MCPowerUp   == { [a \in 0 .. 7 |-> Addi(x(1), x(1), a)] }
MCSwitches  == { {} }
MCNCYCLES   == {3, 8, 10}

First  == Addi(x(1), x0, 5)
Second == Addi(x(2), x(1), 7)

Lines ==
  { << >>, << blank, Hex(8, First) >>, << Hex(8, Second), blank, comment, other >>,
    << comment, Hex(8, First) >>, << Hex(4, {0, 5}), underscore, Hex(4, {3}) >>,
    << Hex(8, First), blank, Hex(8, Second) >>, << Hex(3, {1, 4}) >>, << Hex(9, {1, 33}) >>,
    << Hex(5, {9}), other >>, << underscore, Hex(8, Second), blank >> }

MCFiles ==
  { AllTests[k].file : k \in DOMAIN AllTests } \cup BoundedSeq(Lines, 2)
    \cup { [k \in 1 .. 9 |-> << Hex(8, First) >>] }

NoMems  == {}
NoHexes == {}

=============================================================================
