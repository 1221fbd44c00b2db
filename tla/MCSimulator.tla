---------------------------- MODULE MCSimulator ----------------------------
(***************************************************************************)
(* Four-word instruction memories: an empty one, one that carries a value  *)
(* from the switches through a chain of dependent instructions, and one    *)
(* that writes x0 and the display.                                         *)
(***************************************************************************)
EXTENDS Simulator, Assembler

Rom(w0, w1, w2, w3) == 0 :> w0 @@ 1 :> w1 @@ 2 :> w2 @@ 3 :> w3

MCROMWORDS == 4
SimPrograms ==
  { Rom({}, {}, {}, {}),
    Rom(ReadSwitches(x(1)), Addi(x(2), x(1), 1), Add3(x(1), x(2), x(1)), Add3(x(2), x(1), x(2))),
    Rom(Addi(x(2), x(2), 3), ReadSwitches(x0), WriteHex(x(1), x(2)), Add3(x(1), x0, x(2))) }
SimSwitches == { {}, {0, 17} }

NoMems  == {}
NoHexes == {}

=============================================================================
