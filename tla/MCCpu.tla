------------------------------- MODULE MCCpu -------------------------------
(***************************************************************************)
(* Every program of three instructions over a set chosen so that each one  *)
(* can write a register that the next, or the one after it, reads; the     *)
(* instruction memory wraps, so every program is also a loop.  The         *)
(* operations keep the set of reachable register values finite and small.  *)
(***************************************************************************)
EXTENDS Cpu, Assembler

Instructions ==
  { ReadSwitches(x(1)), WriteHex(x0, x(1)), WriteHex(x(1), x(2)), Xori(x(1), x(1), 1),
    Andi(x0, x(1), 0 - 1), Sltu(x(2), x0, x(1)), Lui(x(2), 1048575) }

MCROMWORDS     == 3
AllPrograms    == [0 .. MCROMWORDS-1 -> Instructions]
MCSwitches     == { {}, {0, 17} }
MCPowerUpMems  == { [r \in Regs |-> {5}] }
MCPowerUpHexes == { {31} }

=============================================================================
