---------------------------- MODULE MCBin2DecCpu ----------------------------
(* 0, the largest number converted exactly, and the largest there is.      *)
EXTENDS Bin2DecCpu

MCROMWORDS     == 61
MCPrograms     == { program_rom }
MCSwitches     == { Lit(18, 0), Lit(18, 16383), Lit(18, 262143) }
MCPowerUpMems  == { [r \in Regs |-> {0, 31}] }
MCPowerUpHexes == { {31} }

=============================================================================
