------------------------------ MODULE MCInstr ------------------------------
(* Low immediate bits 0 to 3 and 31, so that 12'hf02 and the constants of  *)
(* the pseudo-instructions are among the immediates; x0, x1 (ra) and x6,   *)
(* which lui x6, 49 needs.  The opcodes the CPU does not implement are     *)
(* those of loads, fences, auipc, stores, branches, jalr, jal, the 32-bit  *)
(* operations of RV64, the 64-bit ones of RV128 and floating point, and    *)
(* among those that inst[31:25] subdivides, atomics and OP-FP.             *)
EXTENDS InstrCheck

Major(n) == Cat(Lit(5, n), 2, {0, 1})

MCOtherOpcodes == { Major(n) : n \in {0, 1, 3, 5, 6, 8, 9, 14, 16, 19, 22, 24, 25, 27, 30} }
MCByFunct7     == { Major(11), Major(20) }
MCOtherFunct7s == { {}, {0}, {5}, {6}, {0, 5}, 0 .. 6 }

MCRdFields  == { {}, {0}, {1, 2} }
MCRs1Fields == { {}, {0}, {1, 2} }
MCRs2Fields == { {}, {0}, {1}, {0, 1}, 0 .. 4 }

MCOperandPairs ==
  << << {0, 2}, 1 .. 31 >>,                 \* 5, -2
     << {0, 31}, {3, 4, 5, 6, 9, 10, 12, 14, 18, 20, 21, 25, 28} >>,
                                            \* a negative, 0x12345678
     << 0 .. 31, 0 .. 31 >> >>              \* -1, -1

=============================================================================
