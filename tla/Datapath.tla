------------------------------ MODULE Datapath ------------------------------
(***************************************************************************)
(* The combinational part of the CPU: rtl/decode.sv (the fields of an      *)
(* instruction), rtl/control.sv (the control lines they raise) and the     *)
(* multiplexers of rtl/cpu.sv, as functions of the instruction word.       *)
(*                                                                         *)
(* Instructions and data are 32-bit words.  A register address is the      *)
(* 5-bit vector itself, so that x0 is the empty set.                       *)
(***************************************************************************)
EXTENDS Words

ALU == INSTANCE Alu WITH XLEN <- 32, SHAMTBITS <- 5

Word == Vec(32)
Regs == Vec(5)
x0   == {}

-----------------------------------------------------------------------------
(* decode.sv                                                               *)

rd(instr)     == Slice(instr, 11, 7)
opcode(instr) == Slice(instr, 6, 0)
funct7(instr) == Slice(instr, 31, 25)
rs2(instr)    == Slice(instr, 24, 20)
rs1(instr)    == Slice(instr, 19, 15)
funct3(instr) == Slice(instr, 14, 12)
imm_i(instr)  == Slice(instr, 31, 20)
imm_u(instr)  == Slice(instr, 31, 12)

-----------------------------------------------------------------------------
(* control.sv                                                              *)

OP_R      == Lit(7, 51)                                           \* 7'h33
OP_I      == Lit(7, 19)                                           \* 7'h13
OP_U      == Lit(7, 55)                                           \* 7'h37
OP_SYSTEM == Lit(7, 115)                                          \* 7'h73
CSR_HEX   == Lit(12, 3842)                                        \* 12'hf02

isCSRRW(instr) == opcode(instr) = OP_SYSTEM /\ funct3(instr) = Lit(3, 1)

(***************************************************************************)
(* The if-chains that choose aluop, as rows <<funct3, funct7s, aluop>>: no *)
(* two rows of a table match the same instruction, so their order does not *)
(* matter.  An instruction no row matches gets the chain's default: mulhu  *)
(* for an R-type, and the default of the whole block, and, for an I-type.  *)
(***************************************************************************)
AnyFunct7 == 0 .. 127

RTypeRows ==
  { <<0, {0}, 3>>,   \* add
    <<0, {32}, 4>>,  \* sub
    <<7, {0}, 0>>,   \* and
    <<6, {0}, 1>>,   \* or
    <<4, {0}, 2>>,   \* xor
    <<1, {0}, 8>>,   \* sll
    <<5, {32}, 10>>, \* sra
    <<5, {0}, 9>>,   \* srl
    <<2, {0}, 12>>,  \* slt
    <<3, {0}, 13>>,  \* sltu
    <<0, {1}, 5>>,   \* mul
    <<1, {1}, 6>>,   \* mulh
    <<3, {1}, 7>> }  \* mulhu

ITypeRows ==
  { <<0, AnyFunct7, 3>>,  \* addi
    <<7, AnyFunct7, 0>>,  \* andi
    <<6, AnyFunct7, 1>>,  \* ori
    <<1, {0}, 8>>,        \* slli
    <<4, AnyFunct7, 2>>,  \* xori
    <<5, {32}, 10>>,      \* srai
    <<5, {0}, 9>> }       \* srli

Matching(rows, instr) ==
  { row \in rows : Num(funct3(instr)) = row[1] /\ Num(funct7(instr)) \in row[2] }

aluop(instr) ==
  LET rows    == CASE opcode(instr) = OP_R -> RTypeRows
                   [] opcode(instr) = OP_I -> ITypeRows
                   [] OTHER                -> {}
      matches == Matching(rows, instr)
  IN  IF matches # {} THEN (CHOOSE row \in matches : TRUE)[3]
      ELSE IF opcode(instr) = OP_R THEN 7 ELSE 0

(* What is written back: 0 the switches, 1 imm_u, 2 the ALU's result.      *)
regsel(instr) ==
  CASE opcode(instr) \in {OP_R, OP_I} -> 2
    [] isCSRRW(instr)                 -> 0
    [] OTHER                          -> 1

alusrc(instr) == opcode(instr) \in {OP_I, OP_U}

hexwe(instr) == isCSRRW(instr) /\ imm_i(instr) = CSR_HEX

(* Mutant: a display write also writes its rd.                             *)
regweOnDisplayWrite(instr) ==
  opcode(instr) \in {OP_R, OP_I, OP_U} \/ isCSRRW(instr)

regwe(instr) ==
  \/ opcode(instr) \in {OP_R, OP_I, OP_U}
  \/ isCSRRW(instr) /\ imm_i(instr) # CSR_HEX

-----------------------------------------------------------------------------
(* The multiplexers of cpu.sv.                                             *)

(* Mutant: the immediate without its sign.                                 *)
BZeroExtended(instr, readdata2) == IF alusrc(instr) THEN imm_i(instr) ELSE readdata2

(* The ALU's second operand: the sign-extended immediate or readdata2.     *)
B(instr, readdata2) ==
  IF alusrc(instr) THEN SignExtend(32, 12, imm_i(instr)) ELSE readdata2

AluResult(instr, A, readdata2) == ALU!R(A, B(instr, readdata2), aluop(instr))

writedata(sel, R, imm, switches) ==
  CASE sel = 0 -> switches                                  \* {14'b0, io0_WB}
    [] sel = 1 -> Cat(imm, 12, {})                          \* {imm_u_WB, 12'b0}
    [] OTHER   -> R

(* What an instruction writes back, given the values of its operands.      *)
Result(instr, A, readdata2, switches) ==
  writedata(regsel(instr), AluResult(instr, A, readdata2), imm_u(instr), switches)

=============================================================================
