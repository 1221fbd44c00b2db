----------------------------- MODULE Assembler -----------------------------
(***************************************************************************)
(* The words that support/rars.jar assembles the instructions of this      *)
(* repository's programs to: the operation in the name of the operator,    *)
(* its operands in the order of the assembly language.                     *)
(***************************************************************************)
EXTENDS Datapath, TLC

(* The three instruction formats, from their fields.                       *)
RType(f7, f3, d, s1, s2) ==
  OP_R \cup Cat(d, 7, {}) \cup Cat(Lit(3, f3), 12, {}) \cup Cat(s1, 15, {})
       \cup Cat(s2, 20, {}) \cup Cat(Lit(7, f7), 25, {})
IType(op, f3, d, s, imm) ==
  op \cup Cat(d, 7, {}) \cup Cat(Lit(3, f3), 12, {}) \cup Cat(s, 15, {}) \cup Cat(imm, 20, {})

(* An immediate is given as an integer of -2048 .. 2047.                   *)
Imm12(n) == Lit(12, n % 4096)

x(n) == Lit(5, n)

ReadSwitches(d) == IType(OP_SYSTEM, 1, d, x0, Lit(12, 3840))    \* csrrw d, 0xf00, x0
WriteHex(d, s)  == IType(OP_SYSTEM, 1, d, s, CSR_HEX)           \* csrrw d, 0xf02, s
Addi(d, s, n)    == IType(OP_I, 0, d, s, Imm12(n))
Xori(d, s, n)    == IType(OP_I, 4, d, s, Imm12(n))
Ori(d, s, n)     == IType(OP_I, 6, d, s, Imm12(n))
Andi(d, s, n)    == IType(OP_I, 7, d, s, Imm12(n))
Slli(d, s, n)    == IType(OP_I, 1, d, s, Imm12(n))
Srli(d, s, n)    == IType(OP_I, 5, d, s, Imm12(n))
Srai(d, s, n)    == IType(OP_I, 5, d, s, Imm12(1024 + n))
Add3(d, s1, s2)  == RType(0, 0, d, s1, s2)
Sub3(d, s1, s2)  == RType(32, 0, d, s1, s2)
Sll3(d, s1, s2)  == RType(0, 1, d, s1, s2)
Slt3(d, s1, s2)  == RType(0, 2, d, s1, s2)
Sltu(d, s1, s2)  == RType(0, 3, d, s1, s2)
Xor3(d, s1, s2)  == RType(0, 4, d, s1, s2)
Srl3(d, s1, s2)  == RType(0, 5, d, s1, s2)
Sra3(d, s1, s2)  == RType(32, 5, d, s1, s2)
Or3(d, s1, s2)   == RType(0, 6, d, s1, s2)
And3(d, s1, s2)  == RType(0, 7, d, s1, s2)
Mul3(d, s1, s2)  == RType(1, 0, d, s1, s2)
Mulh(d, s1, s2)  == RType(1, 1, d, s1, s2)
Mulhu(d, s1, s2) == RType(1, 3, d, s1, s2)
Lui(d, n)        == OP_U \cup Cat(d, 7, {}) \cup Cat(Lit(20, n), 12, {})

=============================================================================
