------------------------------- MODULE Disasm -------------------------------
(***************************************************************************)
(* support/riscv-disas.c, the disassembler behind the simulator's "inst"   *)
(* probes: disasm_inst for isa = rv32, from the mnemonic through the       *)
(* operands of its codec, the instruction that a 16-bit encoding stands    *)
(* for and the pseudo-instruction that replaces it to the fields that are  *)
(* printed.                                                                *)
(***************************************************************************)
EXTENDS Opcode, TLC

(***************************************************************************)
(* The operand extractors.  Registers are 5-bit and immediates 32-bit.     *)
(***************************************************************************)
operand_rd(instr)     == Slice(instr, 11, 7)
operand_rs1(instr)    == Slice(instr, 19, 15)
operand_rs2(instr)    == Slice(instr, 24, 20)
operand_pred(instr)   == Slice(instr, 27, 24)
operand_succ(instr)   == Slice(instr, 23, 20)
operand_shamt5(instr) == Slice(instr, 24, 20)
operand_shamt7(instr) == Slice(instr, 26, 20)
operand_csr12(instr)  == Slice(instr, 31, 20)
operand_imm12(instr)  == SignExtend(32, 12, Slice(instr, 31, 20))
operand_imm20(instr)  == ShiftLeft(32, Slice(instr, 31, 12), 12)

operand_rs3(instr)    == Slice(instr, 31, 27)
operand_aq(instr)     == Slice(instr, 26, 26)
operand_rl(instr)     == Slice(instr, 25, 25)
operand_rm(instr)     == Slice(instr, 14, 12)
operand_shamt6(instr) == Slice(instr, 25, 20)

(* An immediate that is scattered over the word: the bits hi to lo of each *)
(* part are those of the immediate from position at on.                    *)
Part(hi, lo, at)        == [hi |-> hi, lo |-> lo, at |-> at]
Gathered(instr, parts)  == UNION { Cat(Slice(instr, p.hi, p.lo), p.at, {}) : p \in parts }
Sign(instr, bit, n)     == IF bit \in instr THEN n .. 31 ELSE {}

operand_jimm20(instr) ==
  Sign(instr, 31, 20) \cup Gathered(instr, { Part(30, 21, 1), Part(20, 20, 11), Part(19, 12, 12) })

operand_simm12(instr) ==
  SignExtend(32, 12, Cat(Slice(instr, 31, 25), 5, Slice(instr, 11, 7)))

operand_sbimm12(instr) ==
  Sign(instr, 31, 12) \cup Gathered(instr, { Part(30, 25, 5), Part(11, 8, 1), Part(7, 7, 11) })

(* The 16-bit encodings: registers of three bits are x8 to x15.            *)
operand_crdq(instr)  == Slice(instr, 4, 2) \cup {3}
operand_crs1q(instr) == Slice(instr, 9, 7) \cup {3}
operand_crd(instr)   == Slice(instr, 11, 7)
operand_crs2(instr)  == Slice(instr, 6, 2)

operand_cimmi(instr)    == Sign(instr, 12, 5) \cup Slice(instr, 6, 2)
operand_cimmui(instr)   == Sign(instr, 12, 17) \cup Gathered(instr, { Part(6, 2, 12) })
operand_cimmsh6(instr)  == Gathered(instr, { Part(12, 12, 5), Part(6, 2, 0) })
operand_cimmlwsp(instr) == Gathered(instr, { Part(12, 12, 5), Part(6, 4, 2), Part(3, 2, 6) })
operand_cimmldsp(instr) == Gathered(instr, { Part(12, 12, 5), Part(6, 5, 3), Part(4, 2, 6) })
operand_cimmswsp(instr) == Gathered(instr, { Part(12, 9, 2), Part(8, 7, 6) })
operand_cimmsdsp(instr) == Gathered(instr, { Part(12, 10, 3), Part(9, 7, 6) })
operand_cimmw(instr)    == Gathered(instr, { Part(12, 10, 3), Part(6, 6, 2), Part(5, 5, 6) })
operand_cimmd(instr)    == Gathered(instr, { Part(12, 10, 3), Part(6, 5, 6) })

operand_cimm4spn(instr) ==
  Gathered(instr, { Part(12, 11, 4), Part(10, 7, 6), Part(6, 6, 2), Part(5, 5, 3) })

(* Mutant: bits 5 and 6 of the offset in the order of the word.            *)
operand_cimm16spInOrder(instr) ==
  Sign(instr, 12, 9)
    \cup Gathered(instr, { Part(6, 6, 4), Part(5, 5, 5), Part(4, 3, 7), Part(2, 2, 6) })

operand_cimm16sp(instr) ==
  Sign(instr, 12, 9)
    \cup Gathered(instr, { Part(6, 6, 4), Part(5, 5, 6), Part(4, 3, 7), Part(2, 2, 5) })

operand_cimmj(instr) ==
  Sign(instr, 12, 11)
    \cup Gathered(instr, { Part(11, 11, 4), Part(10, 9, 8), Part(8, 8, 10), Part(7, 7, 6),
                           Part(6, 6, 7), Part(5, 3, 1), Part(2, 2, 5) })

operand_cimmb(instr) ==
  Sign(instr, 12, 8)
    \cup Gathered(instr, { Part(11, 10, 3), Part(6, 5, 6), Part(4, 3, 1), Part(2, 2, 5) })

(***************************************************************************)
(* opcode_data: the codec of an instruction and the fields its format      *)
(* prints, in their order.  The same field may name an integer register or *)
(* a floating-point register, as the instruction has it.                   *)
(***************************************************************************)
Typed(names, types) == { n \o "." \o t : n \in names, t \in types }
FloatTypes == {"s", "d", "q"}

Loads  == { "lb", "lh", "lw", "ld", "lbu", "lhu", "lwu", "ldu", "lq", "flw", "fld", "flq" }
Stores == { "sb", "sh", "sw", "sd", "sq", "fsw", "fsd", "fsq" }

FusedMultiplies  == Typed({ "fmadd", "fmsub", "fnmsub", "fnmadd" }, FloatTypes)
FloatBinaries    == Typed({ "fadd", "fsub", "fmul", "fdiv" }, FloatTypes)
Conversions ==
  LET integers == {"w", "wu", "l", "lu"} IN
  Typed({"fcvt"}, Typed(FloatTypes, FloatTypes \cup integers) \cup Typed(integers, FloatTypes))
RoundedUnaries   == Typed({"fsqrt"}, FloatTypes) \cup Conversions
UnroundedUnaries ==
  Typed({ "fmv.x", "fclass" }, FloatTypes) \cup Typed({"fmv"}, Typed(FloatTypes, {"x"}))
LoadReserved     == Typed({"lr"}, {"w", "d", "q"})
Amos ==
  Typed({ "sc", "amoswap", "amoadd", "amoxor", "amoor", "amoand", "amomin", "amomax",
          "amominu", "amomaxu" }, {"w", "d", "q"})

CompressedCodec ==
  "c.addi4spn" :> "ciw_4spn" @@ "c.addi" :> "ci" @@ "c.jal" :> "cj_jal" @@ "c.li" :> "ci_li"
  @@ "c.addi16sp" :> "ci_16sp" @@ "c.lui" :> "ci_lui" @@ "c.andi" :> "cb_imm" @@ "c.j" :> "cj"
  @@ "c.slli" :> "ci_sh6" @@ "c.jr" :> "cr_jr" @@ "c.mv" :> "cr_mv" @@ "c.jalr" :> "cr_jalr"
  @@ "c.add" :> "cr" @@ "c.fsdsp" :> "css_sdsp" @@ "c.fldsp" :> "ci_ldsp" @@ "c.fld" :> "cl_ld"
  @@ "c.fsd" :> "cs_sd"
  @@ [ op \in { "c.nop", "c.ebreak" } |-> "ci_none" ] @@ [ op \in { "c.lw", "c.flw" } |-> "cl_lw" ]
  @@ [ op \in { "c.sw", "c.fsw" } |-> "cs_sw" ] @@ [ op \in { "c.srli", "c.srai" } |-> "cb_sh6" ]
  @@ [ op \in { "c.beqz", "c.bnez" } |-> "cb" ] @@ [ op \in { "c.lwsp", "c.flwsp" } |-> "ci_lwsp" ]
  @@ [ op \in { "c.swsp", "c.fswsp" } |-> "css_swsp" ]
  @@ [ op \in { "c.sub", "c.xor", "c.or", "c.and", "c.subw", "c.addw" } |-> "cs" ]

Codec(op) ==
  CASE op \in { "lui", "auipc" }                           -> "u"
    [] op = "jal"                                          -> "uj"
    [] op \in Loads \cup { "jalr", "addi", "slti", "sltiu", "xori", "ori", "andi",
                           "addiw", "addid" }              -> "i"
    [] op \in { "slliw", "srliw", "sraiw" }                -> "i_sh5"
    [] op \in { "sllid", "srlid", "sraid" }                -> "i_sh6"
    [] op \in { "slli", "srli", "srai" }                   -> "i_sh7"
    [] op \in { "csrrw", "csrrs", "csrrc", "csrrwi", "csrrsi", "csrrci" } -> "i_csr"
    [] op \in Stores                                       -> "s"
    [] op \in { "beq", "bne", "blt", "bge", "bltu", "bgeu" } -> "sb"
    [] op = "fence"                                        -> "r_f"
    [] op \in FloatBinaries \cup RoundedUnaries            -> "r_m"
    [] op \in FusedMultiplies                              -> "r4_m"
    [] op \in Amos                                         -> "r_a"
    [] op \in LoadReserved                                 -> "r_l"
    [] op \in { "fence.i", "ecall", "ebreak", "uret", "sret", "hret", "mret", "dret",
                "wfi", Illegal }                           -> "none"
    [] op \in DOMAIN CompressedCodec                       -> CompressedCodec[op]
    [] OTHER                                               -> "r"

PseudoFormats ==
  [ nop |-> << >>, ret |-> << >>, j |-> << "imm" >>, jr |-> << "rs1" >> ]
  @@ [ op \in { "mv", "not", "sext.w", "seqz", "sltz", "fscsr", "fsrm", "fsflags",
                "fsrmi", "fsflagsi" } \cup Typed({ "fmv", "fabs", "fneg" }, FloatTypes)
         |-> << "rd", "rs1" >> ]
  @@ [ op \in { "neg", "negw", "snez", "sgtz" } |-> << "rd", "rs2" >> ]
  @@ [ op \in { "beqz", "bnez", "bgez", "bltz" } |-> << "rs1", "imm" >> ]
  @@ [ op \in { "blez", "bgtz" } |-> << "rs2", "imm" >> ]
  @@ [ op \in { "ble", "bleu", "bgt", "bgtu" } |-> << "rs2", "rs1", "imm" >> ]
  @@ [ op \in { "rdcycle", "rdtime", "rdinstret", "rdcycleh", "rdtimeh", "rdinstreth",
                "frcsr", "frrm", "frflags" } |-> << "rd" >> ]

Format(op) ==
  IF op \in DOMAIN PseudoFormats THEN PseudoFormats[op] ELSE
  CASE Codec(op) \in { "u", "uj" }                        -> << "rd", "imm" >>
    [] op = "sfence.vm"                                   -> << "rs1" >>
    [] op = "sfence.vma"                                  -> << "rs1", "rs2" >>
    [] Codec(op) = "i_csr" \/ op \in Loads                -> << "rd", "imm", "rs1" >>
    [] Codec(op) \in { "i", "i_sh5", "i_sh6", "i_sh7" } /\ op \notin Loads
                                                          -> << "rd", "rs1", "imm" >>
    [] Codec(op) = "s"                                    -> << "rs2", "imm", "rs1" >>
    [] Codec(op) = "sb"                                   -> << "rs1", "rs2", "imm" >>
    [] Codec(op) = "r_f"                                  -> << "pred", "succ" >>
    [] Codec(op) = "none"                                 -> << >>
    [] op \in UnroundedUnaries                            -> << "rd", "rs1" >>
    [] op \in RoundedUnaries                              -> << "rm", "rd", "rs1" >>
    [] op \in FloatBinaries                               -> << "rm", "rd", "rs1", "rs2" >>
    [] Codec(op) = "r4_m"                          -> << "rm", "rd", "rs1", "rs2", "rs3" >>
    [] Codec(op) = "r_a"                           -> << "aq", "rl", "rd", "rs2", "rs1" >>
    [] Codec(op) = "r_l"                                  -> << "aq", "rl", "rd", "rs1" >>
    [] OTHER                                              -> << "rd", "rs1", "rs2" >>

(***************************************************************************)
(* decode_inst_operands: the fields of the decoded instruction, each zero  *)
(* unless the codec has it.                                                *)
(***************************************************************************)
x0 == {}
ra == {0}
sp == {1}

Immediate(instr, codec) ==
  CASE codec = "u"     -> operand_imm20(instr)
    [] codec = "uj"    -> operand_jimm20(instr)
    [] codec = "i"     -> operand_imm12(instr)
    [] codec = "i_sh5" -> operand_shamt5(instr)
    [] codec = "i_sh6" -> operand_shamt6(instr)
    [] codec = "i_sh7" -> operand_shamt7(instr)
    [] codec = "i_csr" -> operand_csr12(instr)
    [] codec = "s"     -> operand_simm12(instr)
    [] codec = "sb"    -> operand_sbimm12(instr)
    [] OTHER           -> {}

(* The fields of a 16-bit encoding.                                        *)
CompressedFields(instr, codec) ==
  LET is(rd, rs1, rs2, imm) == [rd |-> rd, rs1 |-> rs1, rs2 |-> rs2, imm |-> imm]
      rdq   == operand_crdq(instr)   \* also rs2
      rs1q  == operand_crs1q(instr)  \* also rd
      rd    == operand_crd(instr)    \* also rs1
      rs2   == operand_crs2(instr)
  IN  CASE codec = "cb"       -> is(x0, rs1q, x0, operand_cimmb(instr))
        [] codec = "cb_imm"   -> is(rs1q, rs1q, x0, operand_cimmi(instr))
        [] codec = "cb_sh6"   -> is(rs1q, rs1q, x0, operand_cimmsh6(instr))
        [] codec = "ci"       -> is(rd, rd, x0, operand_cimmi(instr))
        [] codec = "ci_sh6"   -> is(rd, rd, x0, operand_cimmsh6(instr))
        [] codec = "ci_16sp"  -> is(sp, sp, x0, operand_cimm16sp(instr))
        [] codec = "ci_lwsp"  -> is(rd, sp, x0, operand_cimmlwsp(instr))
        [] codec = "ci_ldsp"  -> is(rd, sp, x0, operand_cimmldsp(instr))
        [] codec = "ci_li"    -> is(rd, x0, x0, operand_cimmi(instr))
        [] codec = "ci_lui"   -> is(rd, x0, x0, operand_cimmui(instr))
        [] codec = "ci_none"  -> is(x0, x0, x0, {})
        [] codec = "ciw_4spn" -> is(rdq, sp, x0, operand_cimm4spn(instr))
        [] codec = "cj"       -> is(x0, x0, x0, operand_cimmj(instr))
        [] codec = "cj_jal"   -> is(ra, x0, x0, operand_cimmj(instr))
        [] codec = "cl_lw"    -> is(rdq, rs1q, x0, operand_cimmw(instr))
        [] codec = "cl_ld"    -> is(rdq, rs1q, x0, operand_cimmd(instr))
        [] codec = "cr"       -> is(rd, rd, rs2, {})
        [] codec = "cr_mv"    -> is(rd, rs2, x0, {})
        [] codec = "cr_jalr"  -> is(ra, rd, x0, {})
        [] codec = "cr_jr"    -> is(x0, rd, x0, {})
        [] codec = "cs"       -> is(rs1q, rs1q, rdq, {})
        [] codec = "cs_sw"    -> is(x0, rs1q, rdq, operand_cimmw(instr))
        [] codec = "cs_sd"    -> is(x0, rs1q, rdq, operand_cimmd(instr))
        [] codec = "css_swsp" -> is(x0, sp, rs2, operand_cimmswsp(instr))
        [] codec = "css_sdsp" -> is(x0, sp, rs2, operand_cimmsdsp(instr))

FullFields(instr, codec) ==
  LET only(has, field) == IF has THEN field ELSE {}
  IN  [ rd  |-> only(codec \notin { "none", "s", "sb", "r_f" }, operand_rd(instr)),
        rs1 |-> only(codec \notin { "none", "u", "uj", "r_f" }, operand_rs1(instr)),
        rs2 |-> only(codec \in { "s", "sb", "r", "r_m", "r4_m", "r_a" }, operand_rs2(instr)),
        imm |-> Immediate(instr, codec) ]

decode_inst_operands(instr, op, codec) ==
  LET only(codecs, field) == IF codec \in codecs THEN field ELSE {}
  IN  [ op   |-> op,
        pred |-> only({"r_f"}, operand_pred(instr)),
        succ |-> only({"r_f"}, operand_succ(instr)),
        rs3  |-> only({"r4_m"}, operand_rs3(instr)),
        rm   |-> only({"r_m", "r4_m"}, operand_rm(instr)),
        aq   |-> only({"r_a", "r_l"}, operand_aq(instr)),
        rl   |-> only({"r_a", "r_l"}, operand_rl(instr)) ]
      @@ IF op \in DOMAIN CompressedCodec THEN CompressedFields(instr, codec)
         ELSE FullFields(instr, codec)

decode(instr) ==
  LET op == mnemonic(instr) IN decode_inst_operands(instr, op, Codec(op))

(***************************************************************************)
(* decompress_inst_rv32: the instruction that a 16-bit encoding stands for.*)
(* Some must not have a zero immediate.                                    *)
(***************************************************************************)
Decompressed ==
  [ op \in { "c.addi4spn", "c.nop", "c.addi", "c.li", "c.addi16sp", "c.mv" } |-> "addi" ]
  @@ [ op \in { "c.jal", "c.j" } |-> "jal" ]   @@ [ op \in { "c.jr", "c.jalr" } |-> "jalr" ]
  @@ [ op \in { "c.lw", "c.lwsp" } |-> "lw" ]   @@ [ op \in { "c.sw", "c.swsp" } |-> "sw" ]
  @@ [ op \in { "c.flw", "c.flwsp" } |-> "flw" ] @@ [ op \in { "c.fsw", "c.fswsp" } |-> "fsw" ]
  @@ [ op \in { "c.fld", "c.fldsp" } |-> "fld" ] @@ [ op \in { "c.fsd", "c.fsdsp" } |-> "fsd" ]
  @@ "c.lui" :> "lui" @@ "c.srli" :> "srli" @@ "c.srai" :> "srai" @@ "c.slli" :> "slli"
  @@ "c.andi" :> "andi" @@ "c.sub" :> "sub" @@ "c.xor" :> "xor" @@ "c.or" :> "or"
  @@ "c.and" :> "and" @@ "c.subw" :> "subw" @@ "c.addw" :> "addw" @@ "c.add" :> "add"
  @@ "c.beqz" :> "beq" @@ "c.bnez" :> "bne" @@ "c.ebreak" :> "ebreak"

imm_nz == { "c.addi4spn", "c.addi16sp", "c.lui", "c.srli", "c.srai", "c.andi", "c.slli" }

decompress_inst_rv32(dec) ==
  IF dec.op \notin DOMAIN Decompressed THEN dec
  ELSE [dec EXCEPT !.op = IF dec.op \in imm_nz /\ dec.imm = {} THEN Illegal
                                                              ELSE Decompressed[dec.op]]

(***************************************************************************)
(* The constraints under which a pseudo-instruction replaces an            *)
(* instruction (rvcc_...), and the pseudo-instructions tried for each      *)
(* instruction, in their order (rvcp_...).                                 *)
(***************************************************************************)
Constraints ==
  [ jal      |-> {"rd_eq_ra"},
    jalr     |-> {"rd_eq_ra", "imm_eq_zero"},
    nop      |-> {"rd_eq_x0", "rs1_eq_x0", "imm_eq_zero"},
    mv       |-> {"imm_eq_zero"},
    not      |-> {"imm_eq_n1"},
    seqz     |-> {"imm_eq_p1"},
    j        |-> {"rd_eq_x0"},
    ret      |-> {"rd_eq_x0", "rs1_eq_ra"},
    jr       |-> {"rd_eq_x0", "imm_eq_zero"},
    rdcycle    |-> {"rs1_eq_x0", "csr_eq_0xc00"},
    rdtime     |-> {"rs1_eq_x0", "csr_eq_0xc01"},
    rdinstret  |-> {"rs1_eq_x0", "csr_eq_0xc02"},
    rdcycleh   |-> {"rs1_eq_x0", "csr_eq_0xc80"},
    rdtimeh    |-> {"rs1_eq_x0", "csr_eq_0xc81"},
    rdinstreth |-> {"rs1_eq_x0", "csr_eq_0xc82"},
    frcsr    |-> {"rs1_eq_x0", "csr_eq_0x003"},
    frrm     |-> {"rs1_eq_x0", "csr_eq_0x002"},
    frflags  |-> {"rs1_eq_x0", "csr_eq_0x001"},
    fscsr    |-> {"csr_eq_0x003"},
    fsrm     |-> {"csr_eq_0x002"},
    fsflags  |-> {"csr_eq_0x001"},
    fsrmi    |-> {"csr_eq_0x002"},
    fsflagsi |-> {"csr_eq_0x001"} ]
  @@ "sext.w" :> {"imm_eq_zero"}
  @@ [ op \in {"neg", "negw", "snez", "sgtz", "blez", "bgtz"} |-> {"rs1_eq_x0"} ]
  @@ [ op \in {"sltz", "beqz", "bnez", "bgez", "bltz"} |-> {"rs2_eq_x0"} ]
  @@ [ op \in {"ble", "bleu", "bgt", "bgtu"} |-> {} ]
  @@ [ op \in Typed({"fmv", "fabs", "fneg"}, FloatTypes) |-> {"rs2_eq_rs1"} ]

Pseudo ==
  [ jal   |-> << "j", "jal" >>,
    jalr  |-> << "ret", "jr", "jalr" >>,
    beq   |-> << "beqz" >>,
    bne   |-> << "bnez" >>,
    blt   |-> << "bltz", "bgtz", "bgt" >>,
    bge   |-> << "blez", "bgez", "ble" >>,
    bltu  |-> << "bgtu" >>,
    bgeu  |-> << "bleu" >>,
    addi  |-> << "nop", "mv" >>,
    sltiu |-> << "seqz" >>,
    xori  |-> << "not" >>,
    sub   |-> << "neg" >>,
    slt   |-> << "sltz", "sgtz" >>,
    sltu  |-> << "snez" >>,
    addiw |-> << "sext.w" >>,
    subw  |-> << "negw" >>,
    csrrw |-> << "fscsr", "fsrm", "fsflags" >>,
    csrrs |-> << "rdcycle", "rdtime", "rdinstret", "rdcycleh", "rdtimeh", "rdinstreth",
                 "frcsr", "frrm", "frflags" >>,
    csrrwi |-> << "fsrmi", "fsflagsi" >> ]
  @@ "fsgnj.s" :> <<"fmv.s">> @@ "fsgnjn.s" :> <<"fneg.s">> @@ "fsgnjx.s" :> <<"fabs.s">>
  @@ "fsgnj.d" :> <<"fmv.d">> @@ "fsgnjn.d" :> <<"fneg.d">> @@ "fsgnjx.d" :> <<"fabs.d">>
  @@ "fsgnj.q" :> <<"fmv.q">> @@ "fsgnjn.q" :> <<"fneg.q">> @@ "fsgnjx.q" :> <<"fabs.q">>

CsrNumbers ==
  [ csr_eq_0x001 |-> 1, csr_eq_0x002 |-> 2, csr_eq_0x003 |-> 3,
    csr_eq_0xc00 |-> 3072, csr_eq_0xc01 |-> 3073, csr_eq_0xc02 |-> 3074,
    csr_eq_0xc80 |-> 3200, csr_eq_0xc81 |-> 3201, csr_eq_0xc82 |-> 3202 ]

Satisfies(dec, constraint) ==
  CASE constraint = "rd_eq_ra"    -> dec.rd = ra
    [] constraint = "rd_eq_x0"    -> dec.rd = x0
    [] constraint = "rs1_eq_x0"   -> dec.rs1 = x0
    [] constraint = "rs2_eq_x0"   -> dec.rs2 = x0
    [] constraint = "rs1_eq_ra"   -> dec.rs1 = ra
    [] constraint = "rs2_eq_rs1"  -> dec.rs2 = dec.rs1
    [] constraint = "imm_eq_zero" -> dec.imm = {}
    [] constraint = "imm_eq_n1"   -> dec.imm = Ones(32)
    [] constraint = "imm_eq_p1"   -> dec.imm = One
    [] OTHER                      -> dec.imm = Lit(12, CsrNumbers[constraint])

(* A mutant: one constraint that holds is enough.                          *)
check_constraintsAny(dec, pseudo) ==
  Constraints[pseudo] = {} \/ \E c \in Constraints[pseudo] : Satisfies(dec, c)

check_constraints(dec, pseudo) == \A c \in Constraints[pseudo] : Satisfies(dec, c)

(* The first pseudo-instruction whose constraints hold replaces the opcode *)
(* and leaves the operands as they are.                                    *)
lift_pseudo(dec) ==
  LET pseudo == IF dec.op \in DOMAIN Pseudo THEN Pseudo[dec.op] ELSE << >>
      fits   == { k \in DOMAIN pseudo : check_constraints(dec, pseudo[k]) }
  IN  IF fits = {} THEN dec ELSE [dec EXCEPT !.op = pseudo[Min(fits)]]

(***************************************************************************)
(* disasm_inst: the opcode and the operands that are printed, without      *)
(* their layout.  One word, lui x6, 49, is printed as a greeting.          *)
(***************************************************************************)
Greeting == Word32(3, 4919)  \* 0x31337

(* The rounding modes 5 and 6 are both printed as "inv".                   *)
Invalid == {0, 2}
Printed(dec, field) ==
  IF field = "rm" /\ dec.rm = {1, 2} THEN Invalid ELSE dec[field]

format_inst(dec) ==
  LET fields == Format(dec.op)
  IN  [ op |-> dec.op, args |-> [k \in DOMAIN fields |-> Printed(dec, fields[k])] ]

disasm_inst(instr) ==
  IF instr = Greeting THEN [op |-> "HACK THE PLANET", args |-> << >>]
  ELSE format_inst(lift_pseudo(decompress_inst_rv32(decode(instr))))

=============================================================================
