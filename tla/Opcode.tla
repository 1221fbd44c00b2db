------------------------------- MODULE Opcode -------------------------------
(***************************************************************************)
(* support/riscv-disas.c, decode_inst_opcode: the mnemonic of an           *)
(* instruction word, 16-bit encodings included, for isa = rv32, which is   *)
(* what every caller passes.  It decodes a word independently of           *)
(* rtl/control.sv, and more finely: most of what it names, the CPU does    *)
(* not implement.                                                          *)
(***************************************************************************)
EXTENDS Words, Sequences

(* (inst >> lo) & mask, as a number.                                       *)
Field(instr, hi, lo) == Num(Slice(instr, hi, lo))

funct3(instr) == Field(instr, 14, 12)

Illegal == "illegal"

(* A switch, as rows <<case, mnemonic>>; its default leaves the opcode     *)
(* illegal.                                                                *)
Named(rows, key) ==
  IF \E row \in rows : row[1] = key THEN (CHOOSE row \in rows : row[1] = key)[2]
                                   ELSE Illegal

(***************************************************************************)
(* decode_inst_opcode, one definition per major opcode.                    *)
(***************************************************************************)
Load(instr) ==
  << "lb", "lh", "lw", "ld", "lbu", "lhu", "lwu", "ldu" >>[funct3(instr) + 1]

MiscMem(instr) == Named({ <<0, "fence">>, <<1, "fence.i">>, <<2, "lq">> }, funct3(instr))

(* A shift by an immediate is told by inst[31:27].                         *)
OpImm(instr) ==
  LET shift == Field(instr, 31, 27) IN
  CASE funct3(instr) = 1 -> Named({ <<0, "slli">> }, shift)
    [] funct3(instr) = 5 -> Named({ <<0, "srli">>, <<8, "srai">> }, shift)
    [] OTHER -> Named({ <<0, "addi">>, <<2, "slti">>, <<3, "sltiu">>, <<4, "xori">>,
                        <<6, "ori">>, <<7, "andi">> }, funct3(instr))

OpImmW(instr) ==
  LET shift == Field(instr, 31, 25) IN
  CASE funct3(instr) = 0 -> "addiw"
    [] funct3(instr) = 1 -> Named({ <<0, "slliw">> }, shift)
    [] funct3(instr) = 5 -> Named({ <<0, "srliw">>, <<32, "sraiw">> }, shift)
    [] OTHER             -> Illegal

Store(instr) ==
  Named({ <<0, "sb">>, <<1, "sh">>, <<2, "sw">>, <<3, "sd">>, <<4, "sq">> }, funct3(instr))

(* The key of the register operations is 8 * funct7 + funct3.              *)
Key(instr) == 8 * Field(instr, 31, 25) + funct3(instr)

OpNames ==
  << "add", "sll", "slt", "sltu", "xor", "srl", "or", "and",
     "mul", "mulh", "mulhsu", "mulhu", "div", "divu", "rem", "remu" >>

Op(instr) ==
  IF Key(instr) \in 0 .. 15 THEN OpNames[Key(instr) + 1]
  ELSE Named({ <<256, "sub">>, <<261, "sra">> }, Key(instr))

OpW(instr) ==
  Named({ <<0, "addw">>, <<1, "sllw">>, <<5, "srlw">>, <<8, "mulw">>, <<12, "divw">>,
          <<13, "divuw">>, <<14, "remw">>, <<15, "remuw">>, <<256, "subw">>,
          <<261, "sraw">> }, Key(instr))

Branch(instr) ==
  Named({ <<0, "beq">>, <<1, "bne">>, <<4, "blt">>, <<5, "bge">>, <<6, "bltu">>,
          <<7, "bgeu">> }, funct3(instr))

Jalr(instr) == Named({ <<0, "jalr">> }, funct3(instr))

(* funct3 = 0 of the system opcode, by inst[31:25], inst[24:20] and the    *)
(* registers.                                                              *)
Privileged(instr) ==
  LET funct7 == Field(instr, 31, 25)
      rs2    == Field(instr, 24, 20)
      noRs1  == Slice(instr, 19, 15) = {}
  IN  CASE Slice(instr, 11, 7) # {}                 -> Illegal
        [] funct7 = 8 /\ rs2 = 4                    -> "sfence.vm"
        [] funct7 = 9                               -> "sfence.vma"
        [] funct7 = 0 /\ noRs1                      ->
             Named({ <<0, "ecall">>, <<1, "ebreak">>, <<2, "uret">> }, rs2)
        [] funct7 = 8 /\ noRs1 /\ rs2 # 4           ->
             Named({ <<2, "sret">>, <<5, "wfi">> }, rs2)
        [] funct7 = 16 /\ noRs1 /\ rs2 = 2          -> "hret"
        [] funct7 = 24 /\ noRs1 /\ rs2 = 2          -> "mret"
        [] funct7 = 61 /\ noRs1 /\ rs2 = 18         -> "dret"
        [] OTHER                                    -> Illegal

System(instr) ==
  IF funct3(instr) = 0 THEN Privileged(instr)
  ELSE Named({ <<1, "csrrw">>, <<2, "csrrs">>, <<3, "csrrc">>, <<5, "csrrwi">>,
               <<6, "csrrsi">>, <<7, "csrrci">> }, funct3(instr))

OpImmD(instr) ==
  LET shift == Field(instr, 31, 26) IN
  CASE funct3(instr) = 0 -> "addid"
    [] funct3(instr) = 1 -> Named({ <<0, "sllid">> }, shift)
    [] funct3(instr) = 5 -> Named({ <<0, "srlid">>, <<16, "sraid">> }, shift)
    [] OTHER             -> Illegal

OpD(instr) ==
  Named({ <<0, "addd">>, <<1, "slld">>, <<5, "srld">>, <<8, "muld">>, <<12, "divd">>,
          <<13, "divud">>, <<14, "remd">>, <<15, "remud">>, <<256, "subd">>,
          <<261, "srad">> }, Key(instr))

(***************************************************************************)
(* Atomics and floating point.  The type of the operands follows the name  *)
(* after a dot; that of floating-point operands is in inst[26:25].         *)
(***************************************************************************)
Dotted(name, suffix) ==
  IF Illegal \in {name, suffix} THEN Illegal ELSE name \o "." \o suffix

Atomic(instr) ==
  LET name == Named({ <<0, "amoadd">>, <<1, "amoswap">>, <<2, "lr">>, <<3, "sc">>, <<4, "amoxor">>,
                      <<8, "amoor">>, <<12, "amoand">>, <<16, "amomin">>, <<20, "amomax">>,
                      <<24, "amominu">>, <<28, "amomaxu">> }, Field(instr, 31, 27))
  IN  IF name = "lr" /\ Field(instr, 24, 20) # 0 THEN Illegal
      ELSE Dotted(name, Named({ <<2, "w">>, <<3, "d">>, <<4, "q">> }, funct3(instr)))

Floats          == { <<0, "s">>, <<1, "d">>, <<3, "q">> }
Integers32And64 == { <<0, "w">>, <<1, "wu">>, <<2, "l">>, <<3, "lu">> }
type(instr)     == Named(Floats, Field(instr, 26, 25))

LoadFP(instr)  == Named({ <<2, "flw">>, <<3, "fld">>, <<4, "flq">> }, funct3(instr))
StoreFP(instr) == Named({ <<2, "fsw">>, <<3, "fsd">>, <<4, "fsq">> }, funct3(instr))

FusedMultiply(instr) ==
  Dotted(<< "fmadd", "fmsub", "fnmsub", "fnmadd" >>[Field(instr, 3, 2) + 1], type(instr))

Arithmetic(instr) ==
  Dotted(<< "fadd", "fsub", "fmul", "fdiv" >>[Field(instr, 28, 27) + 1], type(instr))

SignInjection(instr) ==
  Dotted(Named({ <<0, "fsgnj">>, <<1, "fsgnjn">>, <<2, "fsgnjx">> }, funct3(instr)), type(instr))

MinMax(instr) == Dotted(Named({ <<0, "fmin">>, <<1, "fmax">> }, funct3(instr)), type(instr))

(* The conversions, to and from the types that inst[24:20] stands for.     *)
Resize(instr) ==
  LET from == Named(Floats, Field(instr, 24, 20))
  IN  IF from = type(instr) THEN Illegal ELSE Dotted("fcvt", Dotted(type(instr), from))

ToInteger(instr) ==
  Dotted("fcvt", Dotted(Named(Integers32And64, Field(instr, 24, 20)), type(instr)))

FromInteger(instr) ==
  Dotted("fcvt", Dotted(type(instr), Named(Integers32And64, Field(instr, 24, 20))))

Comparison(instr) ==
  Dotted(Named({ <<0, "fle">>, <<1, "flt">>, <<2, "feq">> }, funct3(instr)), type(instr))

SquareRoot(instr)   == Dotted(Named({ <<0, "fsqrt">> }, Field(instr, 24, 20)), type(instr))
UnaryKey(instr)     == 8 * Field(instr, 24, 20) + funct3(instr)
MoveOrClass(instr)  ==
  Dotted(Named({ <<0, "fmv.x">>, <<1, "fclass">> }, UnaryKey(instr)), type(instr))
MoveFromInteger(instr) ==
  Dotted(Named({ <<0, "fmv">> }, UnaryKey(instr)), Dotted(type(instr), "x"))

OpFP(instr) ==
  LET operation == Field(instr, 31, 27) IN
  CASE operation \in 0 .. 3 -> Arithmetic(instr)
    [] operation = 4        -> SignInjection(instr)
    [] operation = 5        -> MinMax(instr)
    [] operation = 8        -> Resize(instr)
    [] operation = 11       -> SquareRoot(instr)
    [] operation = 20       -> Comparison(instr)
    [] operation = 24       -> ToInteger(instr)
    [] operation = 26       -> FromInteger(instr)
    [] operation = 28       -> MoveOrClass(instr)
    [] operation = 30       -> MoveFromInteger(instr)
    [] OTHER                -> Illegal

(***************************************************************************)
(* The 16-bit encodings, by inst[1:0] and inst[15:13].                     *)
(***************************************************************************)
Quadrant0(instr) ==
  Named({ <<0, "c.addi4spn">>, <<1, "c.fld">>, <<2, "c.lw">>, <<3, "c.flw">>,
          <<5, "c.fsd">>, <<6, "c.sw">>, <<7, "c.fsw">> }, Field(instr, 15, 13))

CompressedArithmetic(instr) ==
  CASE Field(instr, 11, 10) = 0 -> "c.srli"
    [] Field(instr, 11, 10) = 1 -> "c.srai"
    [] Field(instr, 11, 10) = 2 -> "c.andi"
    [] OTHER -> Named({ <<0, "c.sub">>, <<1, "c.xor">>, <<2, "c.or">>, <<3, "c.and">>,
                        <<4, "c.subw">>, <<5, "c.addw">> },
                      4 * Field(instr, 12, 12) + Field(instr, 6, 5))

Quadrant1(instr) ==
  CASE Field(instr, 15, 13) = 0 -> IF Slice(instr, 12, 2) = {} THEN "c.nop" ELSE "c.addi"
    [] Field(instr, 15, 13) = 3 -> IF Field(instr, 11, 7) = 2 THEN "c.addi16sp" ELSE "c.lui"
    [] Field(instr, 15, 13) = 4 -> CompressedArithmetic(instr)
    [] OTHER -> Named({ <<1, "c.jal">>, <<2, "c.li">>, <<5, "c.j">>, <<6, "c.beqz">>,
                        <<7, "c.bnez">> }, Field(instr, 15, 13))

CompressedJumpOrMove(instr) ==
  LET noRs2 == Slice(instr, 6, 2) = {} IN
  IF 12 \notin instr THEN IF noRs2 THEN "c.jr" ELSE "c.mv"
  ELSE IF ~noRs2 THEN "c.add"
  ELSE IF Slice(instr, 11, 7) = {} THEN "c.ebreak" ELSE "c.jalr"

Quadrant2(instr) ==
  IF Field(instr, 15, 13) = 4 THEN CompressedJumpOrMove(instr)
  ELSE Named({ <<0, "c.slli">>, <<1, "c.fldsp">>, <<2, "c.lwsp">>, <<3, "c.flwsp">>,
               <<5, "c.fsdsp">>, <<6, "c.swsp">>, <<7, "c.fswsp">> }, Field(instr, 15, 13))

-----------------------------------------------------------------------------

Major(instr) ==
  LET major == Field(instr, 6, 2) IN
  CASE major = 0  -> Load(instr)
    [] major = 1  -> LoadFP(instr)
    [] major = 3  -> MiscMem(instr)
    [] major = 4  -> OpImm(instr)
    [] major = 5  -> "auipc"
    [] major = 6  -> OpImmW(instr)
    [] major = 8  -> Store(instr)
    [] major = 9  -> StoreFP(instr)
    [] major = 11 -> Atomic(instr)
    [] major = 12 -> Op(instr)
    [] major = 13 -> "lui"
    [] major = 14 -> OpW(instr)
    [] major \in 16 .. 19 -> FusedMultiply(instr)
    [] major = 20 -> OpFP(instr)
    [] major = 22 -> OpImmD(instr)
    [] major = 24 -> Branch(instr)
    [] major = 25 -> Jalr(instr)
    [] major = 27 -> "jal"
    [] major = 28 -> System(instr)
    [] major = 30 -> OpD(instr)
    [] OTHER      -> Illegal

mnemonic(instr) ==
  CASE Field(instr, 1, 0) = 0 -> Quadrant0(instr)
    [] Field(instr, 1, 0) = 1 -> Quadrant1(instr)
    [] Field(instr, 1, 0) = 2 -> Quadrant2(instr)
    [] OTHER                  -> Major(instr)

=============================================================================
