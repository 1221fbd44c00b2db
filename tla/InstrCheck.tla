----------------------------- MODULE InstrCheck -----------------------------
(***************************************************************************)
(* A test bench for one instruction in the execute stage: choices of       *)
(* opcode, funct3, funct7 and register fields, stepped through pairs of    *)
(* register values.  What the datapath writes back is compared with the    *)
(* meaning of the mnemonic that the simulator's own disassembler gives the *)
(* word, and what the disassembler prints with the word itself.            *)
(***************************************************************************)
EXTENDS Datapath, Sequences

D == INSTANCE Reassembly

CONSTANTS
  ByFunct7,       \* opcodes the CPU does not implement, and for which every
                  \* value of inst[31:25] is taken
  OtherOpcodes,   \* others, taken with
  OtherFunct7s,   \* these values of inst[31:25]
  RdFields,       \* the values of inst[11:7]
  Rs1Fields,      \* the values of inst[19:15]
  Rs2Fields,      \* the values of inst[24:20]: rs2, shift amount, low immediate
  OperandPairs    \* a sequence of pairs of register values <<rs1, rs2>>

ASSUME OperandsAssumption == OperandPairs \in Seq(Word \X Word) \ {<<>>}

VARIABLES
  instr,          \* the instruction in EX
  pair            \* the index of the operand pair it is applied to

vars == <<instr, pair>>

Words32(opcodes, funct7s) ==
  { op \cup Cat(f3, 12, {}) \cup Cat(f7, 25, {}) \cup D!Placed(d, s1, s2) :
      op \in opcodes, f3 \in Vec(3), f7 \in funct7s, d \in RdFields,
      s1 \in Rs1Fields, s2 \in Rs2Fields }

(* One or two bits outside the opcode: a bit of an immediate in the wrong  *)
(* place shows when it is alone.                                           *)
Sparse(opcodes) == { op \cup {i, j} : op \in opcodes, i, j \in 7 .. 31 }

(* What has a 16-bit encoding in its lower half, whose upper half is to be *)
(* ignored; here it repeats the lower half.                                *)
Halves     == { h \in Vec(16) : ~ Ones(2) \subseteq h }
Compressed == { h \cup Cat(h, 16, {}) : h \in Halves }

Init ==
  \/ /\ instr \in Words32({OP_R, OP_I, OP_SYSTEM}, Vec(7))
     /\ pair = 1
  \/ /\ \/ instr \in Words32(ByFunct7, Vec(7))
        \/ instr \in Words32({OP_U} \cup OtherOpcodes, OtherFunct7s)
        \/ instr \in Sparse({OP_R, OP_I, OP_U, OP_SYSTEM} \cup ByFunct7 \cup OtherOpcodes)
        \/ instr \in Compressed
     /\ pair = Len(OperandPairs)

NextPair ==
  /\ pair < Len(OperandPairs)
  /\ pair' = pair + 1
  /\ UNCHANGED instr

Spec == Init /\ [][NextPair]_vars

-----------------------------------------------------------------------------

(* tests/_test_randomized.py: the operations the CPU implements.           *)
r_ops == {"add", "sub", "and", "or", "xor", "sll", "sra",
          "srl", "slt", "sltu", "mul", "mulh", "mulhu"}
i_ops == {"addi", "andi", "ori", "xori", "slli", "srai", "srli"}
u_ops == {"lui"}

Implemented == r_ops \cup i_ops \cup u_ops

(* None of them is the name of an atomic or a floating-point instruction,  *)
(* which ends in the types of its operands.                                *)
Operations ==
  { "amoadd", "amoswap", "lr", "sc", "amoxor", "amoor", "amoand", "amomin", "amomax",
    "amominu", "amomaxu", "fmadd", "fmsub", "fnmsub", "fnmadd", "fadd", "fsub", "fmul",
    "fdiv", "fsgnj", "fsgnjn", "fsgnjx", "fmin", "fmax", "fcvt", "fle", "flt", "feq",
    "fsqrt", "fmv.x", "fclass", "fmv" }
Types == { "s", "d", "q", "w", "wu", "l", "lu", "x" }

ASSUME DottedNames ==
  \A operation \in Operations, type \in Types \cup { D!Dotted(t, u) : t, u \in Types } :
    D!Dotted(operation, type) \notin Implemented

shifts_i == {"slli", "srai", "srli"}

(* The operation an immediate form applies.                                *)
Base(name) ==
  LET forms == [addi |-> "add", andi |-> "and", ori |-> "or", xori |-> "xor",
                slli |-> "sll", srai |-> "sra", srli |-> "srl"]
  IN  IF name \in i_ops THEN forms[name] ELSE name

Arithmetic(v, n) == IF 31 \in v THEN ShiftRight(32, v, n) \cup (32 - n .. 31)
                                ELSE ShiftRight(32, v, n)
Truth(b) == IF b THEN One ELSE {}

Meaning(name, a, b) ==
  LET n == Num(Slice(b, 4, 0)) IN
  CASE name = "add"   -> Add(32, a, b)
    [] name = "sub"   -> Add(32, a, Add(32, Not(32, b), One))
    [] name = "and"   -> a \cap b
    [] name = "or"    -> a \cup b
    [] name = "xor"   -> (a \cup b) \ (a \cap b)
    [] name = "sll"   -> ShiftLeft(32, a, n)
    [] name = "srl"   -> ShiftRight(32, a, n)
    [] name = "sra"   -> Arithmetic(a, n)
    [] name = "slt"   -> Truth(LessSigned(32, a, b))
    [] name = "sltu"  -> Truth(LessUnsigned(32, a, b))
    [] name = "mul"   -> Mul(32, a, b)
    [] name = "mulh"  -> Slice(Mul(64, SignExtend(64, 32, a), SignExtend(64, 32, b)), 63, 32)
    [] name = "mulhu" -> Slice(Mul(64, a, b), 63, 32)

-----------------------------------------------------------------------------

name == D!mnemonic(instr)
a    == OperandPairs[pair][1]
b    == OperandPairs[pair][2]

WrittenBack == writedata(regsel(instr), AluResult(instr, a, b), imm_u(instr), {})

SecondOperand ==
  CASE name \in shifts_i         -> D!operand_shamt7(instr)
    [] name \in i_ops \ shifts_i -> D!operand_imm12(instr)
    [] OTHER                     -> b

(* RV32 has no shift by 32 or more.  riscv-disas.c prints one, as it looks *)
(* at inst[31:27] alone; control.sv compares all of inst[31:25] and leaves *)
(* aluop at its default, which is and.                                     *)
IsWideShift == name \in shifts_i /\ D!Field(instr, 26, 25) # 0

(***************************************************************************)
(* An instruction the disassembler gives the name of an implemented        *)
(* operation writes the result of that operation to its rd and nothing to  *)
(* the display: control.sv, the immediate mux and the ALU agree with       *)
(* riscv-disas.c on every encoding but one kind.  A word with the name of  *)
(* a shift by an immediate of 32 or more, which should not have a name,    *)
(* is executed as andi with the whole of its immediate.                    *)
(***************************************************************************)
ExecutesItsMnemonic ==
  /\ name \in r_ops \cup i_ops =>
       /\ regwe(instr) /\ ~hexwe(instr)
       /\ WrittenBack = IF IsWideShift THEN Meaning("and", a, D!operand_imm12(instr))
                                       ELSE Meaning(Base(name), a, SecondOperand)
  /\ name \in u_ops =>
       /\ regwe(instr) /\ ~hexwe(instr)
       /\ WrittenBack = D!operand_imm20(instr)

(***************************************************************************)
(* Among the instructions with the opcode of a system instruction only     *)
(* csrrw has an effect, and exactly one: it writes the display when it     *)
(* names the display's register, and else a register from the switches.    *)
(***************************************************************************)
SystemIsCsrrwOnly ==
  opcode(instr) = OP_SYSTEM =>
    /\ (name = "csrrw") <=> (regwe(instr) \/ hexwe(instr))
    /\ hexwe(instr) => D!operand_csr12(instr) = CSR_HEX
    /\ name = "csrrw" /\ D!operand_csr12(instr) # CSR_HEX => regsel(instr) = 0
    /\ ~(regwe(instr) /\ hexwe(instr))

-----------------------------------------------------------------------------

(* "ret" is printed for a jump to ra plus any offset, "inv" for either of  *)
(* two rounding modes.                                                     *)
LosesItsOffset(text) == text.op = "ret" /\ D!operand_imm12(instr) # {}
LosesItsRounding(d)  == d.rm = D!Invalid

IsCompressed == ~ Ones(2) \subseteq instr

(* The text, and the instruction d that it stands for, identify the word.  *)
IsReadBack(text, d) ==
  \/ LosesItsOffset(text) \/ LosesItsRounding(d)
  \/ d.op = name /\ D!Encodes(d, instr)

(***************************************************************************)
(* The text of a probe says which instruction is in the pipeline: read as  *)
(* assembly language, pseudo-instructions included, it gives the mnemonic  *)
(* and every operand bit of the word back.  riscv-disas.c breaks this only *)
(* where it prints a greeting, where "ret" hides an offset and where "inv" *)
(* stands for two rounding modes.                                          *)
(***************************************************************************)
TextDeterminesInstruction ==
  \/ IsCompressed \/ instr = D!Greeting
  \/ LET text == D!disasm_inst(instr) IN IsReadBack(text, D!Expand(text))

(* c.andi with an immediate of 0, an instruction that clears a register.   *)
IsAndiZero == D!mnemonic(instr) = "c.andi" /\ D!operand_cimmi(instr) = {}

(***************************************************************************)
(* The text of a compressed instruction, read as assembly language, is an  *)
(* instruction that its 16 bits stand for: the registers, the pieces of    *)
(* the immediate and the expansion are all right, whatever is in the upper *)
(* half of the word.  "illegal" is what is reserved or without effect, but *)
(* for one instruction, which the table asks for a nonzero immediate.      *)
(***************************************************************************)
CompressedTextDeterminesInstruction ==
  LET text == D!disasm_inst(instr)
      half == instr \cap 0 .. 15
  IN  IsCompressed =>
        IF text.op = D!Illegal THEN D!ReservedOrHint(half) \/ IsAndiZero
                               ELSE D!Compresses(D!Expand(text), half)

=============================================================================
