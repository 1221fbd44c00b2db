---------------------------- MODULE InstrProofs ----------------------------
(***************************************************************************)
(* Theorems about one instruction in the execute stage, for every word and *)
(* every pair of register values.                                          *)
(***************************************************************************)
EXTENDS InstrCheck, WordsProofs

-----------------------------------------------------------------------------
(***************************************************************************)
(* The fields that the disassembler and the decoder read.                  *)
(***************************************************************************)

(* The disassembler's operators on words are those of the datapath.        *)
LEMMA NumOfDisasm == ASSUME NEW v PROVE D!Num(v) = Num(v)
  BY DEF D!Num, Num, D!MapThenSumSet, MapThenSumSet, D!MapThenFoldSet, MapThenFoldSet

LEMMA SliceOfDisasm ==
  ASSUME NEW v, NEW hi, NEW lo
  PROVE  D!Slice(v, hi, lo) = Slice(v, hi, lo)
  BY DEF D!Slice, Slice, D!Bits, Bits

LEMMA FieldOfDisasm ==
  ASSUME NEW hi, NEW lo
  PROVE  D!Field(instr, hi, lo) = Num(Slice(instr, hi, lo))
  BY NumOfDisasm, SliceOfDisasm DEF D!Field

(* The opcodes of the CPU, bit by bit.                                     *)
LEMMA Opcodes ==
  /\ OP_R = {0, 1, 4, 5} /\ OP_I = {0, 1, 4}
  /\ OP_U = {0, 1, 2, 4, 5} /\ OP_SYSTEM = {0, 1, 4, 5, 6}
  <1>1. \A n \in Nat : Lit(7, n) \subseteq 0 .. 6
    BY DEF Lit, Bits
  <1>2. OP_R = {0, 1, 4, 5}
    BY <1>1, LitOf7Bits, 51 \in Nat DEF OP_R, IsOdd
  <1>3. OP_I = {0, 1, 4}
    BY <1>1, LitOf7Bits, 19 \in Nat DEF OP_I, IsOdd
  <1>4. OP_U = {0, 1, 2, 4, 5}
    BY <1>1, LitOf7Bits, 55 \in Nat DEF OP_U, IsOdd
  <1>5. OP_SYSTEM = {0, 1, 4, 5, 6}
    BY <1>1, LitOf7Bits, 115 \in Nat DEF OP_SYSTEM, IsOdd
  <1> QED
    BY <1>2, <1>3, <1>4, <1>5

LEMMA OpcodeBits ==
  ASSUME NEW i \in 0 .. 6
  PROVE  i \in opcode(instr) <=> i \in instr
  BY DEF opcode, Slice, Bits

LEMMA SliceType ==
  ASSUME NEW v, NEW hi \in Nat, NEW lo \in 0 .. hi
  PROVE  Slice(v, hi, lo) \in Vec(hi - lo + 1)
  BY DEF Slice, Vec

(* The disassembler splits the opcode into its two low bits and the rest.  *)
LEMMA OpcodeFields ==
  /\ D!Field(instr, 1, 0) = Bit(opcode(instr), 0, 1) + Bit(opcode(instr), 1, 2)
  /\ D!Field(instr, 6, 2) = Bit(opcode(instr), 2, 1) + Bit(opcode(instr), 3, 2)
                              + Bit(opcode(instr), 4, 4) + Bit(opcode(instr), 5, 8)
                              + Bit(opcode(instr), 6, 16)
  <1> DEFINE low == Slice(instr, 1, 0)
             major == Slice(instr, 6, 2)
  <1>1. low \in Vec(2) /\ major \in Vec(5)
    BY DEF Slice, Bits, Vec
  <1>2. \A i \in 0 .. 1 : i \in low <=> i \in opcode(instr)
    BY DEF Slice, Bits, opcode
  <1>3. \A i \in 0 .. 4 : i \in major <=> i + 2 \in opcode(instr)
    BY DEF Slice, Bits, opcode
  <1>4. D!Field(instr, 1, 0) = Num(low) /\ D!Field(instr, 6, 2) = Num(major)
    BY FieldOfDisasm
  <1> HIDE DEF low, major
  <1>5. Num(low) = Bit(low, 0, 1) + Bit(low, 1, 2)
    BY <1>1, NumOf2Bits
  <1>6. Num(major) = Bit(major, 0, 1) + Bit(major, 1, 2) + Bit(major, 2, 4)
                       + Bit(major, 3, 8) + Bit(major, 4, 16)
    BY <1>1, NumOf5Bits
  <1>7. /\ 0 \in low <=> 0 \in opcode(instr)
        /\ 1 \in low <=> 1 \in opcode(instr)
    BY <1>2
  <1>8. /\ 0 \in major <=> 2 \in opcode(instr)
        /\ 1 \in major <=> 3 \in opcode(instr)
        /\ 2 \in major <=> 4 \in opcode(instr)
        /\ 3 \in major <=> 5 \in opcode(instr)
        /\ 4 \in major <=> 6 \in opcode(instr)
    BY <1>3
  <1> QED
    BY <1>4, <1>5, <1>6, <1>7, <1>8 DEF Bit

LEMMA MajorOf ==
  /\ opcode(instr) = OP_R => D!Field(instr, 1, 0) = 3 /\ D!Field(instr, 6, 2) = 12
  /\ opcode(instr) = OP_I => D!Field(instr, 1, 0) = 3 /\ D!Field(instr, 6, 2) = 4
  /\ opcode(instr) = OP_U => D!Field(instr, 1, 0) = 3 /\ D!Field(instr, 6, 2) = 13
  /\ opcode(instr) = OP_SYSTEM => D!Field(instr, 1, 0) = 3 /\ D!Field(instr, 6, 2) = 28
  BY Opcodes, OpcodeFields DEF Bit

(* And conversely.                                                         *)
LEMMA OpcodeOf ==
  ASSUME D!Field(instr, 1, 0) = 3
  PROVE  /\ D!Field(instr, 6, 2) = 12 => opcode(instr) = OP_R
         /\ D!Field(instr, 6, 2) = 4 => opcode(instr) = OP_I
         /\ D!Field(instr, 6, 2) = 13 => opcode(instr) = OP_U
  <1>1. opcode(instr) \subseteq 0 .. 6
    BY DEF opcode, Slice, Bits
  <1>2. 0 \in opcode(instr) /\ 1 \in opcode(instr)
    BY OpcodeFields DEF Bit
  <1>3. CASE D!Field(instr, 6, 2) = 12
    BY <1>1, <1>2, <1>3, OpcodeFields, Opcodes DEF Bit
  <1>4. CASE D!Field(instr, 6, 2) = 4
    BY <1>1, <1>2, <1>4, OpcodeFields, Opcodes DEF Bit
  <1>5. CASE D!Field(instr, 6, 2) = 13
    BY <1>1, <1>2, <1>5, OpcodeFields, Opcodes DEF Bit
  <1> QED
    BY <1>3, <1>4, <1>5

-----------------------------------------------------------------------------
(***************************************************************************)
(* The names that the disassembler gives.                                  *)
(***************************************************************************)

LEMMA NamedByRow ==
  ASSUME NEW rows, NEW key
  PROVE  \/ D!Named(rows, key) = D!Illegal
         \/ \E row \in rows : row[1] = key /\ D!Named(rows, key) = row[2]
  BY DEF D!Named

LEMMA NamedIn ==
  ASSUME NEW rows, NEW key
  PROVE  D!Named(rows, key) \in {D!Illegal} \cup { row[2] : row \in rows }
  BY DEF D!Named

LEMMA Funct3Of == D!funct3(instr) = Num(funct3(instr)) /\ D!funct3(instr) \in 0 .. 7
  <1>1. Slice(instr, 14, 12) \in Vec(3)
    BY DEF Slice, Bits, Vec
  <1> QED
    BY <1>1, NumOf3Bits, FieldOfDisasm DEF D!funct3, funct3, Bit

LEMMA Funct3IsOne == funct3(instr) = Lit(3, 1) <=> D!funct3(instr) = 1
  <1> DEFINE v == funct3(instr)
  <1>1. v \in Vec(3)
    BY DEF funct3, Slice, Bits, Vec
  <1>2. Lit(3, 1) = {0}
    <2>1. /\ 2^0 = 1 /\ 2^1 = 2 /\ 2^2 = 4
          /\ (1 \div 1) % 2 = 1 /\ (1 \div 2) % 2 = 0 /\ (1 \div 4) % 2 = 0
      OBVIOUS
    <2>2. Bits(3) = {0, 1, 2}
      BY DEF Bits
    <2> QED
      BY <2>1, <2>2 DEF Lit
  <1> HIDE DEF v
  <1>3. Num(v) = 1 <=> 0 \in v /\ 1 \notin v /\ 2 \notin v
    BY <1>1, NumOf3Bits DEF Bit
  <1>4. v = {0} <=> 0 \in v /\ 1 \notin v /\ 2 \notin v
    <2>1. \A i \in v : i \in {0, 1, 2}
      BY <1>1 DEF Vec, Bits
    <2>2. ASSUME 0 \in v, 1 \notin v, 2 \notin v PROVE v = {0}
      BY <2>1, <2>2
    <2> QED
      BY <2>2
  <1> QED
    BY <1>2, <1>3, <1>4, Funct3Of DEF v

LEMMA SystemNames ==
  ASSUME NEW f \in 0 .. 7, D!funct3(instr) = f, f # 0
  PROVE  D!System(instr) = "csrrw" <=> f = 1
  <1> DEFINE rows == { <<1, "csrrw">>, <<2, "csrrs">>, <<3, "csrrc">>, <<5, "csrrwi">>,
                       <<6, "csrrsi">>, <<7, "csrrci">> }
  <1>1. D!System(instr) = D!Named(rows, f)
    BY DEF D!System
  <1>2. \A row \in rows : row[1] = 1 <=> row[2] = "csrrw"
    OBVIOUS
  <1>3. \E row \in rows : row[1] = 1
    OBVIOUS
  <1> HIDE DEF rows
  <1> QED
    BY <1>1, <1>2, <1>3 DEF D!Named, D!Illegal

LEMMA CsrrwOf ==
  ASSUME opcode(instr) = OP_SYSTEM
  PROVE  name = "csrrw" <=> isCSRRW(instr)
  <1>1. name = D!System(instr)
    <2>1. D!Field(instr, 1, 0) = 3 /\ D!Field(instr, 6, 2) = 28
      BY MajorOf
    <2>2. name = D!Major(instr)
      BY <2>1 DEF name, D!mnemonic
    <2> QED
      BY <2>1, <2>2 DEF D!Major
  <1>2. D!Privileged(instr) # "csrrw"
    <2> DEFINE rs2Field == D!Field(instr, 24, 20)
               calls == D!Named({ <<0, "ecall">>, <<1, "ebreak">>, <<2, "uret">> }, rs2Field)
               waits == D!Named({ <<2, "sret">>, <<5, "wfi">> }, rs2Field)
    <2>1. calls # "csrrw" /\ waits # "csrrw"
      BY NamedIn DEF D!Illegal
    <2> HIDE DEF calls, waits
    <2>2. D!Privileged(instr) \in { D!Illegal, "sfence.vm", "sfence.vma", calls, waits,
                                    "hret", "mret", "dret" }
      BY DEF D!Privileged, calls, waits
    <2> QED
      BY <2>1, <2>2 DEF D!Illegal
  <1>3. D!funct3(instr) = 0 => D!System(instr) # "csrrw"
    BY <1>2 DEF D!System
  <1>4. D!funct3(instr) # 0 => (D!System(instr) = "csrrw" <=> D!funct3(instr) = 1)
    BY Funct3Of, SystemNames
  <1> QED
    BY <1>1, <1>3, <1>4, Funct3IsOne DEF isCSRRW

(***************************************************************************)
(* For every instruction word: among the system instructions csrrw has an  *)
(* effect and no other, and it is a write of the display or a read of the  *)
(* switches, never both.                                                   *)
(***************************************************************************)
THEOREM SystemIsOnlyCsrrw == Spec => []SystemIsCsrrwOnly
  <1>1. SystemIsCsrrwOnly
    <2> SUFFICES ASSUME opcode(instr) = OP_SYSTEM
                 PROVE  /\ name = "csrrw" <=> (regwe(instr) \/ hexwe(instr))
                        /\ hexwe(instr) => D!operand_csr12(instr) = CSR_HEX
                        /\ name = "csrrw" /\ D!operand_csr12(instr) # CSR_HEX
                              => regsel(instr) = 0
                        /\ ~(regwe(instr) /\ hexwe(instr))
      BY DEF SystemIsCsrrwOnly
    <2>1. opcode(instr) \notin {OP_R, OP_I, OP_U}
      BY Opcodes
    <2>2. D!operand_csr12(instr) = imm_i(instr)
      BY SliceOfDisasm DEF D!operand_csr12, imm_i
    <2>3. regwe(instr) <=> isCSRRW(instr) /\ imm_i(instr) # CSR_HEX
      BY <2>1 DEF regwe
    <2>4. isCSRRW(instr) => regsel(instr) = 0
      BY <2>1 DEF regsel
    <2> QED
      BY <2>2, <2>3, <2>4, CsrrwOf DEF hexwe
  <1> QED
    BY <1>1, PTL

-----------------------------------------------------------------------------
(***************************************************************************)
(* The words whose name is that of an implemented operation.               *)
(***************************************************************************)

LEMMA IllegalOutside == D!Illegal \notin Implemented
  BY DEF D!Illegal, Implemented, r_ops, i_ops, u_ops

(* A name with a dot in it is not one of theirs.                           *)
LEMMA DottedOutside ==
  ASSUME NEW operation \in Operations \cup {D!Illegal},
         NEW type \in Types \cup { D!Dotted(t, u) : t, u \in Types } \cup {D!Illegal}
  PROVE  D!Dotted(operation, type) \notin Implemented
  <1>1. CASE D!Illegal \in {operation, type}
    BY <1>1, IllegalOutside DEF D!Dotted
  <1>2. CASE D!Illegal \notin {operation, type}
    BY <1>2, DottedNames
  <1> QED
    BY <1>1, <1>2

LEMMA FieldIn ==
  /\ D!Field(instr, 1, 0) \in 0 .. 3
  /\ D!Field(instr, 3, 2) \in 0 .. 3
  /\ D!Field(instr, 28, 27) \in 0 .. 3
  /\ D!Field(instr, 6, 2) \in 0 .. 31
  <1>1. \A lo \in Nat : Slice(instr, lo + 1, lo) \in Vec(2)
    BY DEF Slice, Bits, Vec
  <1>2. \A v \in Vec(2) : Num(v) \in 0 .. 3
    BY NumOf2Bits DEF Bit
  <1>3. Slice(instr, 1, 0) \in Vec(2) /\ Slice(instr, 3, 2) \in Vec(2)
        /\ Slice(instr, 28, 27) \in Vec(2) /\ Slice(instr, 6, 2) \in Vec(5)
    BY DEF Slice, Bits, Vec
  <1>4. \A v \in Vec(5) : Num(v) \in 0 .. 31
    BY NumOf5Bits DEF Bit
  <1> QED
    BY <1>2, <1>3, <1>4, FieldOfDisasm

LEMMA TypeIn == D!type(instr) \in Types \cup {D!Illegal}
  <1>1. D!type(instr) \in {D!Illegal} \cup { row[2] : row \in D!Floats }
    BY NamedIn DEF D!type
  <1> QED
    BY <1>1 DEF D!Floats, Types

LEMMA AtomicOutside == D!Atomic(instr) \notin Implemented
  <1> DEFINE rows == { <<0, "amoadd">>, <<1, "amoswap">>, <<2, "lr">>, <<3, "sc">>,
                       <<4, "amoxor">>, <<8, "amoor">>, <<12, "amoand">>, <<16, "amomin">>,
                       <<20, "amomax">>, <<24, "amominu">>, <<28, "amomaxu">> }
             operation == D!Named(rows, D!Field(instr, 31, 27))
             width == D!Named({ <<2, "w">>, <<3, "d">>, <<4, "q">> }, D!funct3(instr))
  <1>1. operation \in Operations \cup {D!Illegal}
    <2>1. { row[2] : row \in rows } \subseteq Operations
      BY DEF Operations
    <2> HIDE DEF rows
    <2> QED
      BY <2>1, NamedIn
  <1>2. width \in Types \cup {D!Illegal}
    <2>1. width \in {D!Illegal} \cup { row[2] : row \in { <<2, "w">>, <<3, "d">>, <<4, "q">> } }
      BY NamedIn
    <2> QED
      BY <2>1 DEF Types
  <1>3. D!Atomic(instr) \in {D!Illegal, D!Dotted(operation, width)}
    BY DEF D!Atomic
  <1> HIDE DEF operation, width
  <1> QED
    BY <1>1, <1>2, <1>3, DottedOutside, IllegalOutside

LEMMA FloatOutside ==
  /\ D!FusedMultiply(instr) \notin Implemented
  /\ D!Arithmetic(instr) \notin Implemented
  /\ D!SignInjection(instr) \notin Implemented
  /\ D!MinMax(instr) \notin Implemented
  /\ D!Comparison(instr) \notin Implemented
  /\ D!SquareRoot(instr) \notin Implemented
  /\ D!MoveOrClass(instr) \notin Implemented
  <1>1. D!FusedMultiply(instr) \notin Implemented
    <2> DEFINE operation == << "fmadd", "fmsub", "fnmsub", "fnmadd" >>[D!Field(instr, 3, 2) + 1]
    <2>1. operation \in Operations
      BY FieldIn DEF Operations
    <2> HIDE DEF operation
    <2>2. D!Dotted(operation, D!type(instr)) \notin Implemented
      BY <2>1, TypeIn, DottedOutside
    <2> QED
      BY <2>2 DEF D!FusedMultiply, operation
  <1>2. D!Arithmetic(instr) \notin Implemented
    <2> DEFINE operation == << "fadd", "fsub", "fmul", "fdiv" >>[D!Field(instr, 28, 27) + 1]
    <2>1. operation \in Operations
      BY FieldIn DEF Operations
    <2> HIDE DEF operation
    <2>2. D!Dotted(operation, D!type(instr)) \notin Implemented
      BY <2>1, TypeIn, DottedOutside
    <2> QED
      BY <2>2 DEF D!Arithmetic, operation
  <1>3. ASSUME NEW rows, NEW key, \A row \in rows : row[2] \in Operations
        PROVE  D!Dotted(D!Named(rows, key), D!type(instr)) \notin Implemented
    BY <1>3, NamedIn, TypeIn, DottedOutside
  <1>4. D!SignInjection(instr) \notin Implemented
    <2>1. \A row \in { <<0, "fsgnj">>, <<1, "fsgnjn">>, <<2, "fsgnjx">> } :
            row[2] \in Operations
      BY DEF Operations
    <2> QED
      BY <2>1, <1>3 DEF D!SignInjection
  <1>5. D!MinMax(instr) \notin Implemented
    <2>1. \A row \in { <<0, "fmin">>, <<1, "fmax">> } : row[2] \in Operations
      BY DEF Operations
    <2> QED
      BY <2>1, <1>3 DEF D!MinMax
  <1>6. D!Comparison(instr) \notin Implemented
    <2>1. \A row \in { <<0, "fle">>, <<1, "flt">>, <<2, "feq">> } : row[2] \in Operations
      BY DEF Operations
    <2> QED
      BY <2>1, <1>3 DEF D!Comparison
  <1>7. D!SquareRoot(instr) \notin Implemented
    <2>1. \A row \in { <<0, "fsqrt">> } : row[2] \in Operations
      BY DEF Operations
    <2> QED
      BY <2>1, <1>3 DEF D!SquareRoot
  <1>8. D!MoveOrClass(instr) \notin Implemented
    <2>1. \A row \in { <<0, "fmv.x">>, <<1, "fclass">> } : row[2] \in Operations
      BY DEF Operations
    <2> QED
      BY <2>1, <1>3 DEF D!MoveOrClass
  <1> QED
    BY <1>1, <1>2, <1>4, <1>5, <1>6, <1>7, <1>8

(* Two types after a name.                                                 *)
LEMMA TwoTypes ==
  ASSUME NEW t \in Types \cup {D!Illegal}, NEW u \in Types \cup {D!Illegal}
  PROVE  D!Dotted(t, u) \in { D!Dotted(v, w) : v, w \in Types } \cup {D!Illegal}
  <1>1. CASE D!Illegal \in {t, u}
    BY <1>1 DEF D!Dotted
  <1>2. CASE D!Illegal \notin {t, u}
    BY <1>2
  <1> QED
    BY <1>1, <1>2

LEMMA ConversionOutside ==
  /\ D!Resize(instr) \notin Implemented
  /\ D!ToInteger(instr) \notin Implemented
  /\ D!FromInteger(instr) \notin Implemented
  /\ D!MoveFromInteger(instr) \notin Implemented
  <1> DEFINE from == D!Named(D!Floats, D!Field(instr, 24, 20))
             int == D!Named(D!Integers32And64, D!Field(instr, 24, 20))
             move == D!Named({ <<0, "fmv">> }, D!UnaryKey(instr))
  <1>1. from \in Types \cup {D!Illegal}
    <2>1. from \in {D!Illegal} \cup { row[2] : row \in D!Floats }
      BY NamedIn
    <2> QED
      BY <2>1 DEF D!Floats, Types
  <1>2. int \in Types \cup {D!Illegal}
    <2>1. int \in {D!Illegal} \cup { row[2] : row \in D!Integers32And64 }
      BY NamedIn
    <2> QED
      BY <2>1 DEF D!Integers32And64, Types
  <1>3. move \in Operations \cup {D!Illegal}
    <2>1. move \in {D!Illegal} \cup { row[2] : row \in { <<0, "fmv">> } }
      BY NamedIn
    <2> QED
      BY <2>1 DEF Operations
  <1>4. "x" \in Types /\ "fcvt" \in Operations
    BY DEF Types, Operations
  <1> HIDE DEF from, int, move
  <1>5. ASSUME NEW t \in Types \cup {D!Illegal}, NEW u \in Types \cup {D!Illegal},
               NEW operation \in Operations \cup {D!Illegal}
        PROVE  D!Dotted(operation, D!Dotted(t, u)) \notin Implemented
    <2> DEFINE type == D!Dotted(t, u)
    <2>1. type \in { D!Dotted(v, w) : v, w \in Types } \cup {D!Illegal}
      BY TwoTypes
    <2> HIDE DEF type
    <2>2. D!Dotted(operation, type) \notin Implemented
      BY <2>1, DottedOutside
    <2> QED
      BY <2>2 DEF type
  <1>6. D!Resize(instr) \in {D!Illegal, D!Dotted("fcvt", D!Dotted(D!type(instr), from))}
    BY DEF D!Resize, from
  <1>7. D!ToInteger(instr) = D!Dotted("fcvt", D!Dotted(int, D!type(instr)))
    BY DEF D!ToInteger, int
  <1>8. D!FromInteger(instr) = D!Dotted("fcvt", D!Dotted(D!type(instr), int))
    BY DEF D!FromInteger, int
  <1>9. D!MoveFromInteger(instr) = D!Dotted(move, D!Dotted(D!type(instr), "x"))
    BY DEF D!MoveFromInteger, move
  <1> QED
    BY <1>1, <1>2, <1>3, <1>4, <1>5, <1>6, <1>7, <1>8, <1>9, TypeIn, IllegalOutside

LEMMA OpFPOutside == D!OpFP(instr) \notin Implemented
  <1>1. D!OpFP(instr) \in
          { D!Arithmetic(instr), D!SignInjection(instr), D!MinMax(instr), D!Resize(instr),
            D!SquareRoot(instr), D!Comparison(instr), D!ToInteger(instr),
            D!FromInteger(instr), D!MoveOrClass(instr), D!MoveFromInteger(instr), D!Illegal }
    BY DEF D!OpFP
  <1> QED
    BY <1>1, FloatOutside, ConversionOutside, IllegalOutside

(* The names of the other major opcodes.                                   *)
LEMMA NamedOutside ==
  ASSUME NEW rows, NEW key, \A row \in rows : row[2] \notin Implemented
  PROVE  D!Named(rows, key) \notin Implemented
  BY NamedIn, IllegalOutside

LEMMA TablesOutside ==
  /\ D!MiscMem(instr) \notin Implemented
  /\ D!Store(instr) \notin Implemented
  /\ D!OpW(instr) \notin Implemented
  /\ D!Branch(instr) \notin Implemented
  /\ D!Jalr(instr) \notin Implemented
  /\ D!LoadFP(instr) \notin Implemented
  /\ D!StoreFP(instr) \notin Implemented
  /\ D!OpD(instr) \notin Implemented
  <1>1. D!MiscMem(instr) \notin Implemented
    <2> DEFINE rows == { <<0, "fence">>, <<1, "fence.i">>, <<2, "lq">> }
    <2>1. \A row \in rows : row[2] \notin Implemented
      BY DEF Implemented, r_ops, i_ops, u_ops
    <2> QED
      BY <2>1, NamedOutside DEF D!MiscMem
  <1>2. D!Store(instr) \notin Implemented
    <2> DEFINE rows == { <<0, "sb">>, <<1, "sh">>, <<2, "sw">>, <<3, "sd">>,
                       <<4, "sq">> }
    <2>1. \A row \in rows : row[2] \notin Implemented
      BY DEF Implemented, r_ops, i_ops, u_ops
    <2> QED
      BY <2>1, NamedOutside DEF D!Store
  <1>3. D!OpW(instr) \notin Implemented
    <2> DEFINE rows == { <<0, "addw">>, <<1, "sllw">>, <<5, "srlw">>,
                       <<8, "mulw">>, <<12, "divw">>, <<13, "divuw">>,
                       <<14, "remw">>, <<15, "remuw">>, <<256, "subw">>,
                       <<261, "sraw">> }
    <2>1. \A row \in rows : row[2] \notin Implemented
      BY DEF Implemented, r_ops, i_ops, u_ops
    <2> QED
      BY <2>1, NamedOutside DEF D!OpW
  <1>4. D!Branch(instr) \notin Implemented
    <2> DEFINE rows == { <<0, "beq">>, <<1, "bne">>, <<4, "blt">>,
                       <<5, "bge">>, <<6, "bltu">>, <<7, "bgeu">> }
    <2>1. \A row \in rows : row[2] \notin Implemented
      BY DEF Implemented, r_ops, i_ops, u_ops
    <2> QED
      BY <2>1, NamedOutside DEF D!Branch
  <1>5. D!Jalr(instr) \notin Implemented
    <2> DEFINE rows == { <<0, "jalr">> }
    <2>1. \A row \in rows : row[2] \notin Implemented
      BY DEF Implemented, r_ops, i_ops, u_ops
    <2> QED
      BY <2>1, NamedOutside DEF D!Jalr
  <1>6. D!LoadFP(instr) \notin Implemented
    <2> DEFINE rows == { <<2, "flw">>, <<3, "fld">>, <<4, "flq">> }
    <2>1. \A row \in rows : row[2] \notin Implemented
      BY DEF Implemented, r_ops, i_ops, u_ops
    <2> QED
      BY <2>1, NamedOutside DEF D!LoadFP
  <1>7. D!StoreFP(instr) \notin Implemented
    <2> DEFINE rows == { <<2, "fsw">>, <<3, "fsd">>, <<4, "fsq">> }
    <2>1. \A row \in rows : row[2] \notin Implemented
      BY DEF Implemented, r_ops, i_ops, u_ops
    <2> QED
      BY <2>1, NamedOutside DEF D!StoreFP
  <1>8. D!OpD(instr) \notin Implemented
    <2> DEFINE rows == { <<0, "addd">>, <<1, "slld">>, <<5, "srld">>,
                       <<8, "muld">>, <<12, "divd">>, <<13, "divud">>,
                       <<14, "remd">>, <<15, "remud">>, <<256, "subd">>,
                       <<261, "srad">> }
    <2>1. \A row \in rows : row[2] \notin Implemented
      BY DEF Implemented, r_ops, i_ops, u_ops
    <2> QED
      BY <2>1, NamedOutside DEF D!OpD
  <1> QED
    BY <1>1, <1>2, <1>3, <1>4, <1>5, <1>6, <1>7, <1>8

LEMMA ShiftsOutside ==
  /\ D!OpImmW(instr) \notin Implemented
  /\ D!OpImmD(instr) \notin Implemented
  <1> DEFINE shiftW == D!Field(instr, 31, 25)
             shiftD == D!Field(instr, 31, 26)
             leftW == D!Named({ <<0, "slliw">> }, shiftW)
             rightW == D!Named({ <<0, "srliw">>, <<32, "sraiw">> }, shiftW)
             leftD == D!Named({ <<0, "sllid">> }, shiftD)
             rightD == D!Named({ <<0, "srlid">>, <<16, "sraid">> }, shiftD)
  <1>1. /\ leftW \in {D!Illegal, "slliw"} /\ rightW \in {D!Illegal, "srliw", "sraiw"}
        /\ leftD \in {D!Illegal, "sllid"} /\ rightD \in {D!Illegal, "srlid", "sraid"}
    <2>1. ASSUME NEW n, NEW op, NEW key
          PROVE  D!Named({ <<n, op>> }, key) \in {D!Illegal, op}
      BY NamedIn
    <2>2. ASSUME NEW n, NEW op, NEW m, NEW q, NEW key
          PROVE  D!Named({ <<n, op>>, <<m, q>> }, key) \in {D!Illegal, op, q}
      BY NamedIn
    <2> QED
      BY <2>1, <2>2
  <1>2. /\ D!OpImmW(instr) \in {"addiw", leftW, rightW, D!Illegal}
        /\ D!OpImmD(instr) \in {"addid", leftD, rightD, D!Illegal}
    BY DEF D!OpImmW, D!OpImmD
  <1> HIDE DEF leftW, rightW, leftD, rightD
  <1>3. /\ D!OpImmW(instr) \in {"addiw", "slliw", "srliw", "sraiw", D!Illegal}
        /\ D!OpImmD(instr) \in {"addid", "sllid", "srlid", "sraid", D!Illegal}
    BY <1>1, <1>2
  <1> QED
    BY <1>3, IllegalOutside DEF Implemented, r_ops, i_ops, u_ops

LEMMA LoadOutside == D!Load(instr) \notin Implemented
  <1>1. D!Load(instr) \in {"lb", "lh", "lw", "ld", "lbu", "lhu", "lwu", "ldu"}
    BY Funct3Of DEF D!Load
  <1> QED
    BY <1>1 DEF Implemented, r_ops, i_ops, u_ops

LEMMA SystemOutside == D!System(instr) \notin Implemented
  <1> DEFINE rs2Field == D!Field(instr, 24, 20)
             calls == D!Named({ <<0, "ecall">>, <<1, "ebreak">>, <<2, "uret">> }, rs2Field)
             waits == D!Named({ <<2, "sret">>, <<5, "wfi">> }, rs2Field)
             rows == { <<1, "csrrw">>, <<2, "csrrs">>, <<3, "csrrc">>, <<5, "csrrwi">>,
                       <<6, "csrrsi">>, <<7, "csrrci">> }
             csr == D!Named(rows, D!funct3(instr))
  <1>1. calls \notin Implemented
    <2>1. \A row \in { <<0, "ecall">>, <<1, "ebreak">>, <<2, "uret">> } :
            row[2] \notin Implemented
      BY DEF Implemented, r_ops, i_ops, u_ops
    <2> QED
      BY <2>1, NamedOutside
  <1>2. waits \notin Implemented
    <2>1. \A row \in { <<2, "sret">>, <<5, "wfi">> } : row[2] \notin Implemented
      BY DEF Implemented, r_ops, i_ops, u_ops
    <2> QED
      BY <2>1, NamedOutside
  <1>3. csr \notin Implemented
    <2>1. \A row \in rows : row[2] \notin Implemented
      BY DEF Implemented, r_ops, i_ops, u_ops
    <2> QED
      BY <2>1, NamedOutside
  <1>4. D!System(instr) \in {csr, D!Privileged(instr)}
    BY DEF D!System
  <1>5. D!Privileged(instr) \in { D!Illegal, "sfence.vm", "sfence.vma", calls, waits,
                                  "hret", "mret", "dret" }
    BY DEF D!Privileged
  <1>6. { "sfence.vm", "sfence.vma", "hret", "mret", "dret" } \cap Implemented = {}
    BY DEF Implemented, r_ops, i_ops, u_ops
  <1> HIDE DEF calls, waits, csr
  <1> QED
    BY <1>1, <1>2, <1>3, <1>4, <1>5, <1>6, IllegalOutside

LEMMA MajorOutside ==
  ASSUME D!Field(instr, 6, 2) \notin {4, 12, 13}
  PROVE  D!Major(instr) \notin Implemented
  <1> DEFINE others == { D!Load(instr), D!LoadFP(instr), D!MiscMem(instr), D!OpImmW(instr),
                         D!Store(instr), D!StoreFP(instr), D!Atomic(instr), D!OpW(instr),
                         D!FusedMultiply(instr), D!OpFP(instr), D!OpImmD(instr),
                         D!Branch(instr), D!Jalr(instr), D!System(instr), D!OpD(instr) }
  <1>1. D!Major(instr) \in others \cup {"auipc", "jal", D!Illegal}
    BY DEF D!Major
  <1>2. \A op \in others : op \notin Implemented
    BY LoadOutside, ShiftsOutside, TablesOutside, AtomicOutside, FloatOutside,
       OpFPOutside, SystemOutside
  <1>3. {"auipc", "jal"} \cap Implemented = {}
    BY DEF Implemented, r_ops, i_ops, u_ops
  <1> HIDE DEF others
  <1> QED
    BY <1>1, <1>2, <1>3, IllegalOutside

LEMMA CompressedOutside ==
  /\ D!Quadrant0(instr) \notin Implemented
  /\ D!Quadrant1(instr) \notin Implemented
  /\ D!Quadrant2(instr) \notin Implemented
  <1> DEFINE f3 == D!Field(instr, 15, 13)
  <1>1. D!Quadrant0(instr) \notin Implemented
    <2> DEFINE rows == { <<0, "c.addi4spn">>, <<1, "c.fld">>, <<2, "c.lw">>, <<3, "c.flw">>,
                         <<5, "c.fsd">>, <<6, "c.sw">>, <<7, "c.fsw">> }
    <2>1. \A row \in rows : row[2] \notin Implemented
      BY DEF Implemented, r_ops, i_ops, u_ops
    <2> QED
      BY <2>1, NamedOutside DEF D!Quadrant0
  <1>2. D!CompressedArithmetic(instr) \notin Implemented
    <2> DEFINE rows == { <<0, "c.sub">>, <<1, "c.xor">>, <<2, "c.or">>, <<3, "c.and">>,
                         <<4, "c.subw">>, <<5, "c.addw">> }
               op == D!Named(rows, 4 * D!Field(instr, 12, 12) + D!Field(instr, 6, 5))
    <2>1. \A row \in rows : row[2] \notin Implemented
      BY DEF Implemented, r_ops, i_ops, u_ops
    <2>2. op \notin Implemented
      BY <2>1, NamedOutside
    <2>3. D!CompressedArithmetic(instr) \in {"c.srli", "c.srai", "c.andi", op}
      BY DEF D!CompressedArithmetic
    <2>4. {"c.srli", "c.srai", "c.andi"} \cap Implemented = {}
      BY DEF Implemented, r_ops, i_ops, u_ops
    <2> HIDE DEF op
    <2> QED
      BY <2>2, <2>3, <2>4
  <1>3. D!Quadrant1(instr) \notin Implemented
    <2> DEFINE rows == { <<1, "c.jal">>, <<2, "c.li">>, <<5, "c.j">>, <<6, "c.beqz">>,
                         <<7, "c.bnez">> }
               op == D!Named(rows, f3)
               arithmetic == D!CompressedArithmetic(instr)
    <2>1. \A row \in rows : row[2] \notin Implemented
      BY DEF Implemented, r_ops, i_ops, u_ops
    <2>2. op \notin Implemented
      BY <2>1, NamedOutside
    <2>3. D!Quadrant1(instr) \in {"c.nop", "c.addi", "c.addi16sp", "c.lui", arithmetic, op}
      BY DEF D!Quadrant1
    <2>4. {"c.nop", "c.addi", "c.addi16sp", "c.lui"} \cap Implemented = {}
      BY DEF Implemented, r_ops, i_ops, u_ops
    <2> HIDE DEF op, arithmetic
    <2> QED
      BY <1>2, <2>2, <2>3, <2>4 DEF arithmetic
  <1>4. D!Quadrant2(instr) \notin Implemented
    <2> DEFINE rows == { <<0, "c.slli">>, <<1, "c.fldsp">>, <<2, "c.lwsp">>, <<3, "c.flwsp">>,
                         <<5, "c.fsdsp">>, <<6, "c.swsp">>, <<7, "c.fswsp">> }
               op == D!Named(rows, f3)
    <2>1. \A row \in rows : row[2] \notin Implemented
      BY DEF Implemented, r_ops, i_ops, u_ops
    <2>2. op \notin Implemented
      BY <2>1, NamedOutside
    <2>3. D!Quadrant2(instr) \in {op, D!CompressedJumpOrMove(instr)}
      BY DEF D!Quadrant2
    <2>4. D!CompressedJumpOrMove(instr) \in {"c.jr", "c.mv", "c.add", "c.ebreak", "c.jalr"}
      BY DEF D!CompressedJumpOrMove
    <2>5. {"c.jr", "c.mv", "c.add", "c.ebreak", "c.jalr"} \cap Implemented = {}
      BY DEF Implemented, r_ops, i_ops, u_ops
    <2> HIDE DEF op
    <2> QED
      BY <2>2, <2>3, <2>4, <2>5
  <1> QED
    BY <1>1, <1>3, <1>4

(* The disassembler gives the name of an implemented operation only to     *)
(* words with an opcode that the CPU decodes.                              *)
LEMMA ImplementedHere ==
  ASSUME name \in Implemented
  PROVE  \/ opcode(instr) = OP_R /\ name = D!Op(instr)
         \/ opcode(instr) = OP_I /\ name = D!OpImm(instr)
         \/ opcode(instr) = OP_U /\ name = "lui"
  <1>1. D!Field(instr, 1, 0) = 3 /\ name = D!Major(instr)
    <2>1. CASE D!Field(instr, 1, 0) \in 0 .. 2
      <3>1. name \in {D!Quadrant0(instr), D!Quadrant1(instr), D!Quadrant2(instr)}
        BY <2>1 DEF name, D!mnemonic
      <3> QED
        BY <3>1, CompressedOutside
    <2>2. CASE D!Field(instr, 1, 0) = 3
      BY <2>2 DEF name, D!mnemonic
    <2> QED
      BY <2>1, <2>2, FieldIn
  <1>2. D!Field(instr, 6, 2) \in {4, 12, 13}
    BY <1>1, MajorOutside
  <1>3. CASE D!Field(instr, 6, 2) = 4
    BY <1>1, <1>3, OpcodeOf DEF D!Major
  <1>4. CASE D!Field(instr, 6, 2) = 12
    BY <1>1, <1>4, OpcodeOf DEF D!Major
  <1>5. CASE D!Field(instr, 6, 2) = 13
    BY <1>1, <1>5, OpcodeOf DEF D!Major
  <1> QED
    BY <1>2, <1>3, <1>4, <1>5

-----------------------------------------------------------------------------
(***************************************************************************)
(* The control lines of the implemented operations.                        *)
(***************************************************************************)

Funct3 == Num(funct3(instr))
Funct7 == Num(funct7(instr))

LEMMA FunctTypes == Funct3 \in 0 .. 7 /\ Funct7 \in 0 .. 127
  <1>1. funct7(instr) \in Vec(7)
    BY DEF funct7, Slice, Bits, Vec
  <1>2. Funct7 \in 0 .. 127
    BY <1>1, NumOf7Bits DEF Funct7, Bit
  <1> QED
    BY <1>2, Funct3Of DEF Funct3

LEMMA KeyIs == D!Key(instr) = 8 * Funct7 + Funct3
  BY Funct3Of, FieldOfDisasm DEF D!Key, Funct3, Funct7, funct7

(* The name of a register operation determines its two function fields.    *)
LEMMA ROperations ==
  ASSUME D!Op(instr) \in r_ops
  PROVE  <<D!Op(instr), Funct3, Funct7>> \in
           { <<"add", 0, 0>>, <<"sub", 0, 32>>, <<"and", 7, 0>>,
             <<"or", 6, 0>>, <<"xor", 4, 0>>, <<"sll", 1, 0>>,
             <<"sra", 5, 32>>, <<"srl", 5, 0>>, <<"slt", 2, 0>>,
             <<"sltu", 3, 0>>, <<"mul", 0, 1>>, <<"mulh", 1, 1>>,
             <<"mulhu", 3, 1>> }
  <1> DEFINE k == D!Key(instr)
             sparse == D!Named({ <<256, "sub">>, <<261, "sra">> }, k)
  <1>1. k = 8 * Funct7 + Funct3 /\ k \in Nat
    BY KeyIs, FunctTypes
  <1>2. CASE k \in 0 .. 15
    <2>1. D!Op(instr) = D!OpNames[k + 1]
      BY <1>2 DEF D!Op
    <2>2. /\ k < 8 => Funct7 = 0 /\ Funct3 = k
          /\ k >= 8 => Funct7 = 1 /\ Funct3 = k - 8
      BY <1>1, <1>2, FunctTypes
    <2> HIDE DEF k
    <2>3. CASE k \in 0 .. 7
      BY <2>1, <2>2, <2>3 DEF D!OpNames
    <2>4. CASE k \in 8 .. 15
      BY <2>1, <2>2, <2>4 DEF D!OpNames, r_ops
    <2> QED
      BY <1>2, <2>3, <2>4
  <1>3. CASE k \notin 0 .. 15
    <2>1. D!Op(instr) = sparse
      BY <1>3 DEF D!Op
    <2>2. sparse # D!Illegal
      BY <2>1, IllegalOutside DEF Implemented
    <2> HIDE DEF k
    <2>3. <<sparse, k>> \in { <<"sub", 256>>, <<"sra", 261>> }
      BY <2>2, NamedByRow
    <2>4. /\ k = 256 => Funct7 = 32 /\ Funct3 = 0
          /\ k = 261 => Funct7 = 32 /\ Funct3 = 5
      BY <1>1, FunctTypes
    <2> QED
      BY <2>1, <2>3, <2>4
  <1> QED
    BY <1>2, <1>3

(* As the comment in Datapath.tla has it: no two rows match the same word. *)
LEMMA RowsAreDisjoint ==
  ASSUME NEW rows \in {RTypeRows, ITypeRows}, NEW row \in rows, NEW other \in rows,
         row[1] = other[1], NEW f7, f7 \in row[2], f7 \in other[2]
  PROVE  row = other
  <1>1. CASE rows = RTypeRows
    BY <1>1 DEF RTypeRows
  <1>2. CASE rows = ITypeRows
    BY <1>2 DEF ITypeRows
  <1> QED
    BY <1>1, <1>2

LEMMA AluopByRow ==
  ASSUME opcode(instr) \in {OP_R, OP_I},
         NEW rows, rows = IF opcode(instr) = OP_R THEN RTypeRows ELSE ITypeRows,
         NEW row \in rows, Funct3 = row[1], Funct7 \in row[2]
  PROVE  aluop(instr) = row[3]
  <1>1. Matching(rows, instr) = {row}
    BY RowsAreDisjoint DEF Matching, Funct3, Funct7
  <1>2. OP_R # OP_I
    BY Opcodes
  <1>3. aluop(instr) = (CHOOSE r \in {row} : TRUE)[3]
    BY <1>1, <1>2 DEF aluop
  <1> QED
    BY <1>3

(* The ALU's operation code for each operation.                            *)
AluCodes ==
  { <<"add", 3>>, <<"sub", 4>>, <<"and", 0>>, <<"or", 1>>, <<"xor", 2>>, <<"sll", 8>>,
    <<"sra", 10>>, <<"srl", 9>>, <<"slt", 12>>, <<"sltu", 13>>, <<"mul", 5>>, <<"mulh", 6>>,
    <<"mulhu", 7>> }

LEMMA RControl ==
  ASSUME opcode(instr) = OP_R, D!Op(instr) \in r_ops
  PROVE  <<D!Op(instr), aluop(instr)>> \in AluCodes
  <1>1. PICK row \in RTypeRows :
          Funct3 = row[1] /\ Funct7 \in row[2] /\ <<D!Op(instr), row[3]>> \in AluCodes
    BY ROperations DEF RTypeRows, AluCodes
  <1> QED
    BY <1>1, AluopByRow

(* A shift by an immediate is told by the upper five bits of funct7.       *)
LEMMA Funct7Parts == Funct7 = D!Field(instr, 26, 25) + 4 * D!Field(instr, 31, 27)
  <1> DEFINE all == funct7(instr)
             low == Slice(instr, 26, 25)
             high == Slice(instr, 31, 27)
  <1>1. all \in Vec(7) /\ low \in Vec(2) /\ high \in Vec(5)
    BY DEF funct7, Slice, Bits, Vec
  <1>2. /\ \A i \in 0 .. 1 : i \in low <=> i \in all
        /\ \A i \in 0 .. 4 : i \in high <=> i + 2 \in all
    BY DEF funct7, Slice, Bits
  <1>3. /\ 0 \in low <=> 0 \in all
        /\ 1 \in low <=> 1 \in all
        /\ 0 \in high <=> 2 \in all
        /\ 1 \in high <=> 3 \in all
        /\ 2 \in high <=> 4 \in all
        /\ 3 \in high <=> 5 \in all
        /\ 4 \in high <=> 6 \in all
    BY <1>2
  <1>4. /\ Funct7 = Num(all)
        /\ D!Field(instr, 26, 25) = Num(low)
        /\ D!Field(instr, 31, 27) = Num(high)
    BY FieldOfDisasm DEF Funct7
  <1> HIDE DEF all, low, high
  <1>5. Num(low) = Bit(all, 0, 1) + Bit(all, 1, 2)
    BY <1>1, <1>3, NumOf2Bits DEF Bit
  <1>6. Num(high) = Bit(all, 2, 1) + Bit(all, 3, 2) + Bit(all, 4, 4)
                      + Bit(all, 5, 8) + Bit(all, 6, 16)
    BY <1>1, <1>3, NumOf5Bits DEF Bit
  <1>7. Num(all) = Bit(all, 0, 1) + Bit(all, 1, 2) + Bit(all, 2, 4) + Bit(all, 3, 8)
                     + Bit(all, 4, 16) + Bit(all, 5, 32) + Bit(all, 6, 64)
    BY <1>1, NumOf7Bits
  <1> QED
    BY <1>4, <1>5, <1>6, <1>7 DEF Bit

(* The name of an immediate operation determines funct3 and, if it is a    *)
(* shift of RV32, funct7.                                                  *)
LEMMA IOperations ==
  ASSUME D!OpImm(instr) \in i_ops,
         D!OpImm(instr) \in shifts_i => D!Field(instr, 26, 25) = 0
  PROVE  \/ <<D!OpImm(instr), Funct3>> \in
              { <<"addi", 0>>, <<"xori", 4>>, <<"ori", 6>>, <<"andi", 7>> }
         \/ <<D!OpImm(instr), Funct3, Funct7>> \in
              { <<"slli", 1, 0>>, <<"srli", 5, 0>>, <<"srai", 5, 32>> }
  <1> DEFINE shift == D!Field(instr, 31, 27)
             rows == { <<0, "addi">>, <<2, "slti">>, <<3, "sltiu">>, <<4, "xori">>,
                       <<6, "ori">>, <<7, "andi">> }
             left == D!Named({ <<0, "slli">> }, shift)
             right == D!Named({ <<0, "srli">>, <<8, "srai">> }, shift)
             other == D!Named(rows, Funct3)
  <1>1. D!funct3(instr) = Funct3
    BY Funct3Of DEF Funct3
  <1>2. /\ Funct3 = 1 => D!OpImm(instr) = left
        /\ Funct3 = 5 => D!OpImm(instr) = right
        /\ Funct3 \notin {1, 5} => D!OpImm(instr) = other
    BY <1>1 DEF D!OpImm
  <1>3. D!OpImm(instr) # D!Illegal
    BY IllegalOutside DEF Implemented
  <1>4. CASE Funct3 = 1
    <2>1. left = "slli" /\ shift = 0
      BY <1>2, <1>3, <1>4, NamedByRow
    <2> QED
      BY <1>2, <1>4, <2>1, Funct7Parts DEF shifts_i
  <1>5. CASE Funct3 = 5
    <2>1. <<right, shift>> \in { <<"srli", 0>>, <<"srai", 8>> }
      BY <1>2, <1>3, <1>5, NamedByRow
    <2> QED
      BY <1>2, <1>5, <2>1, Funct7Parts DEF shifts_i
  <1>6. CASE Funct3 \notin {1, 5}
    <2>1. <<other, Funct3>> \in { <<"addi", 0>>, <<"slti", 2>>, <<"sltiu", 3>>,
                                 <<"xori", 4>>, <<"ori", 6>>, <<"andi", 7>> }
      BY <1>2, <1>3, <1>6, NamedByRow
    <2> QED
      BY <1>2, <1>6, <2>1 DEF i_ops
  <1> QED
    BY <1>4, <1>5, <1>6

LEMMA IControl ==
  ASSUME opcode(instr) = OP_I, D!OpImm(instr) \in i_ops,
         D!OpImm(instr) \in shifts_i => D!Field(instr, 26, 25) = 0
  PROVE  <<Base(D!OpImm(instr)), aluop(instr)>> \in AluCodes
  <1>1. OP_R # OP_I
    BY Opcodes
  <1>2. PICK row \in ITypeRows :
          Funct3 = row[1] /\ Funct7 \in row[2] /\ <<Base(D!OpImm(instr)), row[3]>> \in AluCodes
    BY IOperations, FunctTypes DEF ITypeRows, AnyFunct7, AluCodes, Base, i_ops
  <1> QED
    BY <1>1, <1>2, AluopByRow

(* A shift by 32 or more matches no row of control.sv, whose default is    *)
(* and.                                                                    *)
LEMMA WideShiftControl ==
  ASSUME opcode(instr) = OP_I, D!OpImm(instr) \in shifts_i, D!Field(instr, 26, 25) # 0
  PROVE  aluop(instr) = 0
  <1>1. Funct3 \in {1, 5}
    <2> DEFINE other == D!Named({ <<0, "addi">>, <<2, "slti">>, <<3, "sltiu">>, <<4, "xori">>,
                                  <<6, "ori">>, <<7, "andi">> }, Funct3)
    <2>1. D!funct3(instr) = Funct3
      BY Funct3Of DEF Funct3
    <2>2. Funct3 \notin {1, 5} => D!OpImm(instr) = other
      BY <2>1 DEF D!OpImm
    <2>3. other \in {D!Illegal, "addi", "slti", "sltiu", "xori", "ori", "andi"}
      BY NamedByRow
    <2> QED
      BY <2>2, <2>3 DEF shifts_i, D!Illegal
  <1>2. Funct7 \notin {0, 32}
    <2>1. D!Field(instr, 26, 25) \in 1 .. 3 /\ D!Field(instr, 31, 27) \in 0 .. 31
      <3>1. Slice(instr, 26, 25) \in Vec(2) /\ Slice(instr, 31, 27) \in Vec(5)
        BY DEF Slice, Bits, Vec
      <3>2. /\ Num(Slice(instr, 26, 25)) \in 0 .. 3
            /\ Num(Slice(instr, 31, 27)) \in 0 .. 31
        BY <3>1, NumOf2Bits, NumOf5Bits DEF Bit
      <3> QED
        BY <3>2, FieldOfDisasm
    <2> QED
      BY <2>1, Funct7Parts
  <1>3. Matching(ITypeRows, instr) = {}
    BY <1>1, <1>2 DEF Matching, ITypeRows, Funct3, Funct7
  <1>4. opcode(instr) # OP_R
    BY Opcodes
  <1> QED
    BY <1>3, <1>4 DEF aluop

-----------------------------------------------------------------------------
(***************************************************************************)
(* What the ALU computes.                                                  *)
(***************************************************************************)

(* v shifted right by n, with copies of its sign bit from above.           *)
SignedShift(v, n) == { i \in Bits(32) : i + n \in v \/ (31 \in v /\ i + n >= 32) }

LEMMA Amounts ==
  ASSUME NEW s \in SUBSET Bits(5)
  PROVE  /\ IsFiniteSet(s)
         /\ Num(s) \in 0 .. 31
         /\ \A x \in s : 2^x \in 1 .. 16
  <1>1. s \in Vec(5)
    BY DEF Vec
  <1>2. Num(s) \in 0 .. 31
    BY <1>1, NumOf5Bits DEF Bit
  <1>3. IsFiniteSet(Bits(5))
    <2>1. Bits(5) = 0 .. 4
      BY DEF Bits
    <2>2. IsFiniteSet(0 .. 4)
      BY FS_Interval, 0 \in Int, 4 \in Int
    <2> QED
      BY <2>1, <2>2
  <1>4. 2^0 = 1 /\ 2^1 = 2 /\ 2^2 = 4 /\ 2^3 = 8 /\ 2^4 = 16
    OBVIOUS
  <1>5. \A x \in 0 .. 4 : 2^x \in 1 .. 16
    <2> SUFFICES ASSUME NEW x \in 0 .. 4 PROVE 2^x \in 1 .. 16
      OBVIOUS
    <2>1. 2^x = 1 \/ 2^x = 2 \/ 2^x = 4 \/ 2^x = 8 \/ 2^x = 16
      <3>1. x = 0 \/ x = 1 \/ x = 2 \/ x = 3 \/ x = 4
        OBVIOUS
      <3> QED
        BY <1>4, <3>1
    <2> QED
      BY <2>1
  <1>6. Bits(5) = 0 .. 4
    BY DEF Bits
  <1> QED
    BY <1>2, <1>3, <1>5, <1>6, FS_Subset

LEMMA StageOfShift ==
  ASSUME NEW v \in Word, NEW n \in 0 .. 31, NEW p \in 1 .. 16
  PROVE  ALU!ShiftStage(v, p, SignedShift(v, n)) = SignedShift(v, p + n)
  <1>1. v \subseteq 0 .. 31 /\ Bits(32) = 0 .. 31
    BY DEF Word, Vec, Bits
  <1>2. ALU!ShiftStage(v, p, SignedShift(v, n))
          = { i \in Bits(32) : i + p \in SignedShift(v, n) }
              \cup (IF 31 \in v THEN 32 - p .. 31 ELSE {})
    BY DEF ALU!ShiftStage, ALU!ShiftRight, ALU!Bits, Bits
  <1> DEFINE stage == ALU!ShiftStage(v, p, SignedShift(v, n))
  <1>3. stage \subseteq 0 .. 31 /\ SignedShift(v, p + n) \subseteq 0 .. 31
    BY <1>1, <1>2 DEF SignedShift
  <1>4. ASSUME NEW i \in 0 .. 31
        PROVE  i \in stage <=> i \in SignedShift(v, p + n)
    <2>1. i \in stage <=> (i + p \in SignedShift(v, n) \/ (31 \in v /\ i + p >= 32))
      BY <1>1, <1>2
    <2>2. i \in SignedShift(v, p + n) <=> (i + (p + n) \in v \/ (31 \in v /\ i + (p + n) >= 32))
      BY <1>1 DEF SignedShift
    <2>3. i + p \in SignedShift(v, n) <=>
            (i + p <= 31 /\ ((i + p) + n \in v \/ (31 \in v /\ (i + p) + n >= 32)))
      BY <1>1 DEF SignedShift
    <2>4. (i + p) + n = i + (p + n)
      OBVIOUS
    <2>5. i + p >= 32 => i + (p + n) \notin v /\ i + (p + n) >= 32
      BY <1>1
    <2> HIDE DEF stage
    <2> QED
      BY <2>1, <2>2, <2>3, <2>4, <2>5
  <1> HIDE DEF stage
  <1>5. stage = SignedShift(v, p + n)
    BY <1>3, <1>4
  <1> QED
    BY <1>5 DEF stage

LEMMA ShiftedIsSigned ==
  ASSUME NEW v \in Word, NEW w
  PROVE  ALU!shifted(v, w) = SignedShift(v, Num(w \cap Bits(5)))
  <1> DEFINE S == w \cap Bits(5)
             IsIter(h) == h = [s \in SUBSET S |->
                                IF s = {} THEN v
                                ELSE ALU!ShiftStage(v, 2^(CHOOSE x \in s : TRUE), h[Rest(s)])]
             iter == CHOOSE h : IsIter(h)
             f == [s \in SUBSET S |-> SignedShift(v, Num(s))]
  <1>1. ALU!shifted(v, w) = Bits(32) \cap iter[S]
    BY DEF ALU!shifted, ALU!FoldSet, ALU!MapThenFoldSet, ALU!Bits, Bits, Rest
  <1>2. ASSUME NEW s \in SUBSET S, s # {}
        PROVE  SignedShift(v, Num(s)) =
                 ALU!ShiftStage(v, 2^(CHOOSE x \in s : TRUE), SignedShift(v, Num(Rest(s))))
    <2>1. s \in SUBSET Bits(5) /\ Rest(s) \in SUBSET Bits(5)
      BY <1>2, RestIsSmaller
    <2>2. Num(s) = 2^(CHOOSE x \in s : TRUE) + Num(Rest(s))
      <3>1. IsFiniteSet(s)
        BY <2>1, Amounts
      <3>2. s \subseteq Int
        BY <2>1 DEF Bits
      <3> QED
        BY <1>2, <3>1, <3>2, NumUnfolds
    <2>3. 2^(CHOOSE x \in s : TRUE) \in 1 .. 16 /\ Num(Rest(s)) \in 0 .. 31
      BY <1>2, <2>1, Amounts
    <2> QED
      BY <2>2, <2>3, StageOfShift
  <1>3. SignedShift(v, Num({})) = v
    <2>1. v \subseteq 0 .. 31 /\ Bits(32) = 0 .. 31
      BY DEF Word, Vec, Bits
    <2>2. \A i \in 0 .. 31 : i + 0 = i /\ ~ (i >= 32)
      OBVIOUS
    <2> QED
      BY <2>1, <2>2, NumOfNone DEF SignedShift
  <1>4. IsIter(f)
    <2>1. \A s \in SUBSET S : s # {} => Rest(s) \in SUBSET S
      BY RestIsSmaller
    <2>2. \A s \in SUBSET S : s # {} => f[Rest(s)] = SignedShift(v, Num(Rest(s)))
      BY <2>1
    <2>3. \A s \in SUBSET S : SignedShift(v, Num(s)) =
            IF s = {} THEN v ELSE ALU!ShiftStage(v, 2^(CHOOSE x \in s : TRUE), f[Rest(s)])
      BY <1>2, <1>3, <2>2
    <2> QED
      BY <2>3
  <1>5. IsIter(iter)
    BY <1>4
  <1> HIDE DEF iter, f
  <1>6. \A s \in SUBSET S : iter[s] =
          IF s = {} THEN v ELSE ALU!ShiftStage(v, 2^(CHOOSE x \in s : TRUE), iter[Rest(s)])
    BY <1>5
  <1> HIDE DEF IsIter
  <1> DEFINE Wrong == { s \in SUBSET S : iter[s] # SignedShift(v, Num(s)) }
  <1>7. IsFiniteSet(S)
    BY Amounts
  <1>8. Wrong = {}
    <2> SUFFICES ASSUME Wrong # {} PROVE FALSE
      OBVIOUS
    <2>1. PICK s \in Wrong : \A t \in Wrong : <<t, s>> \notin StrictSubsetOrdering(S)
      <3>1. Wrong \in SUBSET SUBSET S
        OBVIOUS
      <3> HIDE DEF Wrong, S
      <3> QED
        BY <1>7, <3>1, SmallestSet
    <2>2. s \in SUBSET S /\ iter[s] # SignedShift(v, Num(s))
      BY <2>1
    <2>3. s # {}
      BY <1>3, <1>6, <2>2
    <2>4. Rest(s) \in SUBSET S /\ Rest(s) \notin Wrong
      BY <2>1, <2>2, <2>3, RestIsSmaller
    <2> QED
      BY <1>2, <1>6, <2>2, <2>3, <2>4
  <1>9. iter[S] = SignedShift(v, Num(S))
    BY <1>8
  <1> QED
    BY <1>1, <1>9 DEF SignedShift

(* The ALU's operators on words are those of the bench.                    *)
LEMMA WordsOfAlu ==
  ASSUME NEW w, NEW u, NEW v, NEW n, NEW hi, NEW lo, NEW c
  PROVE  /\ ALU!Add(w, u, v) = Add(w, u, v)
         /\ ALU!Sub(w, u, v) = Sub(w, u, v)
         /\ ALU!Mul(w, u, v) = Mul(w, u, v)
         /\ ALU!Slice(u, hi, lo) = Slice(u, hi, lo)
         /\ ALU!SignExtend(w, n, u) = SignExtend(w, n, u)
         /\ ALU!ShiftLeft(w, u, n) = ShiftLeft(w, u, n)
         /\ ALU!ShiftRight(w, u, n) = ShiftRight(w, u, n)
         /\ ALU!LessUnsigned(w, u, v) = LessUnsigned(w, u, v)
         /\ ALU!LessSigned(w, u, v) = LessSigned(w, u, v)
         /\ ALU!Num(u) = Num(u)
         /\ ALU!Xor(u, v) = Xor(u, v)
         /\ ALU!One = One
  <1>1. /\ ALU!Slice(u, hi, lo) = Slice(u, hi, lo)
        /\ ALU!SignExtend(w, n, u) = SignExtend(w, n, u)
        /\ ALU!ShiftLeft(w, u, n) = ShiftLeft(w, u, n)
        /\ ALU!ShiftRight(w, u, n) = ShiftRight(w, u, n)
        /\ ALU!LessUnsigned(w, u, v) = LessUnsigned(w, u, v)
        /\ ALU!LessSigned(w, u, v) = LessSigned(w, u, v)
        /\ ALU!Xor(u, v) = Xor(u, v)
        /\ ALU!One = One
    BY DEF ALU!Slice, Slice, ALU!Bits, Bits, ALU!SignExtend, SignExtend,
           ALU!ShiftLeft, ShiftLeft, ALU!ShiftRight, ShiftRight, ALU!LessUnsigned,
           LessUnsigned, ALU!LessSigned, LessSigned, ALU!Xor, Xor, ALU!One, One
  <1>2. ALU!Num(u) = Num(u)
    BY DEF ALU!Num, Num, ALU!MapThenSumSet, MapThenSumSet, ALU!MapThenFoldSet, MapThenFoldSet
  <1>3. ALU!Add(w, u, v) = Add(w, u, v)
    BY DEF ALU!Add, Add, ALU!Carry, Carry, ALU!Xor, Xor, ALU!Bits, Bits
  <1>4. ALU!Sub(w, u, v) = Sub(w, u, v)
    BY DEF ALU!Sub, Sub, ALU!Carry, Carry, ALU!Xor, Xor, ALU!Bits, Bits, ALU!Not, Not
  <1>5. ALU!Mul(w, u, v) = Mul(w, u, v)
    BY DEF ALU!Mul, Mul, ALU!Bits, Bits, ALU!Slice, Slice, ALU!Num, Num, ALU!MapThenSumSet,
           MapThenSumSet, ALU!MapThenFoldSet, MapThenFoldSet, ALU!SumFunction, SumFunction,
           ALU!SumFunctionOnSet, SumFunctionOnSet, ALU!FoldFunctionOnSet, FoldFunctionOnSet,
           ALU!FoldFunction, FoldFunction
  <1> QED
    BY <1>1, <1>2, <1>3, <1>4, <1>5

(* What the ALU computes for an operation code.                            *)
LEMMA AluMeans ==
  ASSUME NEW u \in Word, NEW v \in Word, NEW op, NEW code, <<op, code>> \in AluCodes
  PROVE  ALU!R(u, v, code) = Meaning(op, u, v)
  <1> DEFINE amount == Num(Slice(v, 4, 0))
  <1>1. ALU!shamt(v) = amount
    BY WordsOfAlu DEF ALU!shamt
  <1>2. CASE <<op, code>> \in { <<"and", 0>>, <<"or", 1>>, <<"add", 3>> }
    BY <1>2, WordsOfAlu DEF ALU!R, Meaning
  <1>3. CASE <<op, code>> = <<"xor", 2>>
    BY <1>3 DEF ALU!R, ALU!Xor, Meaning
  <1>4. CASE <<op, code>> = <<"sub", 4>>
    <2>1. ALU!R(u, v, 4) = Sub(32, u, v)
      BY WordsOfAlu DEF ALU!R, ALU!Difference
    <2>2. Meaning("sub", u, v) = Add(32, u, Add(32, Not(32, v), One))
      BY DEF Meaning
    <2> QED
      BY <1>4, <2>1, <2>2, SubIsAdd, 32 \in Nat DEF Word
  <1>5. CASE <<op, code>> \in { <<"sll", 8>>, <<"srl", 9>> }
    BY <1>1, <1>5, WordsOfAlu DEF ALU!R, Meaning
  <1>6. CASE <<op, code>> = <<"sra", 10>>
    <2>1. ALU!R(u, v, 10) = SignedShift(u, Num(v \cap Bits(5)))
      BY ShiftedIsSigned DEF ALU!R
    <2>2. Slice(v, 4, 0) = v \cap Bits(5)
      BY DEF Slice, Bits
    <2>3. Meaning("sra", u, v) = Arithmetic(u, amount)
      BY DEF Meaning
    <2>4. amount \in 0 .. 31
      BY <2>2, Amounts
    <2> HIDE DEF amount
    <2>5. SignedShift(u, amount) = Arithmetic(u, amount)
      <3>1. u \subseteq 0 .. 31 /\ Bits(32) = 0 .. 31
        BY DEF Word, Vec, Bits
      <3>2. \A i \in 0 .. 31 : i + amount >= 32 <=> i \in 32 - amount .. 31
        BY <2>4
      <3>3. 32 - amount .. 31 \subseteq 0 .. 31
        BY <2>4
      <3> QED
        BY <3>1, <3>2, <3>3 DEF SignedShift, Arithmetic, ShiftRight
    <2> QED
      BY <1>6, <2>1, <2>2, <2>3, <2>5 DEF amount
  <1>7. CASE <<op, code>> = <<"slt", 12>>
    BY <1>7, WordsOfAlu DEF ALU!R, ALU!Less, ALU!Flag, Meaning, Truth
  <1>8. CASE <<op, code>> = <<"sltu", 13>>
    BY <1>8, WordsOfAlu DEF ALU!R, ALU!Less, ALU!Flag, Meaning, Truth
  <1>9. CASE <<op, code>> = <<"mul", 5>>
    <2>1. ALU!R(u, v, 5)
            = Slice(Mul(64, SignExtend(64, 32, u), SignExtend(64, 32, v)), 31, 0)
      BY WordsOfAlu, 2 * 32 = 64, 32 - 1 = 31 DEF ALU!R, ALU!mulls, ALU!ProductS, ALU!Wide
    <2>2. \A i \in 0 .. 31 : /\ i \in SignExtend(64, 32, u) <=> i \in u
                             /\ i \in SignExtend(64, 32, v) <=> i \in v
      BY DEF SignExtend
    <2>3. ALU!R(u, v, 5) = Mul(32, u, v)
      BY <2>1, <2>2, LowHalf
    <2> QED
      BY <1>9, <2>3 DEF Meaning
  <1>10. CASE <<op, code>> = <<"mulh", 6>>
    BY <1>10, WordsOfAlu, 2 * 32 = 64, 64 - 1 = 63
       DEF ALU!R, ALU!mulhs, ALU!ProductS, ALU!Wide, Meaning
  <1>11. CASE <<op, code>> = <<"mulhu", 7>>
    BY <1>11, WordsOfAlu, 2 * 32 = 64, 64 - 1 = 63
       DEF ALU!R, ALU!mulhu, ALU!ProductU, ALU!Wide, Meaning
  <1> QED
    BY <1>2, <1>3, <1>4, <1>5, <1>6, <1>7, <1>8, <1>9, <1>10, <1>11 DEF AluCodes

-----------------------------------------------------------------------------
(***************************************************************************)
(* The whole instruction.                                                  *)
(***************************************************************************)

LEMMA OnlyROperations ==
  ASSUME D!Op(instr) \in Implemented
  PROVE  D!Op(instr) \in r_ops
  <1> DEFINE k == D!Key(instr)
             sparse == D!Named({ <<256, "sub">>, <<261, "sra">> }, k)
  <1>1. CASE k \in 0 .. 15
    <2>1. D!Op(instr) = D!OpNames[k + 1]
      BY <1>1 DEF D!Op
    <2> HIDE DEF k
    <2>2. CASE k \in 0 .. 7
      BY <2>1, <2>2 DEF D!OpNames, r_ops
    <2>3. CASE k \in 8 .. 15
      <3>1. D!Op(instr) \in { "mul", "mulh", "mulhsu", "mulhu", "div", "divu", "rem", "remu" }
        BY <2>1, <2>3 DEF D!OpNames
      <3> QED
        BY <3>1 DEF Implemented, r_ops, i_ops, u_ops
    <2> QED
      BY <1>1, <2>2, <2>3
  <1>2. CASE k \notin 0 .. 15
    <2>1. D!Op(instr) = sparse
      BY <1>2 DEF D!Op
    <2>2. sparse # D!Illegal
      BY <2>1, IllegalOutside
    <2> HIDE DEF k
    <2>3. <<sparse, k>> \in { <<"sub", 256>>, <<"sra", 261>> }
      BY <2>2, NamedByRow
    <2> QED
      BY <2>1, <2>3 DEF r_ops
  <1> QED
    BY <1>1, <1>2

LEMMA OnlyIOperations ==
  ASSUME D!OpImm(instr) \in Implemented
  PROVE  D!OpImm(instr) \in i_ops
  <1> DEFINE shift == D!Field(instr, 31, 27)
             rows == { <<0, "addi">>, <<2, "slti">>, <<3, "sltiu">>, <<4, "xori">>,
                       <<6, "ori">>, <<7, "andi">> }
             left == D!Named({ <<0, "slli">> }, shift)
             right == D!Named({ <<0, "srli">>, <<8, "srai">> }, shift)
             other == D!Named(rows, D!funct3(instr))
  <1>1. D!OpImm(instr) \in {left, right, other}
    BY DEF D!OpImm
  <1>2. D!OpImm(instr) # D!Illegal
    BY IllegalOutside
  <1>3. left # D!Illegal => left = "slli"
    BY NamedByRow
  <1>4. right # D!Illegal => right \in {"srli", "srai"}
    BY NamedByRow
  <1>5. other # D!Illegal => other \in {"addi", "slti", "sltiu", "xori", "ori", "andi"}
    BY NamedByRow
  <1> HIDE DEF left, right, other
  <1>6. {"slti", "sltiu"} \cap Implemented = {}
    BY DEF Implemented, r_ops, i_ops, u_ops
  <1> QED
    BY <1>1, <1>2, <1>3, <1>4, <1>5, <1>6 DEF i_ops

(* The immediate the disassembler prints is the one the ALU gets.          *)
LEMMA SameImmediate == D!operand_imm12(instr) = SignExtend(32, 12, imm_i(instr))
  BY SliceOfDisasm DEF D!operand_imm12, imm_i, D!SignExtend, SignExtend

LEMMA ImmediateType == SignExtend(32, 12, imm_i(instr)) \in Word
  BY DEF SignExtend, imm_i, Slice, Word, Vec, Bits

(* A shift by an immediate uses its lowest five bits, and those are all    *)
(* that an RV32 shift amount has.                                          *)
LEMMA SameAmount ==
  ASSUME NEW op \in {"sll", "srl", "sra"}, NEW u
  PROVE  Meaning(op, u, SignExtend(32, 12, imm_i(instr)))
           = Meaning(op, u, D!operand_shamt7(instr))
  <1> DEFINE v == SignExtend(32, 12, imm_i(instr))
             w == D!operand_shamt7(instr)
  <1>1. \A i \in 0 .. 4 : /\ i \in v <=> i + 20 \in instr
                          /\ i \in w <=> i + 20 \in instr
    <2>1. w = Slice(instr, 26, 20)
      BY SliceOfDisasm DEF D!operand_shamt7
    <2>2. \A i \in 0 .. 4 : i \in imm_i(instr) <=> i + 20 \in instr
      BY DEF imm_i, Slice, Bits
    <2>3. \A i \in 0 .. 4 : i \in v <=> i \in imm_i(instr)
      BY DEF SignExtend
    <2>4. \A i \in 0 .. 4 : i \in Slice(instr, 26, 20) <=> i + 20 \in instr
      BY DEF Slice, Bits
    <2> HIDE DEF v, w
    <2> QED
      BY <2>1, <2>2, <2>3, <2>4
  <1> HIDE DEF v, w
  <1>2. Slice(v, 4, 0) = Slice(w, 4, 0)
    BY <1>1 DEF Slice, Bits
  <1>3. Meaning(op, u, v) = Meaning(op, u, w)
    BY <1>2 DEF Meaning
  <1> QED
    BY <1>3 DEF v, w

LEMMA SameUpperImmediate == Cat(imm_u(instr), 12, {}) = D!operand_imm20(instr)
  <1> DEFINE v == imm_u(instr)
  <1>1. v = Slice(instr, 31, 12)
    BY DEF imm_u
  <1>2. v \subseteq 0 .. 19
    BY DEF imm_u, Slice, Bits
  <1>3. D!operand_imm20(instr) = { i \in 0 .. 31 : i - 12 \in v }
    BY <1>1, SliceOfDisasm DEF D!operand_imm20, D!ShiftLeft, D!Bits
  <1>4. Cat(v, 12, {}) = { i + 12 : i \in v }
    BY DEF Cat
  <1> HIDE DEF v
  <1>5. \A i \in { j + 12 : j \in v } : i \in 0 .. 31 /\ i - 12 \in v
    BY <1>2
  <1>6. \A i \in 0 .. 31 : i - 12 \in v => i = (i - 12) + 12
    OBVIOUS
  <1>7. { i \in 0 .. 31 : i - 12 \in v } = { i + 12 : i \in v }
    BY <1>5, <1>6
  <1> QED
    BY <1>3, <1>4, <1>7 DEF v

LEMMA OperandTypes == ASSUME pair \in 1 .. Len(OperandPairs) PROVE a \in Word /\ b \in Word
  BY OperandsAssumption DEF a, b

(* The conjunct about the operations on registers.                         *)
LEMMA ExecutesR ==
  ASSUME a \in Word, b \in Word, opcode(instr) = OP_R, name = D!Op(instr), name \in r_ops
  PROVE  WrittenBack = Meaning(Base(name), a, SecondOperand)
  <1>1. opcode(instr) \notin {OP_I, OP_U}
    BY Opcodes
  <1>2. ~ isCSRRW(instr)
    BY Opcodes DEF isCSRRW
  <1>3. regsel(instr) = 2 /\ B(instr, b) = b
    BY <1>1, <1>2 DEF regsel, B, alusrc
  <1>4. WrittenBack = ALU!R(a, b, aluop(instr))
    BY <1>3 DEF WrittenBack, writedata, AluResult
  <1>5. <<name, aluop(instr)>> \in AluCodes
    BY RControl
  <1>6. Base(name) = name /\ SecondOperand = b
    <2>1. name \notin i_ops /\ name \notin shifts_i
      BY DEF r_ops, i_ops, shifts_i
    <2> QED
      BY <2>1 DEF Base, SecondOperand
  <1> QED
    BY <1>4, <1>5, <1>6, AluMeans

(* The conjunct about the operations on a register and an immediate.       *)
LEMMA ExecutesI ==
  ASSUME a \in Word, opcode(instr) = OP_I, name = D!OpImm(instr), name \in i_ops
  PROVE  WrittenBack = IF IsWideShift THEN Meaning("and", a, D!operand_imm12(instr))
                                      ELSE Meaning(Base(name), a, SecondOperand)
  <1> DEFINE v == SignExtend(32, 12, imm_i(instr))
  <1>1. regsel(instr) = 2 /\ B(instr, b) = v
    <2>1. ~ isCSRRW(instr)
      BY Opcodes DEF isCSRRW
    <2> QED
      BY <2>1 DEF regsel, B, alusrc
  <1>2. WrittenBack = ALU!R(a, v, aluop(instr))
    BY <1>1 DEF WrittenBack, writedata, AluResult
  <1>3. v \in Word
    BY ImmediateType
  <1>4. CASE IsWideShift
    <2>1. <<"and", aluop(instr)>> \in AluCodes
      BY <1>4, WideShiftControl DEF IsWideShift, AluCodes
    <2>2. WrittenBack = Meaning("and", a, v)
      BY <1>2, <1>3, <2>1, AluMeans
    <2> QED
      BY <1>4, <2>2, SameImmediate
  <1>5. CASE ~ IsWideShift
    <2>1. <<Base(name), aluop(instr)>> \in AluCodes
      BY <1>5, IControl DEF IsWideShift
    <2>2. WrittenBack = Meaning(Base(name), a, v)
      BY <1>2, <1>3, <2>1, AluMeans
    <2>3. CASE name \in shifts_i
      <3>1. SecondOperand = D!operand_shamt7(instr)
        BY <2>3 DEF SecondOperand
      <3>2. Base(name) \in {"sll", "srl", "sra"}
        BY <2>3 DEF Base, shifts_i, i_ops
      <3> QED
        BY <1>5, <2>2, <3>1, <3>2, SameAmount
    <2>4. CASE name \notin shifts_i
      BY <1>5, <2>2, <2>4, SameImmediate DEF SecondOperand
    <2> QED
      BY <2>3, <2>4
  <1> QED
    BY <1>4, <1>5

LEMMA ExecutesAny == ASSUME a \in Word, b \in Word PROVE ExecutesItsMnemonic
  <1>1. ASSUME name \in r_ops \cup i_ops
        PROVE  /\ regwe(instr) /\ ~hexwe(instr)
               /\ WrittenBack = IF IsWideShift THEN Meaning("and", a, D!operand_imm12(instr))
                                               ELSE Meaning(Base(name), a, SecondOperand)
    <2>1. \/ opcode(instr) = OP_R /\ name = D!Op(instr) /\ name \in r_ops
          \/ opcode(instr) = OP_I /\ name = D!OpImm(instr) /\ name \in i_ops
      <3>1. name \in Implemented /\ name # "lui"
        BY <1>1 DEF Implemented, r_ops, i_ops
      <3> QED
        BY <3>1, ImplementedHere, OnlyROperations, OnlyIOperations
    <2>2. regwe(instr) /\ ~hexwe(instr)
      BY <2>1, Opcodes DEF regwe, hexwe, isCSRRW
    <2>3. name \in r_ops => ~ IsWideShift
      BY DEF r_ops, shifts_i, IsWideShift
    <2> QED
      BY <2>1, <2>2, <2>3, ExecutesR, ExecutesI
  <1>2. ASSUME name \in u_ops
        PROVE  /\ regwe(instr) /\ ~hexwe(instr)
               /\ WrittenBack = D!operand_imm20(instr)
    <2>1. name = "lui" /\ name \in Implemented
      BY <1>2 DEF Implemented, u_ops
    <2>2. "lui" \notin r_ops /\ "lui" \notin i_ops
      BY DEF r_ops, i_ops
    <2>3. opcode(instr) = OP_U
      BY <2>1, <2>2, ImplementedHere, OnlyROperations, OnlyIOperations
    <2>4. opcode(instr) \notin {OP_R, OP_I, OP_SYSTEM}
      BY <2>3, Opcodes
    <2>5. regwe(instr) /\ ~hexwe(instr) /\ regsel(instr) = 1
      BY <2>3, <2>4 DEF regwe, hexwe, regsel, isCSRRW
    <2>6. WrittenBack = Cat(imm_u(instr), 12, {})
      BY <2>5 DEF WrittenBack, writedata
    <2> QED
      BY <2>5, <2>6, SameUpperImmediate
  <1> QED
    BY <1>1, <1>2 DEF ExecutesItsMnemonic

(***************************************************************************)
(* For every instruction word and every pair of register values: a word    *)
(* that riscv-disas.c gives the name of an implemented operation writes    *)
(* the result of that operation to its rd, or, if it shifts by 32 or more, *)
(* that of andi, and nothing to the display.                               *)
(***************************************************************************)
THEOREM EveryInstruction == Spec => []ExecutesItsMnemonic
  <1> DEFINE Inv == pair \in 1 .. Len(OperandPairs)
  <1>1. Len(OperandPairs) \in Nat \ {0}
    BY OperandsAssumption
  <1>2. Init => Inv
    BY <1>1 DEF Init
  <1>3. Inv /\ [NextPair]_vars => Inv'
    BY <1>1 DEF NextPair, vars
  <1>4. Inv => ExecutesItsMnemonic
    BY OperandTypes, ExecutesAny
  <1> QED
    BY <1>2, <1>3, <1>4, PTL DEF Spec

=============================================================================
