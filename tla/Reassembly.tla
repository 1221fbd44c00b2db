----------------------------- MODULE Reassembly -----------------------------
(***************************************************************************)
(* The RISC-V assembly language as the reference for Disasm: what          *)
(* instruction a line of text stands for, and how the instruction formats  *)
(* of the ISA lay out its operands in a word, or in the 16 bits of a       *)
(* compressed instruction.                                                 *)
(***************************************************************************)
EXTENDS Disasm, SequencesExt

Placed(rd, rs1, rs2) == Cat(rd, 7, {}) \cup Cat(rs1, 15, {}) \cup Cat(rs2, 20, {})

(* Moves, absolute values and negations copy a number with some sign.      *)
SignCopies ==
  "fmv.s" :> "fsgnj.s" @@ "fabs.s" :> "fsgnjx.s" @@ "fneg.s" :> "fsgnjn.s"
  @@ "fmv.d" :> "fsgnj.d" @@ "fabs.d" :> "fsgnjx.d" @@ "fneg.d" :> "fsgnjn.d"
  @@ "fmv.q" :> "fsgnj.q" @@ "fabs.q" :> "fsgnjx.q" @@ "fneg.q" :> "fsgnjn.q"

Fields == {"rd", "rs1", "rs2", "rs3", "imm", "pred", "succ", "rm", "aq", "rl"}

(* What the text of a pseudo-instruction stands for, by the assembly       *)
(* language; the text of another instruction lists its operands.           *)
Expand(text) ==
  LET a1 == text.args[1]
      a2 == text.args[2]
      a3 == text.args[3]
      is(op, rd, rs1, rs2, imm) ==
        [ field \in Fields \ {"rd", "rs1", "rs2", "imm"} |-> {} ]
        @@ [op |-> op, rd |-> rd, rs1 |-> rs1, rs2 |-> rs2, imm |-> imm]
      csr(n) == Lit(12, n)
      listed == Format(text.op)
  IN CASE text.op = "nop"    -> is("addi", {}, {}, {}, {})
       [] text.op = "mv"     -> is("addi", a1, a2, {}, {})
       [] text.op = "not"    -> is("xori", a1, a2, {}, Ones(32))
       [] text.op = "seqz"   -> is("sltiu", a1, a2, {}, One)
       [] text.op = "sext.w" -> is("addiw", a1, a2, {}, {})
       [] text.op = "neg"    -> is("sub", a1, {}, a2, {})
       [] text.op = "negw"   -> is("subw", a1, {}, a2, {})
       [] text.op = "snez"   -> is("sltu", a1, {}, a2, {})
       [] text.op = "sgtz"   -> is("slt", a1, {}, a2, {})
       [] text.op = "sltz"   -> is("slt", a1, a2, {}, {})
       [] text.op = "beqz"   -> is("beq", {}, a1, {}, a2)
       [] text.op = "bnez"   -> is("bne", {}, a1, {}, a2)
       [] text.op = "bgez"   -> is("bge", {}, a1, {}, a2)
       [] text.op = "bltz"   -> is("blt", {}, a1, {}, a2)
       [] text.op = "blez"   -> is("bge", {}, {}, a1, a2)
       [] text.op = "bgtz"   -> is("blt", {}, {}, a1, a2)
       [] text.op = "ble"    -> is("bge", {}, a2, a1, a3)
       [] text.op = "bleu"   -> is("bgeu", {}, a2, a1, a3)
       [] text.op = "bgt"    -> is("blt", {}, a2, a1, a3)
       [] text.op = "bgtu"   -> is("bltu", {}, a2, a1, a3)
       [] text.op = "j"      -> is("jal", {}, {}, {}, a1)
       [] text.op = "jr"     -> is("jalr", {}, a1, {}, {})
       [] text.op = "ret"    -> is("jalr", {}, {0}, {}, {})
       [] text.op = "rdcycle"    -> is("csrrs", a1, {}, {}, csr(3072))
       [] text.op = "rdtime"     -> is("csrrs", a1, {}, {}, csr(3073))
       [] text.op = "rdinstret"  -> is("csrrs", a1, {}, {}, csr(3074))
       [] text.op = "rdcycleh"   -> is("csrrs", a1, {}, {}, csr(3200))
       [] text.op = "rdtimeh"    -> is("csrrs", a1, {}, {}, csr(3201))
       [] text.op = "rdinstreth" -> is("csrrs", a1, {}, {}, csr(3202))
       [] text.op = "frflags"    -> is("csrrs", a1, {}, {}, csr(1))
       [] text.op = "frrm"       -> is("csrrs", a1, {}, {}, csr(2))
       [] text.op = "frcsr"      -> is("csrrs", a1, {}, {}, csr(3))
       [] text.op = "fsflags"    -> is("csrrw", a1, a2, {}, csr(1))
       [] text.op = "fsrm"       -> is("csrrw", a1, a2, {}, csr(2))
       [] text.op = "fscsr"      -> is("csrrw", a1, a2, {}, csr(3))
       [] text.op = "fsflagsi"   -> is("csrrwi", a1, a2, {}, csr(1))
       [] text.op = "fsrmi"      -> is("csrrwi", a1, a2, {}, csr(2))
       [] text.op \in DOMAIN SignCopies -> is(SignCopies[text.op], a1, a2, a2, {})
       [] OTHER ->
            [ field \in Fields |->
                UNION { text.args[k] : k \in { i \in DOMAIN listed : listed[i] = field } } ]
            @@ [op |-> text.op]

(* The bits of an immediate in the instruction formats of the ISA, for an  *)
(* immediate that the format can hold.                                     *)
ImmediateBits(codec, imm) ==
  CASE codec = "u"     -> imm
    [] codec = "uj"    -> Cat(Slice(imm, 20, 20), 31, {}) \cup Cat(Slice(imm, 10, 1), 21, {})
                            \cup Cat(Slice(imm, 11, 11), 20, {}) \cup (imm \cap 12 .. 19)
    [] codec = "s"     -> Cat(Slice(imm, 11, 5), 25, {}) \cup Cat(Slice(imm, 4, 0), 7, {})
    [] codec = "sb"    -> Cat(Slice(imm, 12, 12), 31, {}) \cup Cat(Slice(imm, 10, 5), 25, {})
                            \cup Cat(Slice(imm, 4, 1), 8, {}) \cup Cat(Slice(imm, 11, 11), 7, {})
    [] OTHER           -> Cat(Slice(imm, 11, 0), 20, {})

(* The widths of signed immediates; the others are not extended.           *)
SignedWidth(codec) ==
  CASE codec = "uj" -> 21 [] codec = "sb" -> 13 [] codec \in {"i", "s"} -> 12 [] OTHER -> 32

Representable(codec, imm) ==
  LET w == SignedWidth(codec) IN imm = SignExtend(32, w, Slice(imm, w - 1, 0))

(* The bits of an instruction that an operand occupies.                    *)
ImmediateField(codec) ==
  CASE codec \in {"u", "uj"} -> 12 .. 31
    [] codec \in {"s", "sb"} -> 7 .. 11 \cup 25 .. 31
    [] codec = "i_sh5"       -> 20 .. 24
    [] codec = "i_sh6"       -> 20 .. 25
    [] codec = "i_sh7"       -> 20 .. 26
    [] OTHER                 -> 20 .. 31

FieldBits(codec, field) ==
  CASE field = "rd"   -> 7 .. 11   [] field = "rs1"  -> 15 .. 19
    [] field = "rs2"  -> 20 .. 24  [] field = "rs3"  -> 27 .. 31
    [] field = "rm"   -> 12 .. 14  [] field = "aq"   -> {26}
    [] field = "rl"   -> {25}      [] field = "pred" -> 24 .. 27
    [] field = "succ" -> 20 .. 23  [] field = "imm"  -> ImmediateField(codec)

OperandBits(op) == UNION { FieldBits(Codec(op), f) : f \in ToSet(Format(op)) }

Encodes(d, word) ==
  LET codec == Codec(d.op) IN
  /\ Representable(codec, d.imm)
  /\ word \cap OperandBits(d.op) =
       Placed(d.rd, d.rs1, d.rs2) \cup ImmediateBits(codec, d.imm)
         \cup Cat(d.rs3, 27, {}) \cup Cat(d.rm, 12, {}) \cup Cat(d.aq, 26, {})
         \cup Cat(d.rl, 25, {}) \cup Cat(d.pred, 24, {}) \cup Cat(d.succ, 20, {})

-----------------------------------------------------------------------------
(* Compressed instructions.                                                *)

(* Where a format has the bits of an immediate: bits hi to lo from bit at  *)
(* of the instruction on.  The immediate is one the format can hold when   *)
(* it is nothing but these bits and, if it is signed, copies of the bit    *)
(* that is bit 12 of the instruction.                                      *)
Holds(imm, parts, signed) ==
  LET width == Max({ p.hi : p \in parts }) + 1
      bits  == UNION { p.lo .. p.hi : p \in parts }
      low   == Slice(imm, width - 1, 0)
  IN  low \subseteq bits /\ imm = IF signed THEN SignExtend(32, width, low) ELSE low

Popular(r) == 3 \in r /\ 4 \notin r   \* x8 to x15

(* The compressed instructions by their expansion.  A form is a quadrant,  *)
(* funct3, the bits of registers and functions, and an immediate.          *)
Compresses(d, half) ==
  LET form(quadrant, f3, bits) ==
        half = Lit(2, quadrant) \cup Cat(Lit(3, f3), 13, {}) \cup bits
      with(parts, signed, quadrant, f3, bits) ==
        /\ Holds(d.imm, parts, signed)
        /\ form(quadrant, f3, bits \cup Gathered(d.imm, parts))
      full(r, at)  == Cat(r, at, {})
      short(r, at) == Cat(r \ {3}, at, {})
      same         == d.rd = d.rs1
      Small   == { Part(5, 5, 12), Part(4, 0, 2) }
      Upper   == { Part(17, 17, 12), Part(16, 12, 2) }
      Stack   == { Part(9, 9, 12), Part(8, 7, 3), Part(6, 6, 5), Part(5, 5, 2), Part(4, 4, 6) }
      Frame   == { Part(9, 6, 7), Part(5, 4, 11), Part(3, 3, 5), Part(2, 2, 6) }
      Jump    == { Part(11, 11, 12), Part(10, 10, 8), Part(9, 8, 9), Part(7, 7, 6),
                   Part(6, 6, 7), Part(5, 5, 2), Part(4, 4, 11), Part(3, 1, 3) }
      Target  == { Part(8, 8, 12), Part(7, 6, 5), Part(5, 5, 2), Part(4, 3, 10), Part(2, 1, 3) }
      Word4   == { Part(6, 6, 5), Part(5, 3, 10), Part(2, 2, 6) }
      Double  == { Part(7, 6, 5), Part(5, 3, 10) }
      FromSp  == [w |-> { Part(7, 6, 2), Part(5, 5, 12), Part(4, 2, 4) },
                  d |-> { Part(8, 6, 2), Part(5, 5, 12), Part(4, 3, 5) }]
      ToSp    == [w |-> { Part(7, 6, 7), Part(5, 2, 9) }, d |-> { Part(8, 6, 7), Part(5, 3, 10) }]
  IN
  \/ /\ d.op = "addi"
     /\ \/ same /\ with(Small, TRUE, 1, 0, full(d.rd, 7))
        \/ d.rs1 = {} /\ with(Small, TRUE, 1, 2, full(d.rd, 7))
        \/ same /\ d.rd = {1} /\ with(Stack, TRUE, 1, 3, full({1}, 7))
        \/ Popular(d.rd) /\ d.rs1 = {1} /\ with(Frame, FALSE, 0, 0, short(d.rd, 2))
        \/ d.rs1 # {} /\ d.imm = {} /\ form(2, 4, full(d.rd, 7) \cup full(d.rs1, 2))
  \/ d.op = "lui" /\ d.rd # {1} /\ with(Upper, TRUE, 1, 3, full(d.rd, 7))
  \/ /\ same /\ Popular(d.rd)
     /\ \/ d.op = "srli" /\ with(Small, FALSE, 1, 4, short(d.rd, 7))
        \/ d.op = "srai" /\ with(Small, FALSE, 1, 4, short(d.rd, 7) \cup {10})
        \/ d.op = "andi" /\ with(Small, TRUE, 1, 4, short(d.rd, 7) \cup {11})
        \/ \E f \in 0 .. 5 :
             /\ d.op = << "sub", "xor", "or", "and", "subw", "addw" >>[f + 1] /\ Popular(d.rs2)
             /\ form(1, 4, {10, 11} \cup full(Lit(2, f % 4), 5) \cup full(Lit(1, f \div 4), 12)
                             \cup short(d.rd, 7) \cup short(d.rs2, 2))
  \/ d.op = "slli" /\ same /\ with(Small, FALSE, 2, 0, full(d.rd, 7))
  \/ d.op = "add" /\ same /\ d.rs2 # {} /\ form(2, 4, {12} \cup full(d.rd, 7) \cup full(d.rs2, 2))
  \/ d.op = "ebreak" /\ form(2, 4, {12})
  \/ d.op = "jal" /\ \E f3 \in {1, 5} :
       d.rd = (IF f3 = 1 THEN {0} ELSE {}) /\ with(Jump, TRUE, 1, f3, {})
  \/ d.op = "jalr" /\ d.imm = {} /\ \E link \in {{}, {0}} :
       d.rd = link /\ form(2, 4, full(d.rs1, 7) \cup full(link, 12))
  \/ \E f3 \in {6, 7} :
       /\ d.op = (IF f3 = 6 THEN "beq" ELSE "bne") /\ d.rs2 = {} /\ Popular(d.rs1)
       /\ with(Target, TRUE, 1, f3, short(d.rs1, 7))
  \/ \E f3 \in 1 .. 3 :
       LET width == IF f3 = 1 THEN "d" ELSE "w"
           Near  == IF f3 = 1 THEN Double ELSE Word4
       IN  \/ /\ d.op = << "fld", "lw", "flw" >>[f3]
              /\ \/ /\ Popular(d.rd) /\ Popular(d.rs1)
                    /\ with(Near, FALSE, 0, f3, short(d.rs1, 7) \cup short(d.rd, 2))
                 \/ d.rs1 = {1} /\ with(FromSp[width], FALSE, 2, f3, full(d.rd, 7))
           \/ /\ d.op = << "fsd", "sw", "fsw" >>[f3]
              /\ \/ /\ Popular(d.rs2) /\ Popular(d.rs1)
                    /\ with(Near, FALSE, 0, f3 + 4, short(d.rs1, 7) \cup short(d.rs2, 2))
                 \/ d.rs1 = {1} /\ with(ToSp[width], FALSE, 2, f3 + 4, full(d.rs2, 2))

(* The encodings that stand for no instruction, or for one without effect. *)
ReservedOrHint(half) ==
  LET quadrant == Num(half \cap 0 .. 1)
      f3       == Num(Slice(half, 15, 13))
  IN  \/ quadrant = 0 /\ (f3 = 4 \/ (f3 = 0 /\ half \cap 5 .. 12 = {}))
      \/ quadrant = 1 /\ f3 = 3 /\ half \cap ({12} \cup 2 .. 6) = {}
      \/ quadrant = 1 /\ f3 = 4 /\ 11 \notin half /\ half \cap ({12} \cup 2 .. 6) = {}
      \/ quadrant = 1 /\ f3 = 4 /\ {6, 10, 11, 12} \subseteq half
      \/ quadrant = 2 /\ f3 = 0 /\ half \cap ({12} \cup 2 .. 6) = {}

=============================================================================
