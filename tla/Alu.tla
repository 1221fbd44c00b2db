-------------------------------- MODULE Alu --------------------------------
(***************************************************************************)
(* rtl/alu.sv: the combinational ALU.                                      *)
(*                                                                         *)
(* The source fixes the width at 32 and the shift amount at B[4:0].  Both  *)
(* are constants here so that the same definitions can be compared with    *)
(* integer arithmetic over every operand of a small width.                 *)
(***************************************************************************)
EXTENDS Words

CONSTANTS
  XLEN,       \* the width of an operand: 32 in the source
  SHAMTBITS   \* the width of shamt: 5 in the source

ASSUME WidthAssumption == /\ XLEN \in Nat \ {0}
                          /\ SHAMTBITS \in Nat
                          /\ XLEN = 2^SHAMTBITS

Word == Vec(XLEN)

(***************************************************************************)
(* {mulhu, mullu} = A*B and {mulhs, mulls} = $signed(A)*$signed(B): the    *)
(* left-hand sides are twice as wide as the operands, so the operands are  *)
(* extended to that width before they are multiplied.                      *)
(***************************************************************************)
Wide == 2 * XLEN
ProductU(A, B) == Mul(Wide, A, B)

(* Mutant: the signed product without its sign extension.                  *)
ProductSUnextended(A, B) == Mul(Wide, A, B)

ProductS(A, B) == Mul(Wide, SignExtend(Wide, XLEN, A), SignExtend(Wide, XLEN, B))

mulls(A, B) == Slice(ProductS(A, B), XLEN - 1, 0)
mulhs(A, B) == Slice(ProductS(A, B), Wide - 1, XLEN)
mulhu(A, B) == Slice(ProductU(A, B), Wide - 1, XLEN)

shamt(B) == Num(Slice(B, SHAMTBITS - 1, 0))

(* Mutant: the shift that the work-around replaces, without the sign fill. *)
ShiftStageLogical(A, n, v) == ShiftRight(XLEN, v, n)

(***************************************************************************)
(* The hand-written arithmetic right shift: one stage per bit of shamt,    *)
(* each shifting by a power of two and filling with copies of A[31].       *)
(***************************************************************************)
ShiftStage(A, n, v) ==
  LET fill == IF XLEN - 1 \in A THEN XLEN - n .. XLEN - 1 ELSE {}
  IN  ShiftRight(XLEN, v, n) \cup fill

shifted(A, B) ==
  Bits(XLEN) \cap FoldSet(LAMBDA k, v : ShiftStage(A, 2^k, v), A, B \cap Bits(SHAMTBITS))

(* Mutants: subtraction that forgets the carry in of the two's complement, *)
(* and a comparison that ignores the signs.                                *)
DifferenceWithoutCarry(A, B) == Add(XLEN, A, Not(XLEN, B))
LessWithoutSign(A, B, op)    == LessUnsigned(XLEN, A, B)

Difference(A, B) == Sub(XLEN, A, B)
Less(A, B, op)   == IF op = 12 THEN LessSigned(XLEN, A, B) ELSE LessUnsigned(XLEN, A, B)

Flag(b) == IF b THEN One ELSE {}

(* The result R for the operation code op.                                 *)
R(A, B, op) ==
  CASE op = 0          -> A \cap B
    [] op = 1          -> A \cup B
    [] op = 2          -> Xor(A, B)
    [] op = 3          -> Add(XLEN, A, B)
    [] op = 4          -> Difference(A, B)
    [] op = 5          -> mulls(A, B)
    [] op = 6          -> mulhs(A, B)
    [] op = 7          -> mulhu(A, B)
    [] op = 8          -> ShiftLeft(XLEN, A, shamt(B))
    [] op = 9          -> ShiftRight(XLEN, A, shamt(B))
    [] op \in {10, 11} -> shifted(A, B)
    [] OTHER           -> Flag(Less(A, B, op))

=============================================================================
