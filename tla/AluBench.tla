------------------------------ MODULE AluBench ------------------------------
(***************************************************************************)
(* A test bench for module Alu: it holds a pair of operands on A and B and *)
(* steps op through the sixteen operation codes, for every pair of         *)
(* Operands.  R is compared with integer arithmetic, which TLC can compute *)
(* at a small XLEN; the laws relate the operations to each other, and so   *)
(* can be checked at the width of the source too, whose products do not    *)
(* fit TLC's integers.                                                     *)
(***************************************************************************)
EXTENDS Alu

CONSTANT Operands       \* the words that A and B range over

ASSUME OperandsAssumption == Operands \subseteq Word

VARIABLES A, B, op

vars == <<A, B, op>>

Init == A \in Operands /\ B \in Operands /\ op = 0

NextOp ==
  /\ op < 15
  /\ op' = op + 1
  /\ UNCHANGED <<A, B>>

Spec == Init /\ [][NextOp]_vars

result == R(A, B, op)

-----------------------------------------------------------------------------
(* The integers that words stand for, and the word that an integer wraps   *)
(* to; bit i of a word's value, and the number whose bits are d.           *)
Signed(v)   == IF XLEN - 1 \in v THEN Num(v) - 2^XLEN ELSE Num(v)
Wrap(n)     == Lit(XLEN, n % 2^XLEN)
BitOf(v, i) == (Num(v) \div 2^i) % 2
Binary(d)   == SumFunction([i \in Bits(XLEN) |-> 2^i * d[i]])
Amount      == Num(B) % XLEN
Truth(b)    == IF b THEN 1 ELSE 0

Arithmetic ==
  CASE op = 0          -> Binary([i \in Bits(XLEN) |-> BitOf(A, i) * BitOf(B, i)])
    [] op = 1          -> Binary([i \in Bits(XLEN) |-> BitOf(A, i) + BitOf(B, i)
                                                       - BitOf(A, i) * BitOf(B, i)])
    [] op = 2          -> Binary([i \in Bits(XLEN) |-> (BitOf(A, i) + BitOf(B, i)) % 2])
    [] op = 3          -> Num(A) + Num(B)
    [] op = 4          -> Num(A) - Num(B)
    [] op = 5          -> Num(A) * Num(B)
    [] op = 6          -> (Signed(A) * Signed(B)) \div 2^XLEN
    [] op = 7          -> (Num(A) * Num(B)) \div 2^XLEN
    [] op = 8          -> Num(A) * 2^Amount
    [] op = 9          -> Num(A) \div 2^Amount
    [] op \in {10, 11} -> Signed(A) \div 2^Amount
    [] op = 12         -> Truth(Signed(A) < Signed(B))
    [] OTHER           -> Truth(Num(A) < Num(B))

(***************************************************************************)
(* R is the result of the operation on the integers the operands stand     *)
(* for, wrapped to the width: in particular the high half of the signed    *)
(* product and the hand-written arithmetic shift are the floor of a signed *)
(* division, at every sign and at every shift amount.                      *)
(***************************************************************************)
AluMatchesArithmetic == result = Wrap(Arithmetic)

-----------------------------------------------------------------------------
Zero        == {}
Negative(v) == XLEN - 1 \in v
Op(n)       == R(A, B, n)
TopFlip(v)  == Xor(v, {XLEN - 1})

(***************************************************************************)
(* op 4 is the inverse of op 3 and changes sign with its operands:         *)
(* A - B + B = A and A - B = 0 - (B - A), whatever overflows.              *)
(***************************************************************************)
SubtractionInvertsAddition ==
  op = 4 => /\ R(result, B, 3) = A
            /\ result = R(Zero, R(B, A, 4), 4)

(***************************************************************************)
(* The comparisons agree with the subtraction: operands of the same sign   *)
(* compare as the sign of A - B, operands of different signs as their own. *)
(* They agree with each other once the sign bits are flipped, and of two   *)
(* different operands exactly one is the smaller.                          *)
(***************************************************************************)
ComparisonsAgree ==
  /\ op = 12 =>
       /\ result = Flag(IF Negative(A) = Negative(B) THEN Negative(Op(4)) ELSE Negative(A))
       /\ result = R(TopFlip(A), TopFlip(B), 13)
  /\ op \in 13 .. 15 =>
       /\ result = Flag(IF Negative(A) = Negative(B) THEN Negative(Op(4)) ELSE Negative(B))
       /\ result = Flag(A # B /\ R(B, A, op) = Zero)

(***************************************************************************)
(* The hand-written arithmetic shift is the logical shift of an operand    *)
(* that is not negative, and the complement of the logical shift of the    *)
(* complement of one that is: for every amount, 0 included.                *)
(***************************************************************************)
ShiftFillsWithTheSign ==
  op \in {10, 11} =>
    result = IF Negative(A) THEN Not(XLEN, R(Not(XLEN, A), B, 9)) ELSE Op(9)

(***************************************************************************)
(* The high halves of the two products differ by the operands that are     *)
(* negative: mulhs = mulhu - (A<0 ? B : 0) - (B<0 ? A : 0).                *)
(***************************************************************************)
HighProductsAgree ==
  op = 6 =>
    LET where(c, v) == IF c THEN v ELSE Zero
    IN  result = R(R(Op(7), where(Negative(A), B), 4), where(Negative(B), A), 4)

(***************************************************************************)
(* A shift left by s is the low half, and a shift right by XLEN - s the    *)
(* high half, of the product with 2^s.                                     *)
(***************************************************************************)
ShiftsAreProducts ==
  LET power == {shamt(B)}
      back  == R(Zero, B, 4)
  IN  /\ op = 8 => result = R(A, power, 5)
      /\ op = 9 /\ shamt(B) # 0 => result = R(A, {shamt(back)}, 7)

(* The signed and the unsigned product, and the shifts, at every width.    *)
ProductLaws == HighProductsAgree /\ ShiftsAreProducts

=============================================================================
