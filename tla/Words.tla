------------------------------- MODULE Words -------------------------------
(***************************************************************************)
(* Fixed-width bit vectors, as the SystemVerilog of rtl/ uses them.        *)
(*                                                                         *)
(* A vector of width w is the set of the positions of its 1 bits, a subset *)
(* of 0 .. w-1.  Bitwise operators are then set operators, a part select   *)
(* v[hi:lo] is a set comprehension, and a 32-bit or 64-bit vector never    *)
(* has to be an integer.  Every operator that returns a vector of width w  *)
(* cuts its result to w bits, which is how SystemVerilog drops a carry.    *)
(***************************************************************************)
EXTENDS Integers, FiniteSetsExt

Bits(w) == 0 .. w-1
Vec(w)  == SUBSET Bits(w)

(* {w{1'b1}} and the 1 of "x + 1'b1".                                      *)
Ones(w) == Bits(w)
One     == {0}

(***************************************************************************)
(* Conversion to and from the naturals, for the widths (up to 30 bits)     *)
(* whose values TLC can hold: Lit writes a literal such as 7'h33.          *)
(***************************************************************************)
Lit(w, n) == { i \in Bits(w) : (n \div 2^i) % 2 = 1 }
Num(v)    == MapThenSumSet(LAMBDA i : 2^i, v)

(***************************************************************************)
(* Part select v[hi:lo], and concatenation {hi, lo} where lo has width n.  *)
(***************************************************************************)
Slice(v, hi, lo) == { i \in Bits(hi - lo + 1) : i + lo \in v }
Cat(hi, n, lo)   == lo \cup { i + n : i \in hi }

(* A 32-bit literal, written as its two halves.                            *)
Word32(hi, lo) == Cat(Lit(16, hi), 16, Lit(16, lo))

(* Logical shifts by a constant or variable amount n.                      *)
ShiftLeft(w, v, n)  == { i \in Bits(w) : i - n \in v }
ShiftRight(w, v, n) == { i \in Bits(w) : i + n \in v }

Not(w, v) == Bits(w) \ v
Xor(a, b) == (a \ b) \cup (b \ a)

(* {{(w-n){v[n-1]}}, v}: sign extension from n bits to w.                  *)
SignExtend(w, n, v) == IF n - 1 \in v THEN v \cup (n .. w-1) ELSE v

(***************************************************************************)
(* Carry(w, a, b, c) is the vector of the carries INTO each bit of a+b+c:  *)
(* a carry reaches bit i when it was generated at some lower bit (or came  *)
(* in at bit 0) and every bit in between propagates it.                    *)
(***************************************************************************)
Carry(w, a, b, c) ==
  LET stopped(i) == { k \in 0 .. i-1 : k \notin a /\ k \notin b }
  IN  { i \in Bits(w) :
          \/ c /\ stopped(i) = {}
          \/ \E j \in a \cap b : j < i /\ j+1 .. i-1 \cap stopped(i) = {} }

Add(w, a, b) == Bits(w) \cap Xor(Xor(a, b), Carry(w, a, b, FALSE))
Sub(w, a, b) == Bits(w) \cap Xor(Xor(a, Not(w, b)), Carry(w, a, Not(w, b), TRUE))

(***************************************************************************)
(* The product modulo 2^w, by columns of base-256 digits: column k sums    *)
(* the digit products of weight 256^k and the carry out of column k-1.     *)
(***************************************************************************)
Mul(w, a, b) ==
  LET columns    == 0 .. (w-1) \div 8
      digit(v)   == [k \in columns |-> Num(Slice(v, 8*k + 7, 8*k))]
      da         == digit(a)
      db         == digit(b)
      column[k \in columns] ==
        SumFunction([i \in 0 .. k |-> da[i] * db[k - i]])
          + IF k = 0 THEN 0 ELSE column[k-1] \div 256
  IN  { i \in Bits(w) : (column[i \div 8] \div 2^(i % 8)) % 2 = 1 }

(* a < b: the highest bit in which they differ is a 1 of b.                *)
LessUnsigned(w, a, b) ==
  \E i \in b \ a : i+1 .. w-1 \cap Xor(a, b) = {}

LessSigned(w, a, b) ==
  IF (w-1 \in a) = (w-1 \in b) THEN LessUnsigned(w, a, b) ELSE w-1 \in a

=============================================================================
