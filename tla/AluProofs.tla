------------------------------ MODULE AluProofs ------------------------------
(***************************************************************************)
(* Theorems about module AluBench, for every set of operands and every     *)
(* pair of them.  The laws of subtraction and of the comparisons hold at   *)
(* every width, from their carries; those of the arithmetic shift stage by *)
(* stage.  At the width of the source, SHAMTBITS = 5, each of the sixteen  *)
(* results is the one of integer arithmetic, and the laws of the products  *)
(* follow: two words are the same when the same integer wraps to both.     *)
(***************************************************************************)
EXTENDS AluBench, WordsProofs

LEMMA Width == XLEN \in Nat /\ XLEN > 0 /\ XLEN - 1 \in Bits(XLEN)
  BY WidthAssumption DEF Bits

Typed == A \in Word /\ B \in Word /\ op \in 0 .. 15

LEMMA StaysTyped == Spec => []Typed
  <1>1. Init => Typed
    BY OperandsAssumption DEF Init, Typed
  <1>2. Typed /\ [NextOp]_vars => Typed'
    BY DEF Typed, NextOp, vars
  <1> QED
    BY <1>1, <1>2, PTL DEF Spec

-----------------------------------------------------------------------------
(* Subtraction.                                                            *)

LEMMA Subtracts ==
  ASSUME A \in Word, B \in Word
  PROVE  SubtractionInvertsAddition
  <1> SUFFICES ASSUME op = 4
               PROVE  R(result, B, 3) = A /\ result = R(Zero, R(B, A, 4), 4)
    BY DEF SubtractionInvertsAddition
  <1>1. result = Sub(XLEN, A, B)
    BY DEF result, R, Difference
  <1>2. R(result, B, 3) = Add(XLEN, result, B)
    BY DEF R
  <1>3. R(B, A, 4) = Sub(XLEN, B, A)
    BY DEF R, Difference
  <1>4. R(Zero, R(B, A, 4), 4) = Sub(XLEN, {}, R(B, A, 4))
    BY DEF R, Difference, Zero
  <1> QED
    BY <1>1, <1>2, <1>3, <1>4, AddInvertsSub, SubNegates, Width DEF Word

(***************************************************************************)
(* THEOREM.  Whatever overflows, A - B + B is A and A - B is 0 - (B - A).  *)
(***************************************************************************)
THEOREM SubtractionInverts == Spec => []SubtractionInvertsAddition
  <1>1. Typed => SubtractionInvertsAddition
    BY Subtracts DEF Typed
  <1> QED
    BY <1>1, StaysTyped, PTL

-----------------------------------------------------------------------------
(* Comparisons.                                                            *)

(* Of the bits below i, the highest in which a and b differ is a 1 of b.   *)
Below(a, b, i) == \E j \in b \ a : j < i /\ j+1 .. i-1 \cap Xor(a, b) = {}

LEMMA BelowNext ==
  ASSUME NEW a, NEW b, a \subseteq Nat, b \subseteq Nat, NEW i \in Nat
  PROVE  Below(a, b, i + 1) <=>
           (i \in b /\ i \notin a) \/ ((i \in a <=> i \in b) /\ Below(a, b, i))
  <1>1. (i + 1) - 1 = i
    OBVIOUS
  <1>2. ASSUME i \in b, i \notin a PROVE Below(a, b, i + 1)
    <2>1. i + 1 .. (i + 1) - 1 = {}
      OBVIOUS
    <2> QED
      BY <1>2, <2>1 DEF Below
  <1>3. ASSUME i \in a, i \notin b PROVE ~ Below(a, b, i + 1)
    <2>1. i \in Xor(a, b)
      BY <1>3 DEF Xor
    <2>2. \A j \in b \ a : j < i + 1 => i \in j+1 .. (i + 1) - 1
      BY <1>3
    <2> QED
      BY <2>1, <2>2 DEF Below
  <1>4. ASSUME i \in a <=> i \in b PROVE Below(a, b, i + 1) <=> Below(a, b, i)
    <2>1. i \notin Xor(a, b)
      BY <1>4 DEF Xor
    <2>2. \A j \in b \ a : j < i + 1 <=> j < i
      BY <1>4
    <2>3. \A j \in b \ a : j+1 .. (i + 1) - 1 \cap Xor(a, b) = j+1 .. i-1 \cap Xor(a, b)
      BY <2>1
    <2> QED
      BY <2>2, <2>3 DEF Below
  <1> QED
    BY <1>2, <1>3, <1>4

(* A subtraction borrows from bit i exactly if it is smaller below.        *)
LEMMA BorrowsBelow ==
  ASSUME NEW w \in Nat, NEW a \in Vec(w), NEW b \in Vec(w)
  PROVE  \A i \in Bits(w) : i \in Carry(w, a, Not(w, b), TRUE) <=> ~ Below(a, b, i)
  <1> DEFINE n == Not(w, b)
             borrow == Carry(w, a, n, TRUE)
             Good == { i \in Bits(w) : i \in borrow <=> ~ Below(a, b, i) }
  <1>1. a \subseteq Nat /\ b \subseteq Nat /\ n \subseteq Nat
    BY SumTypes
  <1>2. \A i \in Bits(w) : i \in n <=> i \notin b
    BY SumBits
  <1>3. w > 0 => 0 \in borrow
    BY <1>1, CarryIn
  <1>4. \A i \in Nat : i + 1 < w =>
          (i + 1 \in borrow <=> Majority(i \in a, i \in n, i \in borrow))
    BY <1>1, CarryOut
  <1> HIDE DEF n, borrow
  <1>5. ~ Below(a, b, 0)
    BY <1>1 DEF Below
  <1>6. w > 0 => 0 \in Good
    BY <1>3, <1>5 DEF Bits
  <1>7. \A i \in Nat : i + 1 < w /\ i \in Good => i + 1 \in Good
    <2> SUFFICES ASSUME NEW i \in Nat, i + 1 < w, i \in Good PROVE i + 1 \in Good
      OBVIOUS
    <2>1. i \in Bits(w) /\ i + 1 \in Bits(w)
      BY DEF Bits
    <2>2. Below(a, b, i + 1) <=>
            (i \in b /\ i \notin a) \/ ((i \in a <=> i \in b) /\ Below(a, b, i))
      BY <1>1, BelowNext
    <2> QED
      BY <1>2, <1>4, <2>1, <2>2 DEF Majority
  <1> HIDE DEF Good
  <1>8. \A i \in Bits(w) : i \in Good
    BY <1>6, <1>7, BitInduction
  <1> QED
    BY <1>8 DEF Good, n, borrow

(* The comparison seen from the top bit, and the sign of the difference.   *)
LEMMA LessFromTheTop ==
  ASSUME NEW w \in Nat, w > 0, NEW a \in Vec(w), NEW b \in Vec(w)
  PROVE  /\ LessUnsigned(w, a, b) <=>
              IF w-1 \in a <=> w-1 \in b THEN Below(a, b, w-1) ELSE w-1 \in b
         /\ (w-1 \in a <=> w-1 \in b) =>
              (w-1 \in Sub(w, a, b) <=> Below(a, b, w-1))
  <1>1. a \subseteq Nat /\ b \subseteq Nat /\ w-1 \in Nat /\ (w-1) + 1 = w
        /\ w-1 \in Bits(w)
    BY SumTypes DEF Bits
  <1>2. LessUnsigned(w, a, b) <=> Below(a, b, w)
    <2>1. \A j \in b \ a : j < w
      BY DEF Vec, Bits
    <2> QED
      BY <2>1 DEF LessUnsigned, Below
  <1>3. Below(a, b, w) <=>
          (w-1 \in b /\ w-1 \notin a) \/ ((w-1 \in a <=> w-1 \in b) /\ Below(a, b, w-1))
    <2>1. \A i \in Nat : Below(a, b, i + 1) <=>
            (i \in b /\ i \notin a) \/ ((i \in a <=> i \in b) /\ Below(a, b, i))
      BY <1>1, BelowNext
    <2> QED
      BY <1>1, <2>1
  <1>4. w-1 \in Sub(w, a, b) <=>
          Differ(Differ(w-1 \in a, w-1 \notin b), w-1 \in Carry(w, a, Not(w, b), TRUE))
    BY <1>1, SumBits
  <1>5. w-1 \in Carry(w, a, Not(w, b), TRUE) <=> ~ Below(a, b, w-1)
    BY <1>1, BorrowsBelow
  <1> QED
    BY <1>2, <1>3, <1>4, <1>5 DEF Differ

(* Two different words differ in a highest bit.                            *)
LEMMA HighestBit ==
  ASSUME NEW w \in Nat, NEW D, D \subseteq Bits(w), D # {}
  PROVE  \E h \in D : \A j \in D : j <= h
  <1> DEFINE M == { w - j : j \in D }
  <1>1. M \subseteq Nat /\ M # {}
    BY DEF Bits
  <1>2. PICK m \in M : \A k \in M : m <= k
    BY <1>1, LeastBit
  <1>3. PICK h \in D : m = w - h
    BY <1>2
  <1>4. \A j \in D : w - h <= w - j
    BY <1>2, <1>3
  <1> QED
    BY <1>4 DEF Bits

LEMMA Trichotomy ==
  ASSUME NEW w \in Nat, NEW a \in Vec(w), NEW b \in Vec(w)
  PROVE  LessUnsigned(w, a, b) <=> a # b /\ ~ LessUnsigned(w, b, a)
  <1>1. CASE a = b
    BY <1>1 DEF LessUnsigned
  <1>2. CASE a # b
    <2>1. Xor(a, b) \subseteq Bits(w) /\ Xor(a, b) # {} /\ Xor(b, a) = Xor(a, b)
      BY <1>2 DEF Xor, Vec
    <2>2. PICK h \in Xor(a, b) : \A j \in Xor(a, b) : j <= h
      BY <2>1, HighestBit
    <2>3. h \in Nat /\ h < w /\ h+1 .. w-1 \cap Xor(a, b) = {}
      BY <2>1, <2>2 DEF Bits
    <2>4. ASSUME NEW u, NEW v, Xor(u, v) = Xor(a, b)
          PROVE  LessUnsigned(w, u, v) <=> h \in v \ u
      <3>1. h \in v \ u => LessUnsigned(w, u, v)
        BY <2>3, <2>4 DEF LessUnsigned
      <3>2. ASSUME NEW i \in v \ u, i+1 .. w-1 \cap Xor(a, b) = {}
            PROVE  h \in v \ u
        <4>1. i \in Xor(a, b)
          BY <2>4 DEF Xor
        <4>2. i \in Nat /\ i <= h
          BY <2>1, <2>2, <4>1 DEF Bits
        <4>3. h \notin i+1 .. w-1
          BY <2>2, <3>2
        <4> QED
          BY <2>3, <4>2, <4>3
      <3> QED
        BY <2>4, <3>1, <3>2 DEF LessUnsigned
    <2> QED
      BY <1>2, <2>1, <2>2, <2>4 DEF Xor
  <1> QED
    BY <1>1, <1>2

(* Flipping both top bits turns the signed order into the unsigned one.    *)
LEMMA FlippedOrder ==
  ASSUME NEW a \in Word, NEW b \in Word
  PROVE  /\ TopFlip(a) \in Word
         /\ LessSigned(XLEN, a, b) <=> LessUnsigned(XLEN, TopFlip(a), TopFlip(b))
  <1> DEFINE t == XLEN - 1
             fa == TopFlip(a)
             fb == TopFlip(b)
  <1>1. XLEN \in Nat /\ XLEN > 0 /\ t \in Bits(XLEN)
    BY Width
  <1>2. a \in Vec(XLEN) /\ b \in Vec(XLEN)
    BY DEF Word
  <1>3. fa \in Vec(XLEN) /\ fb \in Vec(XLEN)
    BY <1>1, <1>2 DEF TopFlip, Xor, Vec
  <1>4. /\ \A j : j # t => (j \in fa <=> j \in a) /\ (j \in fb <=> j \in b)
        /\ t \in fa <=> t \notin a
        /\ t \in fb <=> t \notin b
    BY DEF TopFlip, Xor
  <1>5. Xor(fa, fb) = Xor(a, b)
    BY <1>4 DEF Xor
  <1>6. Below(fa, fb, t) <=> Below(a, b, t)
    <2>1. \A j : j \in Nat /\ j < t => (j \in fb \ fa <=> j \in b \ a)
      BY <1>4
    <2>2. fa \subseteq Nat /\ fb \subseteq Nat /\ a \subseteq Nat /\ b \subseteq Nat
      BY <1>1, <1>2, <1>3, SumTypes
    <2> HIDE DEF t, fa, fb
    <2> QED
      BY <1>5, <2>1, <2>2 DEF Below
  <1>7. LessUnsigned(XLEN, a, b) <=>
          IF t \in a <=> t \in b THEN Below(a, b, t) ELSE t \in b
    BY <1>1, <1>2, LessFromTheTop
  <1>8. LessUnsigned(XLEN, fa, fb) <=>
          IF t \in fa <=> t \in fb THEN Below(fa, fb, t) ELSE t \in fb
    BY <1>1, <1>3, LessFromTheTop
  <1> HIDE DEF t, fa, fb
  <1>9. LessSigned(XLEN, a, b) <=>
          IF t \in a <=> t \in b THEN LessUnsigned(XLEN, a, b) ELSE t \in a
    BY DEF LessSigned, t
  <1>10. LessSigned(XLEN, a, b) <=> LessUnsigned(XLEN, fa, fb)
    BY <1>4, <1>6, <1>7, <1>8, <1>9
  <1> QED
    BY <1>3, <1>10 DEF fa, fb, Word

LEMMA Compares ==
  ASSUME A \in Word, B \in Word
  PROVE  ComparisonsAgree
  <1>1. XLEN \in Nat /\ XLEN > 0 /\ A \in Vec(XLEN) /\ B \in Vec(XLEN)
    BY Width DEF Word
  <1>2. Op(4) = Sub(XLEN, A, B)
    BY DEF Op, R, Difference
  <1>3. (Negative(A) <=> Negative(B)) => (Negative(Op(4)) <=> LessUnsigned(XLEN, A, B))
    BY <1>1, <1>2, LessFromTheTop DEF Negative
  <1>4. (~ (Negative(A) <=> Negative(B))) => (LessUnsigned(XLEN, A, B) <=> Negative(B))
    BY <1>1, LessFromTheTop DEF Negative
  <1>5. LessSigned(XLEN, A, B) <=>
          IF Negative(A) <=> Negative(B) THEN LessUnsigned(XLEN, A, B) ELSE Negative(A)
    BY DEF LessSigned, Negative
  <1>6. Negative(A) \in BOOLEAN /\ Negative(B) \in BOOLEAN /\ Negative(Op(4)) \in BOOLEAN
    BY DEF Negative
  <1>7. ASSUME NEW p \in BOOLEAN, NEW q \in BOOLEAN, p <=> q PROVE Flag(p) = Flag(q)
    BY <1>7 DEF Flag
  <1>8. ASSUME op = 12
        PROVE  /\ result = Flag(IF Negative(A) = Negative(B) THEN Negative(Op(4)) ELSE Negative(A))
               /\ result = R(TopFlip(A), TopFlip(B), 13)
    <2>1. result = Flag(LessSigned(XLEN, A, B))
      BY <1>8 DEF result, R, Less
    <2>2. R(TopFlip(A), TopFlip(B), 13) = Flag(LessUnsigned(XLEN, TopFlip(A), TopFlip(B)))
      BY DEF R, Less
    <2>3. LessSigned(XLEN, A, B) <=> LessUnsigned(XLEN, TopFlip(A), TopFlip(B))
      BY FlippedOrder
    <2>4. LessSigned(XLEN, A, B) <=>
            IF Negative(A) = Negative(B) THEN Negative(Op(4)) ELSE Negative(A)
      BY <1>3, <1>5, <1>6
    <2> QED
      BY <2>1, <2>2, <2>3, <2>4 DEF Flag
  <1>9. ASSUME op \in 13 .. 15
        PROVE  /\ result = Flag(IF Negative(A) = Negative(B) THEN Negative(Op(4)) ELSE Negative(B))
               /\ result = Flag(A # B /\ R(B, A, op) = Zero)
    <2>1. op # 12 /\ op \notin 0 .. 11
      BY <1>9
    <2>2. \A u, v : R(u, v, op) = Flag(LessUnsigned(XLEN, u, v))
      BY <2>1, <1>9 DEF R, Less
    <2>3. R(B, A, op) = Zero <=> ~ LessUnsigned(XLEN, B, A)
      BY <2>2 DEF Flag, Zero, One
    <2>4. LessUnsigned(XLEN, A, B) <=> A # B /\ ~ LessUnsigned(XLEN, B, A)
      BY <1>1, Trichotomy
    <2>5. LessUnsigned(XLEN, A, B) <=>
            IF Negative(A) = Negative(B) THEN Negative(Op(4)) ELSE Negative(B)
      BY <1>3, <1>4, <1>6
    <2>6. result = Flag(LessUnsigned(XLEN, A, B))
      BY <2>2 DEF result
    <2> QED
      BY <2>3, <2>4, <2>5, <2>6 DEF Flag
  <1> QED
    BY <1>8, <1>9 DEF ComparisonsAgree

(***************************************************************************)
(* THEOREM.  The comparisons are those of the difference and of its sign,  *)
(* the signed one is the unsigned one with both signs flipped, and of two  *)
(* different words exactly one is the smaller.                             *)
(***************************************************************************)
THEOREM ComparisonsAreBorrows == Spec => []ComparisonsAgree
  <1>1. Typed => ComparisonsAgree
    BY Compares DEF Typed
  <1> QED
    BY <1>1, StaysTyped, PTL

-----------------------------------------------------------------------------
(* The arithmetic shift.                                                   *)

(* v shifted right by n, with copies of its sign bit from above.           *)
SignedShift(v, n) ==
  { i \in Bits(XLEN) : i + n \in v \/ (XLEN - 1 \in v /\ i + n >= XLEN) }

LEMMA Amounts ==
  ASSUME SHAMTBITS <= 5, NEW s \in SUBSET Bits(SHAMTBITS)
  PROVE  /\ IsFiniteSet(s)
         /\ Num(s) \in Nat
         /\ \A x \in s : 2^x \in 1 .. XLEN
  <1>1. SHAMTBITS \in 0 .. 5 /\ XLEN = 2^SHAMTBITS
    BY WidthAssumption
  <1>2. s \subseteq 0 .. 4
    BY <1>1 DEF Bits
  <1>3. s \in Vec(5)
    BY <1>2 DEF Vec, Bits
  <1>4. Num(s) \in Nat
    BY <1>3, NumOf5Bits DEF Bit
  <1>5. IsFiniteSet(s)
    <2>1. IsFiniteSet(0 .. 4)
      BY FS_Interval, 0 \in Int, 4 \in Int
    <2> QED
      BY <1>2, <2>1, FS_Subset
  <1>6. /\ 2^0 = 1 /\ 2^1 = 2 /\ 2^2 = 4
        /\ 2^3 = 8 /\ 2^4 = 16 /\ 2^5 = 32
    OBVIOUS
  <1>7. ASSUME NEW x \in s
        PROVE  2^x \in 1 .. XLEN
    <2>1. x \in 0 .. 4 /\ x < SHAMTBITS
      BY <1>1, <1>2 DEF Bits
    <2>2. <<x, 2^x>> \in { <<0, 1>>, <<1, 2>>, <<2, 4>>, <<3, 8>>, <<4, 16>> }
      <3>1. x = 0 \/ x = 1 \/ x = 2 \/ x = 3 \/ x = 4
        BY <2>1
      <3> QED
        BY <1>6, <3>1
    <2>3. <<SHAMTBITS, XLEN>> \in
            { <<0, 1>>, <<1, 2>>, <<2, 4>>, <<3, 8>>, <<4, 16>>, <<5, 32>> }
      <3>1. SHAMTBITS = 0 \/ SHAMTBITS = 1 \/ SHAMTBITS = 2 \/ SHAMTBITS = 3
              \/ SHAMTBITS = 4 \/ SHAMTBITS = 5
        BY <1>1
      <3> QED
        BY <1>1, <1>6, <3>1
    <2> DEFINE power == 2^x
    <2>4. <<x, power>> \in { <<0, 1>>, <<1, 2>>, <<2, 4>>, <<3, 8>>, <<4, 16>> }
      BY <2>2
    <2> HIDE DEF power
    <2>5. power \in 1 .. XLEN
      BY <2>1, <2>3, <2>4
    <2> QED
      BY <2>5 DEF power
  <1> QED
    BY <1>4, <1>5, <1>7

LEMMA StageOfShift ==
  ASSUME NEW v \in Word, NEW n \in Nat, NEW p \in 1 .. XLEN
  PROVE  ShiftStage(v, p, SignedShift(v, n)) = SignedShift(v, p + n)
  <1>1. XLEN \in Nat /\ v \subseteq 0 .. XLEN - 1 /\ Bits(XLEN) = 0 .. XLEN - 1
    BY Width DEF Word, Vec, Bits
  <1> DEFINE stage == ShiftStage(v, p, SignedShift(v, n))
  <1>2. stage = { i \in Bits(XLEN) : i + p \in SignedShift(v, n) }
                  \cup (IF XLEN - 1 \in v THEN XLEN - p .. XLEN - 1 ELSE {})
    BY DEF ShiftStage, ShiftRight
  <1>3. stage \subseteq 0 .. XLEN - 1 /\ SignedShift(v, p + n) \subseteq 0 .. XLEN - 1
    BY <1>1, <1>2 DEF SignedShift
  <1>4. ASSUME NEW i \in 0 .. XLEN - 1
        PROVE  i \in stage <=> i \in SignedShift(v, p + n)
    <2>1. i \in stage <=>
            (i + p \in SignedShift(v, n) \/ (XLEN - 1 \in v /\ i + p >= XLEN))
      BY <1>1, <1>2
    <2>2. i \in SignedShift(v, p + n) <=>
            (i + (p + n) \in v \/ (XLEN - 1 \in v /\ i + (p + n) >= XLEN))
      BY <1>1 DEF SignedShift
    <2>3. i + p \in SignedShift(v, n) <=>
            (i + p <= XLEN - 1
               /\ ((i + p) + n \in v \/ (XLEN - 1 \in v /\ (i + p) + n >= XLEN)))
      BY <1>1 DEF SignedShift
    <2>4. (i + p) + n = i + (p + n)
      BY <1>1
    <2>5. i + p >= XLEN => i + (p + n) \notin v /\ i + (p + n) >= XLEN
      BY <1>1
    <2>6. i + p <= XLEN - 1 \/ i + p >= XLEN
      BY <1>1
    <2> HIDE DEF stage
    <2> QED
      BY <2>1, <2>2, <2>3, <2>4, <2>5, <2>6
  <1> HIDE DEF stage
  <1>5. stage = SignedShift(v, p + n)
    BY <1>3, <1>4
  <1> QED
    BY <1>5 DEF stage

(* The stages compose to one shift by the sum of their amounts: the        *)
(* smallest set of stages that is a counterexample is not empty, and one   *)
(* stage less is not a counterexample.                                     *)
LEMMA ShiftedIsSigned ==
  ASSUME SHAMTBITS <= 5, NEW v \in Word, NEW u
  PROVE  shifted(v, u) = SignedShift(v, Num(u \cap Bits(SHAMTBITS)))
  <1> DEFINE S == u \cap Bits(SHAMTBITS)
             IsIter(h) == h = [s \in SUBSET S |->
                                IF s = {} THEN v
                                ELSE ShiftStage(v, 2^(CHOOSE x \in s : TRUE), h[Rest(s)])]
             iter == CHOOSE h : IsIter(h)
             f == [s \in SUBSET S |-> SignedShift(v, Num(s))]
  <1>1. shifted(v, u) = Bits(XLEN) \cap iter[S]
    BY DEF shifted, FoldSet, MapThenFoldSet, Rest
  <1>2. ASSUME NEW s \in SUBSET S, s # {}
        PROVE  SignedShift(v, Num(s)) =
                 ShiftStage(v, 2^(CHOOSE x \in s : TRUE), SignedShift(v, Num(Rest(s))))
    <2>1. s \in SUBSET Bits(SHAMTBITS) /\ Rest(s) \in SUBSET Bits(SHAMTBITS)
      BY <1>2, RestIsSmaller
    <2>2. Num(s) = 2^(CHOOSE x \in s : TRUE) + Num(Rest(s))
      <3>1. IsFiniteSet(s)
        BY <2>1, Amounts
      <3>2. s \subseteq Int
        BY <2>1, WidthAssumption DEF Bits
      <3> QED
        BY <1>2, <3>1, <3>2, NumUnfolds
    <2>3. 2^(CHOOSE x \in s : TRUE) \in 1 .. XLEN /\ Num(Rest(s)) \in Nat
      BY <1>2, <2>1, Amounts
    <2> QED
      BY <2>2, <2>3, StageOfShift
  <1>3. SignedShift(v, Num({})) = v
    <2>1. XLEN \in Nat /\ v \subseteq 0 .. XLEN - 1 /\ Bits(XLEN) = 0 .. XLEN - 1
      BY Width DEF Word, Vec, Bits
    <2>2. \A i \in 0 .. XLEN - 1 : i + 0 = i /\ ~ (i >= XLEN)
      BY <2>1
    <2> QED
      BY <2>1, <2>2, NumOfNone DEF SignedShift
  <1>4. IsIter(f)
    <2>1. \A s \in SUBSET S : s # {} => Rest(s) \in SUBSET S
      BY RestIsSmaller
    <2>2. \A s \in SUBSET S : s # {} => f[Rest(s)] = SignedShift(v, Num(Rest(s)))
      BY <2>1
    <2>3. \A s \in SUBSET S : SignedShift(v, Num(s)) =
            IF s = {} THEN v ELSE ShiftStage(v, 2^(CHOOSE x \in s : TRUE), f[Rest(s)])
      BY <1>2, <1>3, <2>2
    <2> QED
      BY <2>3
  <1>5. IsIter(iter)
    BY <1>4
  <1> HIDE DEF iter, f
  <1>6. \A s \in SUBSET S : iter[s] =
          IF s = {} THEN v ELSE ShiftStage(v, 2^(CHOOSE x \in s : TRUE), iter[Rest(s)])
    BY <1>5
  <1> HIDE DEF IsIter
  <1> DEFINE Wrong == { s \in SUBSET S : iter[s] # SignedShift(v, Num(s)) }
  <1>7. IsFiniteSet(S)
    BY Amounts
  <1>8. Wrong = {}
    <2> SUFFICES ASSUME Wrong # {} PROVE FALSE
      OBVIOUS
    <2>1. PICK s \in Wrong : \A t \in Wrong : <<t, s>> \notin StrictSubsetOrdering(S)
      <3>1. Wrong \in SUBSET SUBSET S
        OBVIOUS
      <3> HIDE DEF Wrong, S
      <3> QED
        BY <1>7, <3>1, SmallestSet
    <2>2. s \in SUBSET S /\ iter[s] # SignedShift(v, Num(s))
      BY <2>1
    <2>3. s # {}
      BY <1>3, <1>6, <2>2
    <2>4. Rest(s) \in SUBSET S /\ Rest(s) \notin Wrong
      BY <2>1, <2>2, <2>3, RestIsSmaller
    <2> QED
      BY <1>2, <1>6, <2>2, <2>3, <2>4
  <1>9. iter[S] = SignedShift(v, Num(S))
    BY <1>8
  <1> QED
    BY <1>1, <1>9 DEF SignedShift

LEMMA ShiftsWithSign ==
  ASSUME SHAMTBITS <= 5, A \in Word
  PROVE  ShiftFillsWithTheSign
  <1> DEFINE n == Num(B \cap Bits(SHAMTBITS))
             low(v) == ShiftRight(XLEN, v, n)
  <1>1. n \in Nat
    BY Amounts
  <1>2. shamt(B) = n
    <2>1. SHAMTBITS \in Nat
      BY WidthAssumption
    <2>2. (SHAMTBITS - 1) - 0 + 1 = SHAMTBITS /\ \A i \in Bits(SHAMTBITS) : i + 0 = i
      BY <2>1 DEF Bits
    <2>3. Slice(B, SHAMTBITS - 1, 0) = B \cap Bits(SHAMTBITS)
      BY <2>2 DEF Slice
    <2> QED
      BY <2>3 DEF shamt
  <1>3. XLEN \in Nat /\ A \subseteq Bits(XLEN) /\ Bits(XLEN) = 0 .. XLEN - 1
    BY Width DEF Word, Vec, Bits
  <1>4. \A v : R(v, B, 9) = low(v)
    BY <1>2 DEF R
  <1>5. op \in {10, 11} => result = SignedShift(A, n)
    BY ShiftedIsSigned DEF result, R
  <1> HIDE DEF n
  <1>6. CASE Negative(A)
    <2>1. \A i \in Bits(XLEN) : i + n \in Not(XLEN, A) <=> (i + n < XLEN /\ i + n \notin A)
      BY <1>1, <1>3 DEF Not
    <2>2. \A i \in Bits(XLEN) :
            (i + n \in A \/ i + n >= XLEN) <=> ~ (i + n < XLEN /\ i + n \notin A)
      BY <1>1, <1>3
    <2>3. SignedShift(A, n) = Not(XLEN, low(Not(XLEN, A)))
      <3>1. SignedShift(A, n) = { i \in Bits(XLEN) : i + n \in A \/ i + n >= XLEN }
        BY <1>6 DEF SignedShift, Negative
      <3>2. low(Not(XLEN, A)) = { i \in Bits(XLEN) : i + n < XLEN /\ i + n \notin A }
        BY <2>1 DEF ShiftRight
      <3>3. Not(XLEN, low(Not(XLEN, A))) = Bits(XLEN) \ low(Not(XLEN, A))
        BY DEF Not
      <3> QED
        BY <2>2, <3>1, <3>2, <3>3
    <2> QED
      BY <1>4, <1>5, <1>6, <2>3 DEF ShiftFillsWithTheSign
  <1>7. CASE ~ Negative(A)
    <2>1. SignedShift(A, n) = low(A)
      BY <1>7 DEF SignedShift, ShiftRight, Negative
    <2> QED
      BY <1>4, <1>5, <1>7, <2>1 DEF ShiftFillsWithTheSign, Op
  <1> QED
    BY <1>6, <1>7

(***************************************************************************)
(* THEOREM.  The hand-written arithmetic shift fills with the sign, at     *)
(* every amount: for the source's width, XLEN = 32, and every smaller one. *)
(***************************************************************************)
THEOREM ShiftsFill ==
  ASSUME SHAMTBITS <= 5
  PROVE  Spec => []ShiftFillsWithTheSign
  <1>1. Typed => ShiftFillsWithTheSign
    BY ShiftsWithSign DEF Typed
  <1> QED
    BY <1>1, StaysTyped, PTL

-----------------------------------------------------------------------------
(* The result as an integer, at the width of the source.                   *)

LEMMA SourceWidth ==
  ASSUME SHAMTBITS = 5
  PROVE  /\ XLEN = 32 /\ Word = Vec(32) /\ XLEN - 1 = 31 /\ Wide = 64 /\ Wide - 1 = 63
         /\ 2^XLEN = Pow(32) /\ Pow(32) = 4294967296
  <1>1. 2^5 = 32
    OBVIOUS
  <1>2. XLEN = 32
    BY <1>1, WidthAssumption
  <1>3. Pow(32) = 4294967296
    BY PowersOfTwo
  <1> QED
    BY <1>2, <1>3 DEF Word, Wide, Pow

(* A word is what every integer wraps to that is its value, give or take   *)
(* a multiple of 2^32.                                                     *)
LEMMA WordOfInteger ==
  ASSUME SHAMTBITS = 5, NEW v \in Word, NEW x \in Int, NEW k \in Int,
         x = k * Pow(32) + Num(v)
  PROVE  v = Wrap(x)
  <1>1. XLEN = 32 /\ v \in Vec(32)
    BY SourceWidth
  <1>2. v = Lit(32, x % 2^32)
    BY <1>1, Wraps
  <1> QED
    BY <1>1, <1>2 DEF Wrap

LEMMA WordValue ==
  ASSUME SHAMTBITS = 5, NEW v \in Word
  PROVE  /\ Num(v) \in Nat /\ Num(v) < Pow(32)
         /\ Signed(v) = Num(v) - Pow(32) * SignOf(v)
         /\ SignOf(v) \in {0, 1}
  <1>1. XLEN = 32 /\ v \in Vec(32) /\ XLEN - 1 = 31 /\ 2^XLEN = Pow(32)
    BY SourceWidth
  <1>2. Num(v) \in Nat /\ Num(v) < Pow(32) /\ Pow(32) \in Nat
    BY <1>1, LowOfWord, LowBound, PowType
  <1> QED
    BY <1>1, <1>2 DEF Signed, SignOf

-----------------------------------------------------------------------------
(* The bitwise operations.                                                 *)

LEMMA BinaryOfBits ==
  ASSUME SHAMTBITS = 5, NEW v \in Word, NEW d, \A i \in Bits(XLEN) : d[i] = Bit(v, i, 1)
  PROVE  Binary(d) = Num(v)
  <1> DEFINE f == [i \in Bits(XLEN) |-> 2^i * d[i]]
             Good == { n \in Bits(32) : SumFunctionOnSet(f, 0 .. n) = Low(v, n + 1) }
  <1>1. XLEN = 32 /\ v \in Vec(32) /\ Bits(XLEN) = 0 .. 31
    BY SourceWidth DEF Bits
  <1>2. \A i \in 0 .. 31 : f[i] = Bit(v, i, Pow(i)) /\ f[i] \in Int
    <2> SUFFICES ASSUME NEW i \in 0 .. 31
                 PROVE  f[i] = Bit(v, i, Pow(i)) /\ f[i] \in Int
      OBVIOUS
    <2>1. f[i] = Pow(i) * d[i] /\ d[i] = Bit(v, i, 1)
      BY <1>1 DEF Pow
    <2>2. Pow(i) \in Nat
      BY PowType
    <2> HIDE DEF f
    <2> QED
      BY <2>1, <2>2 DEF Bit
  <1>3. Binary(d) = SumFunctionOnSet(f, 0 .. 31)
    BY <1>1 DEF Binary, SumFunction
  <1> HIDE DEF f
  <1>4. \A n \in Nat : Low(v, n + 1) = Low(v, n) + Bit(v, n, Pow(n)) /\ Low(v, n) \in Int
    BY LowNext
  <1>5. 0 \in Good
    <2>1. SumFunctionOnSet(f, 0 .. 0) = f[0]
      BY <1>2, SumOfFirst
    <2>2. Low(v, 0 + 1) = Low(v, 0) + Bit(v, 0, Pow(0)) /\ Low(v, 0) = 0
      BY <1>4, LowOfNone
    <2>3. f[0] = Bit(v, 0, Pow(0)) /\ f[0] \in Int
      BY <1>2
    <2> QED
      BY <2>1, <2>2, <2>3 DEF Bits
  <1>6. ASSUME NEW n \in Nat, n + 1 < 32, n \in Good
        PROVE  n + 1 \in Good
    <2>1. n + 1 \in 0 .. 31 /\ \A k \in 0 .. n + 1 : k \in 0 .. 31
      BY <1>6
    <2>2. \A k \in 0 .. n + 1 : f[k] \in Int
      BY <1>2, <2>1
    <2>3. SumFunctionOnSet(f, 0 .. n + 1) = SumFunctionOnSet(f, 0 .. n) + f[n + 1]
      BY <2>2, SumOfNext
    <2>4. f[n + 1] = Bit(v, n + 1, Pow(n + 1))
      BY <1>2, <2>1
    <2>5. n + 1 \in Nat
      OBVIOUS
    <2>6. Low(v, (n + 1) + 1) = Low(v, n + 1) + Bit(v, n + 1, Pow(n + 1))
      BY <1>4, <2>5
    <2>7. SumFunctionOnSet(f, 0 .. n) = Low(v, n + 1)
      BY <1>6
    <2> QED
      BY <1>6, <2>3, <2>4, <2>6, <2>7 DEF Bits
  <1> HIDE DEF Good
  <1>7. \A n \in Bits(32) : n \in Good
    BY <1>5, <1>6, BitInduction
  <1>8. 31 \in Bits(32) /\ 31 + 1 = 32
    BY DEF Bits
  <1>9. SumFunctionOnSet(f, 0 .. 31) = Low(v, 32)
    BY <1>7, <1>8 DEF Good
  <1> QED
    BY <1>1, <1>3, <1>9, LowOfWord

LEMMA BitOfWord ==
  ASSUME SHAMTBITS = 5, NEW v \in Word, NEW i \in Bits(XLEN)
  PROVE  BitOf(v, i) = Bit(v, i, 1)
  <1>1. XLEN = 32 /\ v \in Vec(32)
    BY SourceWidth
  <1>2. Lit(32, Num(v)) = v
    BY <1>1, LitOfNum
  <1>3. i \in v <=> (Num(v) \div 2^i) % 2 = 1
    BY <1>1, <1>2 DEF Lit
  <1> DEFINE q == Num(v) \div Pow(i)
  <1>4. q \in Int
    <2>1. i \in 0 .. 32
      BY <1>1 DEF Bits
    <2>2. Pow(i) \in Nat /\ Pow(i) > 0 /\ Num(v) \in Int
      BY <2>1, PowType, WordValue
    <2> QED
      BY <2>2, DividesBack
  <1>5. BitOf(v, i) = q % 2 /\ (i \in v <=> q % 2 = 1)
    BY <1>3 DEF BitOf, Pow
  <1> HIDE DEF q
  <1>6. q % 2 \in {0, 1}
    BY <1>4
  <1> QED
    BY <1>5, <1>6 DEF Bit

LEMMA BitwiseOps ==
  ASSUME SHAMTBITS = 5, A \in Word, B \in Word, op \in 0 .. 2
  PROVE  AluMatchesArithmetic
  <1>1. XLEN \in Nat /\ \A i \in Bits(XLEN) : BitOf(A, i) = Bit(A, i, 1) /\ BitOf(B, i) = Bit(B, i, 1)
    BY BitOfWord, SourceWidth
  <1>2. (A \cap B) \in Word /\ (A \cup B) \in Word /\ Xor(A, B) \in Word
    BY DEF Word, Vec, Xor
  <1>3. ASSUME NEW v \in Word, result = v, Arithmetic = Num(v)
        PROVE  AluMatchesArithmetic
    <2>1. Num(v) \in Int /\ 0 \in Int /\ Pow(32) \in Nat
      BY WordValue, PowType
    <2>2. Num(v) = 0 * Pow(32) + Num(v)
      BY <2>1
    <2>3. v = Wrap(Num(v))
      BY <2>1, <2>2, WordOfInteger
    <2> QED
      BY <1>3, <2>3 DEF AluMatchesArithmetic
  <1>4. CASE op = 0
    <2> DEFINE d == [i \in Bits(XLEN) |-> BitOf(A, i) * BitOf(B, i)]
    <2>1. \A i \in Bits(XLEN) : d[i] = Bit(A \cap B, i, 1)
      BY <1>1 DEF Bit
    <2>2. result = A \cap B /\ Arithmetic = Binary(d)
      BY <1>4 DEF result, R, Arithmetic
    <2> HIDE DEF d
    <2>3. Binary(d) = Num(A \cap B)
      BY <1>2, <2>1, BinaryOfBits
    <2> QED
      BY <1>2, <1>3, <2>2, <2>3
  <1>5. CASE op = 1
    <2> DEFINE d == [i \in Bits(XLEN) |-> BitOf(A, i) + BitOf(B, i) - BitOf(A, i) * BitOf(B, i)]
    <2>1. \A i \in Bits(XLEN) : d[i] = Bit(A \cup B, i, 1)
      BY <1>1 DEF Bit
    <2>2. result = A \cup B /\ Arithmetic = Binary(d)
      BY <1>5 DEF result, R, Arithmetic
    <2> HIDE DEF d
    <2>3. Binary(d) = Num(A \cup B)
      BY <1>2, <2>1, BinaryOfBits
    <2> QED
      BY <1>2, <1>3, <2>2, <2>3
  <1>6. CASE op = 2
    <2> DEFINE d == [i \in Bits(XLEN) |-> (BitOf(A, i) + BitOf(B, i)) % 2]
    <2>1. \A i \in Bits(XLEN) : d[i] = Bit(Xor(A, B), i, 1)
      BY <1>1 DEF Bit, Xor
    <2>2. result = Xor(A, B) /\ Arithmetic = Binary(d)
      BY <1>6 DEF result, R, Arithmetic
    <2> HIDE DEF d
    <2>3. Binary(d) = Num(Xor(A, B))
      BY <1>2, <2>1, BinaryOfBits
    <2> QED
      BY <1>2, <1>3, <2>2, <2>3
  <1> QED
    BY <1>4, <1>5, <1>6

-----------------------------------------------------------------------------
(* Sums, differences and comparisons.                                      *)

LEMMA SumOps ==
  ASSUME SHAMTBITS = 5, A \in Word, B \in Word, op \in {3, 4}
  PROVE  AluMatchesArithmetic
  <1>1. XLEN = 32 /\ A \in Vec(32) /\ B \in Vec(32) /\ Word = Vec(32)
    BY SourceWidth
  <1>2. Num(A) \in Nat /\ Num(B) \in Nat
    BY WordValue
  <1>3. CASE op = 3
    <2>1. result = Add(32, A, B) /\ Arithmetic = Num(A) + Num(B)
      BY <1>1, <1>3 DEF result, R, Arithmetic
    <2>2. PICK k \in {0, 1} : Num(A) + Num(B) = k * Pow(32) + Num(Add(32, A, B))
      BY <1>1, NumOfAdd
    <2>3. Add(32, A, B) \in Word /\ Num(A) + Num(B) \in Int /\ k \in Int
      BY <1>1, <1>2, SumTypes
    <2>4. Add(32, A, B) = Wrap(Num(A) + Num(B))
      BY <2>2, <2>3, WordOfInteger
    <2> QED
      BY <2>1, <2>4 DEF AluMatchesArithmetic
  <1>4. CASE op = 4
    <2>1. result = Sub(32, A, B) /\ Arithmetic = Num(A) - Num(B)
      BY <1>1, <1>4 DEF result, R, Difference, Arithmetic
    <2>2. PICK k \in {-1, 0} : Num(A) - Num(B) = k * Pow(32) + Num(Sub(32, A, B))
      BY <1>1, NumOfSub
    <2>3. Sub(32, A, B) \in Word /\ Num(A) - Num(B) \in Int /\ k \in Int
      BY <1>1, <1>2, SumTypes
    <2>4. Sub(32, A, B) = Wrap(Num(A) - Num(B))
      BY <2>2, <2>3, WordOfInteger
    <2> QED
      BY <2>1, <2>4 DEF AluMatchesArithmetic
  <1> QED
    BY <1>3, <1>4

(* The highest bit that differs decides which number is the smaller.       *)
LEMMA BelowIsLess ==
  ASSUME NEW a, NEW b, a \subseteq Nat, b \subseteq Nat, NEW n \in 0 .. 32
  PROVE  Below(a, b, n) <=> Low(a, n) < Low(b, n)
  <1> DEFINE Good == { i \in Bits(33) : Below(a, b, i) <=> Low(a, i) < Low(b, i) }
  <1>1. 0 \in Good
    <2>1. ~ Below(a, b, 0)
      BY DEF Below
    <2>2. ~ (Low(a, 0) < Low(b, 0))
      BY LowOfNone
    <2> QED
      BY <2>1, <2>2 DEF Bits
  <1>2. ASSUME NEW i \in Nat, i + 1 < 33, i \in Good
        PROVE  i + 1 \in Good
    <2>1. i \in 0 .. 32 /\ i + 1 \in Bits(33)
      BY <1>2 DEF Bits
    <2>2. /\ Low(a, i) \in Nat /\ Low(a, i) < Pow(i) /\ Pow(i) \in Nat
          /\ Low(b, i) \in Nat /\ Low(b, i) < Pow(i)
      BY <2>1, LowBound, PowType
    <2>3. /\ Low(a, i + 1) = Low(a, i) + Bit(a, i, Pow(i))
          /\ Low(b, i + 1) = Low(b, i) + Bit(b, i, Pow(i))
      BY LowNext
    <2>4. Below(a, b, i + 1) <=>
            (i \in b /\ i \notin a) \/ ((i \in a <=> i \in b) /\ Below(a, b, i))
      BY BelowNext
    <2>5. Below(a, b, i) <=> Low(a, i) < Low(b, i)
      BY <1>2
    <2>6. Below(a, b, i + 1) <=> Low(a, i + 1) < Low(b, i + 1)
      BY <2>2, <2>3, <2>4, <2>5 DEF Bit
    <2> QED
      BY <2>1, <2>6
  <1> HIDE DEF Good
  <1>3. \A i \in Bits(33) : i \in Good
    BY <1>1, <1>2, BitInduction
  <1> QED
    BY <1>3 DEF Good, Bits

LEMMA LessOfNumbers ==
  ASSUME SHAMTBITS = 5, NEW a \in Word, NEW b \in Word
  PROVE  /\ LessUnsigned(XLEN, a, b) <=> Num(a) < Num(b)
         /\ LessSigned(XLEN, a, b) <=> Signed(a) < Signed(b)
  <1>1. XLEN = 32 /\ a \in Vec(32) /\ b \in Vec(32) /\ XLEN - 1 = 31
    BY SourceWidth
  <1>2. a \subseteq Nat /\ b \subseteq Nat
    BY <1>1, SumTypes
  <1>3. LessUnsigned(32, a, b) <=> Below(a, b, 32)
    <2>1. \A j \in b \ a : j < 32
      BY <1>1 DEF Vec, Bits
    <2> QED
      BY <2>1 DEF LessUnsigned, Below
  <1>4. LessUnsigned(32, a, b) <=> Num(a) < Num(b)
    <2>1. \A i \in 0 .. 32 : Below(a, b, i) <=> Low(a, i) < Low(b, i)
      BY <1>2, BelowIsLess
    <2>2. 32 \in 0 .. 32
      OBVIOUS
    <2>3. Below(a, b, 32) <=> Low(a, 32) < Low(b, 32)
      BY <2>1, <2>2
    <2> QED
      BY <1>1, <1>3, <2>3, LowOfWord
  <1>5. /\ Num(a) \in Nat /\ Num(a) < Pow(32) /\ Signed(a) = Num(a) - Pow(32) * SignOf(a)
        /\ Num(b) \in Nat /\ Num(b) < Pow(32) /\ Signed(b) = Num(b) - Pow(32) * SignOf(b)
        /\ Pow(32) \in Nat
    BY WordValue, PowType
  <1>6. LessSigned(32, a, b) <=>
          IF 31 \in a <=> 31 \in b THEN LessUnsigned(32, a, b) ELSE 31 \in a
    BY <1>1 DEF LessSigned
  <1>7. LessSigned(32, a, b) <=> Signed(a) < Signed(b)
    BY <1>4, <1>5, <1>6 DEF SignOf
  <1> QED
    BY <1>1, <1>4, <1>7

LEMMA CompareOps ==
  ASSUME SHAMTBITS = 5, A \in Word, B \in Word, op \in 12 .. 15
  PROVE  AluMatchesArithmetic
  <1>1. ASSUME NEW p \in BOOLEAN
        PROVE  Flag(p) = Wrap(Truth(p))
    <2>1. {} \in Word /\ {0} \in Word /\ {0} \in Vec(1)
      BY SourceWidth DEF Vec, Bits
    <2>2. Num({}) = 0 /\ Num({0}) = 1
      BY <2>1, NumOfNone, NumOf1Bit DEF Bit
    <2>3. Pow(32) \in Nat
      BY PowType
    <2>4. 0 = 0 * Pow(32) + Num({}) /\ 1 = 0 * Pow(32) + Num({0})
      BY <2>2, <2>3
    <2>5. {} = Wrap(0) /\ {0} = Wrap(1)
      BY <2>1, <2>4, WordOfInteger
    <2> QED
      BY <2>5 DEF Flag, Truth, One
  <1>2. CASE op = 12
    <2>1. result = Flag(LessSigned(XLEN, A, B)) /\ Arithmetic = Truth(Signed(A) < Signed(B))
      BY <1>2 DEF result, R, Less, Arithmetic
    <2>2. LessSigned(XLEN, A, B) <=> Signed(A) < Signed(B)
      BY LessOfNumbers
    <2>3. Flag(LessSigned(XLEN, A, B)) = Flag(Signed(A) < Signed(B))
      BY <2>2 DEF Flag
    <2>4. (Signed(A) < Signed(B)) \in BOOLEAN
      OBVIOUS
    <2> QED
      BY <1>1, <2>1, <2>3, <2>4 DEF AluMatchesArithmetic
  <1>3. CASE op \in 13 .. 15
    <2>1. op # 12 /\ op \notin 0 .. 11
      BY <1>3
    <2>2. result = Flag(LessUnsigned(XLEN, A, B)) /\ Arithmetic = Truth(Num(A) < Num(B))
      BY <2>1, <1>3 DEF result, R, Less, Arithmetic
    <2>3. LessUnsigned(XLEN, A, B) <=> Num(A) < Num(B)
      BY LessOfNumbers
    <2>4. Flag(LessUnsigned(XLEN, A, B)) = Flag(Num(A) < Num(B))
      BY <2>3 DEF Flag
    <2>5. (Num(A) < Num(B)) \in BOOLEAN
      OBVIOUS
    <2> QED
      BY <1>1, <2>2, <2>4, <2>5 DEF AluMatchesArithmetic
  <1> QED
    BY <1>2, <1>3

-----------------------------------------------------------------------------
(* Shifts.                                                                 *)

LEMMA AmountOfShift ==
  ASSUME SHAMTBITS = 5, NEW v \in Word
  PROVE  shamt(v) = Num(v) % XLEN /\ shamt(v) \in 0 .. 31
  <1> DEFINE u == Slice(v, 4, 0)
             high == Low(ShiftRight(27, v, 5), 27)
  <1>1. XLEN = 32 /\ v \in Vec(32) /\ SHAMTBITS - 1 = 4
    BY SourceWidth
  <1>2. u = v \cap Bits(5)
    BY DEF Slice, Bits
  <1>3. shamt(v) = Low(v, 5)
    BY <1>1, <1>2 DEF shamt, Low
  <1>4. Low(v, 5 + 27) = Low(v, 5) + Pow(5) * high
    BY LowSplits
  <1>5. Low(v, 5) \in Nat /\ Low(v, 5) < Pow(5) /\ high \in Nat /\ Pow(5) = 32
    BY LowBound, PowersOfTwo
  <1> HIDE DEF u, high
  <1>6. Num(v) = high * 32 + Low(v, 5)
    BY <1>1, <1>4, <1>5, LowOfWord
  <1>7. Num(v) % 32 = Low(v, 5)
    BY <1>5, <1>6, Divides
  <1> QED
    BY <1>1, <1>3, <1>5, <1>7

LEMMA ShiftOps ==
  ASSUME SHAMTBITS = 5, A \in Word, B \in Word, op \in 8 .. 11
  PROVE  AluMatchesArithmetic
  <1> DEFINE n == shamt(B)
             p == Pow(n)
  <1>1. XLEN = 32 /\ A \in Vec(32) /\ Word = Vec(32) /\ 2^XLEN = Pow(32) /\ XLEN - 1 = 31
    BY SourceWidth
  <1>2. n \in 0 .. 31 /\ n \in 0 .. 32 /\ Amount = n /\ 2^Amount = p
    BY <1>1, AmountOfShift DEF Amount, Pow
  <1>3. p \in Nat /\ p > 0 /\ Pow(32) \in Nat /\ Num(A) \in Nat /\ Num(A) < Pow(32)
    BY <1>2, PowType, WordValue
  <1>4. ASSUME NEW v \in Word
        PROVE  ShiftRight(32, v, n) \in Word /\ Num(ShiftRight(32, v, n)) = Num(v) \div p
    <2>1. 32 \in 0 .. 32 /\ v \in Vec(32)
      BY <1>1
    <2> HIDE DEF n
    <2> QED
      BY <1>1, <1>2, <2>1, NumOfShiftRight
  <1>5. ASSUME NEW x \in Int
        PROVE  x \div p \in Int
    BY <1>3, DividesBack
  <1>6. CASE op = 8
    <2>1. result = ShiftLeft(32, A, n) /\ Arithmetic = Num(A) * p
      BY <1>1, <1>2, <1>6 DEF result, R, Arithmetic
    <2> HIDE DEF n
    <2>2. 32 \in 0 .. 32
      OBVIOUS
    <2>3. PICK k \in Nat : Num(A) * p = k * Pow(32) + Num(ShiftLeft(32, A, n))
      BY <1>1, <1>2, <2>2, NumOfShiftLeft
    <2>4. ShiftLeft(32, A, n) \in Word
      BY <1>1, <1>2, <2>2, NumOfShiftLeft
    <2> HIDE DEF p
    <2>5. Num(A) * p \in Int /\ k \in Int
      BY <1>3
    <2>6. ShiftLeft(32, A, n) = Wrap(Num(A) * p)
      BY <2>3, <2>4, <2>5, WordOfInteger
    <2> QED
      BY <2>1, <2>6 DEF AluMatchesArithmetic
  <1>7. CASE op = 9
    <2>1. result = ShiftRight(32, A, n) /\ Arithmetic = Num(A) \div p
      BY <1>1, <1>2, <1>7 DEF result, R, Arithmetic
    <2> DEFINE x == Num(A) \div p
    <2>2. x \in Int
      BY <1>3, <1>5
    <2>3. Num(ShiftRight(32, A, n)) = x
      BY <1>4
    <2> HIDE DEF n, x
    <2>4. 0 \in Int /\ x = 0 * Pow(32) + Num(ShiftRight(32, A, n))
      BY <1>3, <2>2, <2>3
    <2>5. ShiftRight(32, A, n) = Wrap(x)
      BY <1>4, <2>2, <2>4, WordOfInteger
    <2> QED
      BY <2>1, <2>5 DEF AluMatchesArithmetic, x
  <1>8. CASE op \in {10, 11}
    <2>1. Arithmetic = Signed(A) \div p
      BY <1>2, <1>8 DEF Arithmetic
    <2>2. result = IF Negative(A) THEN Not(XLEN, R(Not(XLEN, A), B, 9)) ELSE Op(9)
      BY <1>8, ShiftsWithSign DEF ShiftFillsWithTheSign
    <2>3. \A v : R(v, B, 9) = ShiftRight(32, v, n)
      BY <1>1 DEF R
    <2>4. CASE Negative(A)
      <3> DEFINE v == Not(32, A)
                 q == Num(v) \div p
                 r == Num(v) % p
                 u == Not(32, ShiftRight(32, v, n))
      <3>1. v \in Word /\ u \in Word
        BY <1>1, SumTypes
      <3>2. result = u
        BY <1>1, <2>2, <2>3, <2>4
      <3>3. Num(v) = Pow(32) - 1 - Num(A) /\ Num(v) \in Int
        BY <1>1, <3>1, NumOfNot, WordValue
      <3>4. Signed(A) = Num(A) - Pow(32)
        BY <1>1, <2>4 DEF Signed, Negative
      <3>5. Num(u) = Pow(32) - 1 - q
        <4>1. Num(ShiftRight(32, v, n)) = q /\ ShiftRight(32, v, n) \in Vec(32)
          BY <1>1, <1>4, <3>1
        <4> QED
          BY <4>1, NumOfNot
      <3> HIDE DEF n, p, u, v
      <3>6. q \in Int /\ r \in Nat /\ r < p /\ Num(v) = q * p + r
        BY <1>3, <3>3, DividesBack
      <3> HIDE DEF q, r
      <3> DEFINE j == -q - 1
                 s == p - 1 - r
      <3>7. Signed(A) = -1 - (q * p + r)
        BY <1>3, <3>3, <3>4, <3>6
      <3>8. -1 - (q * p + r) = j * p + s
        BY <1>3, <3>6
      <3>9. j \in Int /\ s \in Nat /\ s < p
        BY <1>3, <3>6
      <3>10. Num(u) = Pow(32) + j
        BY <1>3, <3>5, <3>6
      <3> HIDE DEF j, s
      <3>11. Signed(A) \div p = j
        BY <1>3, <3>7, <3>8, <3>9, Divides
      <3>12. PICK k \in Int : k = -1
        OBVIOUS
      <3>13. j = k * Pow(32) + Num(u)
        BY <1>3, <3>9, <3>10, <3>12
      <3>14. u = Wrap(j)
        BY <3>1, <3>9, <3>13, WordOfInteger
      <3> QED
        BY <2>1, <3>2, <3>11, <3>14 DEF AluMatchesArithmetic
    <2>5. CASE ~ Negative(A)
      <3> DEFINE x == Num(A) \div p
      <3>1. result = ShiftRight(32, A, n)
        BY <2>2, <2>3, <2>5 DEF Op
      <3>2. Signed(A) = Num(A)
        BY <2>5 DEF Signed, Negative
      <3>3. x \in Int
        BY <1>3, <1>5
      <3>4. Num(ShiftRight(32, A, n)) = x
        BY <1>4
      <3>5. Arithmetic = x
        BY <2>1, <3>2
      <3> HIDE DEF n, x
      <3>6. 0 \in Int /\ x = 0 * Pow(32) + Num(ShiftRight(32, A, n))
        BY <1>3, <3>3, <3>4
      <3>7. ShiftRight(32, A, n) = Wrap(x)
        BY <1>4, <3>3, <3>6, WordOfInteger
      <3> QED
        BY <3>1, <3>5, <3>7 DEF AluMatchesArithmetic
    <2> QED
      BY <2>4, <2>5
  <1> QED
    BY <1>6, <1>7, <1>8

-----------------------------------------------------------------------------
(* Products.                                                               *)

(* The halves of the two products, as parts of the product of the values.  *)
LEMMA HalvesOfProducts ==
  ASSUME SHAMTBITS = 5, NEW a \in Word, NEW b \in Word
  PROVE  /\ mulls(a, b) \in Word /\ mulhs(a, b) \in Word /\ mulhu(a, b) \in Word
         /\ \E q \in Nat : Num(a) * Num(b) =
              Pow(32) * (Pow(32) * q + Num(mulhu(a, b))) + Num(mulls(a, b))
         /\ \E k \in Int : Num(mulhs(a, b)) =
              Pow(32) * k + Num(mulhu(a, b)) - SignOf(a) * Num(b) - SignOf(b) * Num(a)
  <1> DEFINE m == Mul(64, a, b)
             s == Mul(64, SignExtend(64, 32, a), SignExtend(64, 32, b))
  <1>1. XLEN = 32 /\ Word = Vec(32) /\ XLEN - 1 = 31 /\ Wide = 64 /\ Wide - 1 = 63
    BY SourceWidth
  <1>2. /\ mulls(a, b) = Slice(s, 31, 0)
        /\ mulhs(a, b) = Slice(s, 63, 32)
        /\ mulhu(a, b) = Slice(m, 63, 32)
    BY <1>1 DEF mulls, mulhs, mulhu, ProductS, ProductU
  <1>3. /\ mulls(a, b) \in Word /\ mulhs(a, b) \in Word /\ mulhu(a, b) \in Word
    <2> HIDE DEF m, s
    <2> QED
      BY <1>1, <1>2 DEF Slice, Vec, Bits
  <1>4. a \in Vec(32) /\ b \in Vec(32)
    BY <1>1
  <1>5. \E q \in Nat : Num(a) * Num(b) =
          Pow(32) * (Pow(32) * q + Num(Slice(m, 63, 32))) + Num(Slice(m, 31, 0))
    BY <1>4, UnsignedProduct
  <1>6. /\ Num(Slice(s, 31, 0)) = Num(Slice(m, 31, 0))
        /\ \E k \in Int : Num(Slice(s, 63, 32)) =
             Pow(32) * k + Num(Slice(m, 63, 32)) - SignOf(a) * Num(b) - SignOf(b) * Num(a)
    BY <1>4, SignedProduct
  <1> HIDE DEF m, s
  <1>7. \E q \in Nat : Num(a) * Num(b) =
          Pow(32) * (Pow(32) * q + Num(mulhu(a, b))) + Num(mulls(a, b))
    <2>1. Num(mulhu(a, b)) = Num(Slice(m, 63, 32)) /\ Num(mulls(a, b)) = Num(Slice(m, 31, 0))
      BY <1>2, <1>6
    <2> QED
      BY <1>5, <2>1
  <1>8. \E k \in Int : Num(mulhs(a, b)) =
          Pow(32) * k + Num(mulhu(a, b)) - SignOf(a) * Num(b) - SignOf(b) * Num(a)
    <2>1. Num(mulhu(a, b)) = Num(Slice(m, 63, 32)) /\ Num(mulhs(a, b)) = Num(Slice(s, 63, 32))
      BY <1>2
    <2> QED
      BY <1>6, <2>1
  <1> QED
    BY <1>3, <1>7, <1>8

LEMMA ProductOps ==
  ASSUME SHAMTBITS = 5, A \in Word, B \in Word, op \in 5 .. 7
  PROVE  AluMatchesArithmetic
  <1>1. /\ mulls(A, B) \in Word /\ mulhs(A, B) \in Word /\ mulhu(A, B) \in Word
    BY HalvesOfProducts
  <1>2. PICK q \in Nat : Num(A) * Num(B) =
          Pow(32) * (Pow(32) * q + Num(mulhu(A, B))) + Num(mulls(A, B))
    BY HalvesOfProducts
  <1>3. PICK k \in Int : Num(mulhs(A, B)) =
          Pow(32) * k + Num(mulhu(A, B)) - SignOf(A) * Num(B) - SignOf(B) * Num(A)
    BY HalvesOfProducts
  <1>4. PICK x, y, l, h, p \in Nat :
          /\ x = Num(A) /\ y = Num(B) /\ l = Num(mulls(A, B)) /\ h = Num(mulhu(A, B))
          /\ p = Pow(32) /\ p > 0 /\ l < p
    <2>1. /\ Num(A) \in Nat /\ Num(B) \in Nat /\ Num(mulhu(A, B)) \in Nat
          /\ Num(mulls(A, B)) \in Nat /\ Num(mulls(A, B)) < Pow(32)
      BY <1>1, WordValue
    <2>2. Pow(32) \in Nat /\ Pow(32) > 0
      BY PowersOfTwo
    <2> QED
      BY <2>1, <2>2
  <1>5. PICK u \in Int, f \in {0, 1}, g \in {0, 1} :
          u = Num(mulhs(A, B)) /\ f = SignOf(A) /\ g = SignOf(B)
    BY <1>1, WordValue
  <1>6. Signed(A) = x - p * f /\ Signed(B) = y - p * g /\ 2^XLEN = p
    BY <1>4, <1>5, WordValue, SourceWidth
  <1>7. x * y = (p * q + h) * p + l
    <2>1. x * y = p * (p * q + h) + l
      BY <1>2, <1>4
    <2> QED
      BY <2>1
  <1>8. u = p * k + h - f * y - g * x
    BY <1>3, <1>4, <1>5
  <1>9. CASE op = 5
    <2>1. result = mulls(A, B) /\ Arithmetic = x * y
      BY <1>4, <1>9 DEF result, R, Arithmetic
    <2> DEFINE i == x * y
               j == p * q + h
    <2>2. i = j * Pow(32) + Num(mulls(A, B))
      BY <1>4, <1>7
    <2>3. i \in Int /\ j \in Int
      OBVIOUS
    <2> HIDE DEF i, j
    <2>4. mulls(A, B) = Wrap(i)
      BY <1>1, <2>2, <2>3, WordOfInteger
    <2> QED
      BY <2>1, <2>4 DEF AluMatchesArithmetic, i
  <1>10. CASE op = 7
    <2> DEFINE j == p * q + h
    <2>1. result = mulhu(A, B) /\ Arithmetic = (x * y) \div p
      BY <1>4, <1>6, <1>10 DEF result, R, Arithmetic
    <2>2. j \in Int /\ j = q * Pow(32) + Num(mulhu(A, B))
      BY <1>4
    <2>3. x * y = j * p + l
      BY <1>7
    <2> HIDE DEF j
    <2>4. (x * y) \div p = j
      BY <1>4, <2>2, <2>3, Divides
    <2>5. mulhu(A, B) = Wrap(j)
      BY <1>1, <2>2, WordOfInteger
    <2> QED
      BY <2>1, <2>4, <2>5 DEF AluMatchesArithmetic
  <1>11. CASE op = 6
    <2> DEFINE c == q + f * g - k
               j == p * c + u
               i == (x - p * f) * (y - p * g)
    <2>1. result = mulhs(A, B) /\ Arithmetic = i \div p
      BY <1>6, <1>11 DEF result, R, Arithmetic
    <2>2. i = x * y - p * (f * y) - p * (g * x) + p * (p * (f * g))
      OBVIOUS
    <2>3. i = j * p + l
      BY <1>7, <1>8, <2>2
    <2>4. c \in Int /\ j \in Int
      OBVIOUS
    <2>5. j = c * Pow(32) + Num(mulhs(A, B))
      BY <1>4, <1>5
    <2> HIDE DEF c, i, j
    <2>6. i \div p = j
      BY <1>4, <2>3, <2>4, Divides
    <2>7. mulhs(A, B) = Wrap(j)
      BY <1>1, <2>4, <2>5, WordOfInteger
    <2> QED
      BY <2>1, <2>6, <2>7 DEF AluMatchesArithmetic
  <1> QED
    BY <1>9, <1>10, <1>11

(***************************************************************************)
(* THEOREM.  At the width of the source, whatever the operands, the result *)
(* of each of the sixteen operations is the one of integer arithmetic,     *)
(* wrapped to 32 bits: the word that the CPU writes back for an            *)
(* instruction is its mathematical result, products and shifts of negative *)
(* numbers included.                                                       *)
(***************************************************************************)
THEOREM Computes ==
  ASSUME SHAMTBITS = 5
  PROVE  Spec => []AluMatchesArithmetic
  <1>1. Typed => AluMatchesArithmetic
    <2> SUFFICES ASSUME Typed
                 PROVE  AluMatchesArithmetic
      OBVIOUS
    <2>1. A \in Word /\ B \in Word /\ op \in 0 .. 15
      BY DEF Typed
    <2>2. op \in 0 .. 2 \/ op \in {3, 4} \/ op \in 5 .. 7 \/ op \in 8 .. 11 \/ op \in 12 .. 15
      BY <2>1
    <2> QED
      BY <2>1, <2>2, BitwiseOps, SumOps, ProductOps, ShiftOps, CompareOps
  <1> QED
    BY <1>1, StaysTyped, PTL

-----------------------------------------------------------------------------
(* The laws that relate the products to each other and to the shifts: both *)
(* sides are words, and the same integer wraps to each.                    *)

LEMMA WordDifference ==
  ASSUME SHAMTBITS = 5, NEW a \in Word, NEW b \in Word
  PROVE  /\ Sub(XLEN, a, b) \in Word
         /\ \E k \in Int : Num(a) - Num(b) = k * Pow(32) + Num(Sub(XLEN, a, b))
  <1>1. XLEN = 32 /\ Word = Vec(32) /\ 32 \in 0 .. 32
    BY SourceWidth
  <1>2. \E k \in {-1, 0} : Num(a) - Num(b) = k * Pow(32) + Num(Sub(32, a, b))
    BY <1>1, NumOfSub
  <1>3. Sub(32, a, b) \in Vec(32)
    BY <1>1, SumTypes
  <1>4. PICK k \in {-1, 0} : Num(a) - Num(b) = k * Pow(32) + Num(Sub(32, a, b))
    BY <1>2
  <1>5. k \in Int
    OBVIOUS
  <1> QED
    BY <1>1, <1>3, <1>4, <1>5

LEMMA NumOfOneBit ==
  ASSUME SHAMTBITS = 5, NEW n \in 0 .. 31
  PROVE  {n} \in Word /\ Num({n}) = Pow(n)
  <1>1. IsFiniteSet({n}) /\ {n} \subseteq Int /\ {n} \ {n} = {} /\ n \in {n}
    BY FS_Singleton
  <1>2. Num({n}) = 2^n + Num({n} \ {n})
    BY <1>1, NumAdds
  <1>3. Pow(n) \in Nat
    BY PowType
  <1>4. Num({n}) = Pow(n)
    BY <1>1, <1>2, <1>3, NumOfNone DEF Pow
  <1>5. {n} \in Word
    BY SourceWidth DEF Vec, Bits
  <1> QED
    BY <1>4, <1>5

LEMMA HighProducts ==
  ASSUME SHAMTBITS = 5, A \in Word, B \in Word
  PROVE  HighProductsAgree
  <1> DEFINE c == IF Negative(A) THEN B ELSE Zero
             e == IF Negative(B) THEN A ELSE Zero
             inner == Sub(XLEN, mulhu(A, B), c)
             outer == Sub(XLEN, inner, e)
  <1> SUFFICES ASSUME op = 6
               PROVE  mulhs(A, B) = outer
    BY DEF HighProductsAgree, result, R, Op, Difference
  <1>1. /\ mulhs(A, B) \in Word /\ mulhu(A, B) \in Word
    BY HalvesOfProducts
  <1>2. PICK k \in Int : Num(mulhs(A, B)) =
          Pow(32) * k + Num(mulhu(A, B)) - SignOf(A) * Num(B) - SignOf(B) * Num(A)
    BY HalvesOfProducts
  <1>3. XLEN - 1 = 31 /\ Zero \in Word
    BY SourceWidth DEF Zero, Vec
  <1>4. c \in Word /\ e \in Word
    BY <1>3
  <1>5. /\ Num(A) \in Nat /\ Num(B) \in Nat /\ Num(mulhu(A, B)) \in Nat /\ Pow(32) \in Nat
        /\ Num(mulhs(A, B)) \in Nat
    BY <1>1, WordValue, PowType
  <1>6. Num(c) = SignOf(A) * Num(B) /\ Num(e) = SignOf(B) * Num(A)
    BY <1>3, <1>5, NumOfNone DEF Zero, Negative, SignOf
  <1> HIDE DEF c, e
  <1>7. inner \in Word
    BY <1>1, <1>4, WordDifference
  <1>8. PICK i \in Int : Num(mulhu(A, B)) - Num(c) = i * Pow(32) + Num(inner)
    BY <1>1, <1>4, WordDifference
  <1> HIDE DEF inner
  <1>9. outer \in Word
    BY <1>4, <1>7, WordDifference
  <1>10. PICK j \in Int : Num(inner) - Num(e) = j * Pow(32) + Num(outer)
    BY <1>4, <1>7, WordDifference
  <1> HIDE DEF outer
  <1>11. Num(inner) \in Nat /\ Num(outer) \in Nat /\ Num(c) \in Nat /\ Num(e) \in Nat
    BY <1>4, <1>7, <1>9, WordValue
  <1> DEFINE x == Num(mulhu(A, B)) - Num(c) - Num(e)
             m == i + j
             n == -k
  <1>12. x = m * Pow(32) + Num(outer) /\ x = n * Pow(32) + Num(mulhs(A, B))
    BY <1>2, <1>5, <1>6, <1>8, <1>10, <1>11
  <1>13. x \in Int /\ m \in Int /\ n \in Int
    BY <1>5, <1>11
  <1> HIDE DEF x, m, n
  <1>14. outer = Wrap(x) /\ mulhs(A, B) = Wrap(x)
    BY <1>1, <1>9, <1>12, <1>13, WordOfInteger
  <1> QED
    BY <1>14

LEMMA ShiftLeftIsProduct ==
  ASSUME SHAMTBITS = 5, A \in Word, B \in Word, op = 8
  PROVE  result = R(A, {shamt(B)}, 5)
  <1> DEFINE n == shamt(B)
             x == Num(A) * Pow(n)
  <1>1. n \in 0 .. 31 /\ Amount = n /\ 2^Amount = Pow(n)
    BY AmountOfShift DEF Amount, Pow
  <1>2. Num(A) \in Nat /\ Pow(n) \in Nat /\ Pow(32) \in Nat
    BY <1>1, WordValue, PowType
  <1>3. result = Wrap(x)
    BY <1>1, ShiftOps DEF AluMatchesArithmetic, Arithmetic
  <1>4. R(A, {n}, 5) = mulls(A, {n})
    BY DEF R
  <1> HIDE DEF n
  <1>5. {n} \in Word /\ Num({n}) = Pow(n)
    BY <1>1, NumOfOneBit
  <1>6. mulls(A, {n}) \in Word /\ mulhu(A, {n}) \in Word
    BY <1>5, HalvesOfProducts
  <1>7. PICK q \in Nat : Num(A) * Num({n}) =
          Pow(32) * (Pow(32) * q + Num(mulhu(A, {n}))) + Num(mulls(A, {n}))
    BY <1>5, HalvesOfProducts
  <1>8. Num(mulls(A, {n})) \in Nat /\ Num(mulhu(A, {n})) \in Nat
    BY <1>6, WordValue
  <1> DEFINE k == Pow(32) * q + Num(mulhu(A, {n}))
  <1>9. k \in Int /\ x \in Int /\ x = k * Pow(32) + Num(mulls(A, {n}))
    BY <1>2, <1>5, <1>7, <1>8
  <1> HIDE DEF k, x
  <1>10. mulls(A, {n}) = Wrap(x)
    BY <1>6, <1>9, WordOfInteger
  <1> QED
    BY <1>3, <1>4, <1>10 DEF n

(* The shift amount of 0 - B is what is missing to a shift by the width.   *)
LEMMA AmountBack ==
  ASSUME SHAMTBITS = 5, NEW b \in Word, shamt(b) # 0
  PROVE  shamt(Sub(XLEN, {}, b)) = 32 - shamt(b)
  <1> DEFINE v == Sub(XLEN, {}, b)
             n == shamt(b)
  <1>1. XLEN = 32 /\ {} \in Word /\ Pow(32) = 4294967296
    BY SourceWidth DEF Vec
  <1>2. v \in Word
    BY <1>1, WordDifference
  <1>3. PICK k \in Int : Num({}) - Num(b) = k * Pow(32) + Num(v)
    BY <1>1, WordDifference
  <1>4. n = Num(b) % 32 /\ n \in 0 .. 31 /\ shamt(v) = Num(v) % 32
    BY <1>1, <1>2, AmountOfShift
  <1>5. Num(b) \in Nat /\ Num(v) \in Nat
    BY <1>2, WordValue
  <1> HIDE DEF v, n
  <1>6. PICK y, z, d \in Int : y = Num(b) /\ z = Num(v) /\ d = y \div 32 /\ y = d * 32 + n
    <2>1. Num(b) \div 32 \in Int /\ Num(b) = (Num(b) \div 32) * 32 + (Num(b) % 32)
      BY <1>5, DividesBack
    <2> QED
      BY <1>4, <1>5, <2>1
  <1> DEFINE j == -d - k * 134217728 - 1
             r == 32 - n
  <1>7. n # 0
    BY DEF n
  <1>8. r \in Nat /\ r < 32 /\ j \in Int
    BY <1>4, <1>7
  <1>9. 0 - y = k * 4294967296 + z
    BY <1>1, <1>3, <1>6, NumOfNone, SMT
  <1>10. z = j * 32 + r
    <2>1. y = d * 32 + n /\ n \in Int
      BY <1>4, <1>6
    <2> QED
      BY <1>9, <2>1, SMT
  <1> HIDE DEF j, r
  <1>11. Num(v) % 32 = r
    BY <1>6, <1>8, <1>10, Divides
  <1> QED
    BY <1>4, <1>11 DEF r, v, n

LEMMA ShiftRightIsProduct ==
  ASSUME SHAMTBITS = 5, A \in Word, B \in Word, op = 9, shamt(B) # 0
  PROVE  result = R(A, {shamt(R(Zero, B, 4))}, 7)
  <1> DEFINE n == shamt(B)
             m == 32 - n
             p == Pow(n)
             x == Num(A) \div p
  <1>1. n \in 0 .. 31 /\ Amount = n /\ 2^Amount = p /\ n # 0
    BY AmountOfShift DEF Amount, Pow
  <1>2. m \in 0 .. 31 /\ m \in 0 .. 32 /\ n \in 0 .. 32 /\ n + m = 32
    BY <1>1
  <1>3. Num(A) \in Nat /\ p \in Nat /\ p > 0 /\ Pow(m) \in Nat /\ Pow(m) > 0 /\ Pow(32) \in Nat
    BY <1>2, WordValue, PowType
  <1>4. Pow(32) = p * Pow(m)
    <2> HIDE DEF n, m
    <2>1. n + m <= 32
      BY <1>2
    <2>2. Pow(n + m) = Pow(n) * Pow(m)
      BY <1>2, <2>1, PowSum
    <2> QED
      BY <1>2, <2>2 DEF p
  <1>5. result = Wrap(x)
    BY <1>1, ShiftOps DEF AluMatchesArithmetic, Arithmetic
  <1>6. R(A, {shamt(R(Zero, B, 4))}, 7) = mulhu(A, {m})
    <2>1. R(Zero, B, 4) = Sub(XLEN, {}, B)
      BY DEF R, Difference, Zero
    <2>2. shamt(Sub(XLEN, {}, B)) = m
      BY AmountBack
    <2> QED
      BY <2>1, <2>2 DEF R
  <1> HIDE DEF n, m, p
  <1>7. {m} \in Word /\ Num({m}) = Pow(m)
    BY <1>2, NumOfOneBit
  <1>8. mulls(A, {m}) \in Word /\ mulhu(A, {m}) \in Word
    BY <1>7, HalvesOfProducts
  <1>9. PICK q \in Nat : Num(A) * Num({m}) =
          Pow(32) * (Pow(32) * q + Num(mulhu(A, {m}))) + Num(mulls(A, {m}))
    BY <1>7, HalvesOfProducts
  <1>10. /\ Num(mulls(A, {m})) \in Nat /\ Num(mulls(A, {m})) < Pow(32)
         /\ Num(mulhu(A, {m})) \in Nat
    BY <1>8, WordValue
  <1> DEFINE rest == Num(A) % p
  <1>11. Num(A) \in Int
    BY <1>3
  <1>12. x \in Int /\ rest \in Nat /\ rest < p /\ Num(A) = x * p + rest
    BY <1>3, <1>11, DividesBack
  <1> HIDE DEF x, rest
  <1>13. PICK w, z, r, s, l, h, t \in Nat :
           /\ w = Num(A) /\ z = p /\ s = Pow(m) /\ l = Num(mulls(A, {m})) /\ t = Pow(32)
           /\ h = Num(mulhu(A, {m})) /\ r = rest
    BY <1>3, <1>10, <1>12
  <1>14. x \in Int /\ w = x * z + r /\ r < z /\ z > 0 /\ s > 0 /\ l < t /\ t = z * s
    BY <1>3, <1>4, <1>10, <1>13, <1>12
  <1>15. w * s = t * (t * q + h) + l
    BY <1>7, <1>9, <1>13
  <1> DEFINE i == t * q + h
             y == r * s
  <1>16. w * s = i * t + l /\ w * s = x * t + y
    BY <1>14, <1>15
  <1>17. i \in Int /\ y \in Nat /\ y < t
    BY <1>14
  <1> HIDE DEF i, y
  <1>18. (i * t + l) \div t = i /\ (x * t + y) \div t = x
    BY <1>14, <1>17, Divides
  <1>19. i = x
    BY <1>16, <1>18
  <1>20. x = q * Pow(32) + Num(mulhu(A, {m}))
    BY <1>13, <1>19 DEF i
  <1>21. mulhu(A, {m}) = Wrap(x)
    BY <1>8, <1>14, <1>20, WordOfInteger
  <1> QED
    BY <1>5, <1>6, <1>21

(***************************************************************************)
(* THEOREM.  At the width of the source, whatever the operands, mulhs is   *)
(* mulhu less the other operand for each negative one, a shift left is the *)
(* low half of the product with a power of two, and a shift right by       *)
(* 1 .. 31 the high half.                                                  *)
(***************************************************************************)
THEOREM ProductsAgree ==
  ASSUME SHAMTBITS = 5
  PROVE  Spec => []ProductLaws
  <1>1. Typed => ProductLaws
    <2> SUFFICES ASSUME Typed
                 PROVE  ProductLaws
      OBVIOUS
    <2>1. A \in Word /\ B \in Word
      BY DEF Typed
    <2>2. HighProductsAgree
      BY <2>1, HighProducts
    <2>3. op = 8 => result = R(A, {shamt(B)}, 5)
      BY <2>1, ShiftLeftIsProduct
    <2>4. op = 9 /\ shamt(B) # 0 => result = R(A, {shamt(R(Zero, B, 4))}, 7)
      BY <2>1, ShiftRightIsProduct
    <2> QED
      BY <2>2, <2>3, <2>4 DEF ProductLaws, ShiftsAreProducts
  <1> QED
    BY <1>1, StaysTyped, PTL

=============================================================================
