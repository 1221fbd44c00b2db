--------------------------- MODULE Bin2DecProofs ---------------------------
(***************************************************************************)
(* Proofs about the conversion of module Bin2Dec, for every set of inputs. *)
(*                                                                         *)
(* One division by 6554 / 65536 loses nothing but n \div 16384:            *)
(* 10 * Quotient(n) + Digit(n) = n + n \div 16384.  From that, the digits  *)
(* of the inputs below 2^14 are exact and the error of the others is       *)
(* bounded.  The invariant says where the program is in that computation.  *)
(***************************************************************************)
EXTENDS Bin2Dec, TLAPS

-----------------------------------------------------------------------------
(* One block.                                                              *)

LEMMA Powers ==
  /\ 2^16 = 65536 /\ 2^14 = 16384 /\ 2^18 = 262144
  /\ 10^0 = 1 /\ 10^1 = 10 /\ 10^2 = 100 /\ 10^3 = 1000 /\ 10^4 = 10000 /\ 10^5 = 100000
  /\ 16^0 = 1 /\ 16^1 = 16 /\ 16^2 = 256 /\ 16^3 = 4096 /\ 16^4 = 65536 /\ 16^5 = 1048576
  /\ 16^6 = 16777216
  OBVIOUS

LEMMA Division ==
  ASSUME NEW n \in Nat
  PROVE  /\ Quotient(n) \in Nat
         /\ Digit(n) \in 0 .. 9
         /\ 10 * Quotient(n) + Digit(n) = n + n \div 16384
  <1> DEFINE m == n * 6554
             q == m \div 65536
             r == m % 65536
  <1>1. Quotient(n) = q /\ Digit(n) = (r * 10) \div 65536
    BY Powers, SMT DEF Quotient, Digit, Tenth
  <1>2. m \in Nat /\ q \in Nat /\ r \in Nat /\ r < 65536 /\ m = 65536 * q + r
    BY SMT
  <1>3. (r * 10) \div 65536 \in 0 .. 9
    BY <1>2, SMT
  <1>4. (10 * m) \div 65536 = 10 * q + (r * 10) \div 65536
    BY <1>2, SMT
  <1>5. (10 * m) \div 65536 = n + n \div 16384
    BY SMT
  <1> QED
    BY <1>1, <1>2, <1>3, <1>4, <1>5, SMT

(* Below 2^14 a block is a division by ten, with its remainder.            *)
LEMMA ExactDivision ==
  ASSUME NEW n \in Nat, n < 16384
  PROVE  /\ Quotient(n) \in Nat /\ Quotient(n) < 16384
         /\ Quotient(n) = n \div 10
         /\ Digit(n) = n % 10
  <1>1. n \div 16384 = 0
    BY SMT
  <1>2. Quotient(n) \in Nat /\ Digit(n) \in 0 .. 9 /\ 10 * Quotient(n) + Digit(n) = n
    BY <1>1, Division, SMT
  <1> QED
    BY <1>2, SMT

-----------------------------------------------------------------------------
(* The six blocks.                                                         *)

(* What the blocks make of n: Rests(n)[k+1] is what remains before block k. *)
Rests(n) ==
  LET r1 == Quotient(n)
      r2 == Quotient(r1)
      r3 == Quotient(r2)
      r4 == Quotient(r3)
      r5 == Quotient(r4)
  IN  <<n, r1, r2, r3, r4, r5, Quotient(r5)>>

Digits(n) == [k \in 0 .. 5 |-> Digit(Rests(n)[k+1])]

LEMMA RestsType ==
  ASSUME NEW n \in Nat
  PROVE  /\ Rests(n) \in [1 .. 7 -> Nat]
         /\ Rests(n)[1] = n
         /\ Rests(n)[2] = Quotient(Rests(n)[1])
         /\ Rests(n)[3] = Quotient(Rests(n)[2])
         /\ Rests(n)[4] = Quotient(Rests(n)[3])
         /\ Rests(n)[5] = Quotient(Rests(n)[4])
         /\ Rests(n)[6] = Quotient(Rests(n)[5])
         /\ Rests(n)[7] = Quotient(Rests(n)[6])
         /\ Digits(n) \in [0 .. 5 -> 0 .. 9]
  <1>1. /\ Rests(n)[1] = n
        /\ Rests(n)[2] = Quotient(Rests(n)[1])
        /\ Rests(n)[3] = Quotient(Rests(n)[2])
        /\ Rests(n)[4] = Quotient(Rests(n)[3])
        /\ Rests(n)[5] = Quotient(Rests(n)[4])
        /\ Rests(n)[6] = Quotient(Rests(n)[5])
        /\ Rests(n)[7] = Quotient(Rests(n)[6])
    BY SMT DEF Rests
  <1>2. /\ Rests(n)[1] \in Nat /\ Rests(n)[2] \in Nat /\ Rests(n)[3] \in Nat
        /\ Rests(n)[4] \in Nat /\ Rests(n)[5] \in Nat /\ Rests(n)[6] \in Nat
        /\ Rests(n)[7] \in Nat
    BY <1>1, Division, SMT
  <1>3. Rests(n) = [k \in 1 .. 7 |-> Rests(n)[k]]
    BY SMT DEF Rests
  <1>4. \A k \in 1 .. 7 : Rests(n)[k] \in Nat
    BY <1>2, SMT
  <1>5. \A k \in 0 .. 5 : Digit(Rests(n)[k+1]) \in 0 .. 9
    BY <1>4, Division, SMT
  <1> QED
    BY <1>1, <1>3, <1>4, <1>5, SMT DEF Digits

LEMMA RestsAreNat == ASSUME NEW n \in Nat PROVE \A k \in 1 .. 7 : Rests(n)[k] \in Nat
  BY RestsType, SMT

LEMMA DigitsType == ASSUME NEW n \in Nat PROVE \A k \in 0 .. 5 : Digits(n)[k] \in 0 .. 9
  <1> SUFFICES ASSUME NEW k \in 0 .. 5 PROVE Digits(n)[k] \in 0 .. 9
    OBVIOUS
  <1>1. Digits(n) \in [0 .. 5 -> 0 .. 9]
    BY RestsType, SMT
  <1> QED
    BY <1>1, SMT

(* The number that six decimal digits show.                                *)
Value(d) == d[0] + 10 * d[1] + 100 * d[2] + 1000 * d[3] + 10000 * d[4] + 100000 * d[5]

(* The accounts of a whole conversion: it shows at least n, and too much   *)
(* only for what the first two blocks add.                                 *)
LEMMA Accounts ==
  ASSUME NEW n \in Nat, n < 262144
  PROVE  Value(Digits(n)) - n \in 0 .. n \div 8192
  <1> DEFINE r == Rests(n)
             d == Digits(n)
             r1 == r[2]
             r2 == r[3]
             r3 == r[4]
             r4 == r[5]
             r5 == r[6]
             r6 == r[7]
             d0 == d[0]
             d1 == d[1]
             d2 == d[2]
             d3 == d[3]
             d4 == d[4]
             d5 == d[5]
             v == Value(d)
  <1>types. /\ r1 \in Nat /\ r2 \in Nat /\ r3 \in Nat /\ r4 \in Nat /\ r5 \in Nat /\ r6 \in Nat
        /\ d0 \in 0 .. 9 /\ d1 \in 0 .. 9 /\ d2 \in 0 .. 9 /\ d3 \in 0 .. 9
        /\ d4 \in 0 .. 9 /\ d5 \in 0 .. 9
    <2>1. \A k \in 1 .. 7 : r[k] \in Nat
      BY RestsAreNat, SMT
    <2>2. \A k \in 0 .. 5 : d[k] \in 0 .. 9
      BY DigitsType, SMT
    <2> HIDE DEF r, d
    <2> QED
      BY <2>1, <2>2, SMT
  <1>blocks. /\ r1 = Quotient(n) /\ r2 = Quotient(r1) /\ r3 = Quotient(r2)
        /\ r4 = Quotient(r3) /\ r5 = Quotient(r4) /\ r6 = Quotient(r5)
        /\ d0 = Digit(n) /\ d1 = Digit(r1) /\ d2 = Digit(r2)
        /\ d3 = Digit(r3) /\ d4 = Digit(r4) /\ d5 = Digit(r5)
    BY RestsType, SMT DEF Digits
  <1>value. v = d0 + 10 * d1 + 100 * d2 + 1000 * d3 + 10000 * d4 + 100000 * d5
    BY SMT DEF Value
  <1> HIDE DEF r, d, r1, r2, r3, r4, r5, r6, d0, d1, d2, d3, d4, d5, v
  <1>accounts. /\ 10 * r1 + d0 = n + n \div 16384   /\ 10 * r2 + d1 = r1 + r1 \div 16384
        /\ 10 * r3 + d2 = r2 + r2 \div 16384 /\ 10 * r4 + d3 = r3 + r3 \div 16384
        /\ 10 * r5 + d4 = r4 + r4 \div 16384 /\ 10 * r6 + d5 = r5 + r5 \div 16384
    <2>1. \A k \in Nat : 10 * Quotient(k) + Digit(k) = k + k \div 16384
      BY Division, SMT
    <2>2. 10 * r1 + d0 = n + n \div 16384
      <3>1. 10 * Quotient(n) + Digit(n) = n + n \div 16384
        BY Division, SMT
      <3> QED
        BY <1>blocks, <3>1, SMT
    <2>3. 10 * r2 + d1 = r1 + r1 \div 16384
      BY <1>types, <1>blocks, <2>1, SMT
    <2>4. 10 * r3 + d2 = r2 + r2 \div 16384
      BY <1>types, <1>blocks, <2>1, SMT
    <2>5. 10 * r4 + d3 = r3 + r3 \div 16384
      BY <1>types, <1>blocks, <2>1, SMT
    <2>6. 10 * r5 + d4 = r4 + r4 \div 16384
      BY <1>types, <1>blocks, <2>1, SMT
    <2>7. 10 * r6 + d5 = r5 + r5 \div 16384
      BY <1>types, <1>blocks, <2>1, SMT
    <2> QED
      BY <2>2, <2>3, <2>4, <2>5, <2>6, <2>7, SMT
  <1>1. r1 < 26216 /\ r2 < 2622
    BY <1>types, <1>accounts, SMT
  <1>2. r2 \div 16384 = 0
    BY <1>types, <1>1, SMT
  <1>3. r3 < 263 /\ r3 \div 16384 = 0
    BY <1>types, <1>accounts, <1>1, <1>2, SMT
  <1>4. r4 < 27 /\ r4 \div 16384 = 0
    BY <1>types, <1>accounts, <1>3, SMT
  <1>5. r5 < 3 /\ r5 \div 16384 = 0
    BY <1>types, <1>accounts, <1>4, SMT
  <1>6. r6 = 0
    BY <1>types, <1>accounts, <1>5, SMT
  <1> DEFINE e0 == n \div 16384
             e1 == r1 \div 16384
  <1>7. e0 \in Nat /\ e1 \in Nat
    BY <1>types, SMT
  <1>8. e0 + 10 * e1 \in 0 .. n \div 8192
    BY <1>types, <1>accounts, <1>1, SMT
  <1> HIDE DEF e0, e1
  <1>9. 10 * r1 + d0 = n + e0 /\ 10 * r2 + d1 = r1 + e1
    BY <1>accounts, SMT DEF e0, e1
  <1>10. 10 * r3 + d2 = r2 /\ 10 * r4 + d3 = r3 /\ 10 * r5 + d4 = r4 /\ d5 = r5
    BY <1>types, <1>accounts, <1>2, <1>3, <1>4, <1>5, <1>6, SMT
  <1>11. v = n + e0 + 10 * e1
    BY <1>types, <1>value, <1>7, <1>9, <1>10, SMT
  <1> QED
    BY <1>7, <1>8, <1>11, SMT DEF v, d

(* The digits of an input below 2^14.                                      *)
LEMMA ExactDigits ==
  ASSUME NEW n \in Nat, n < 16384
  PROVE  \A k \in 0 .. 5 : Digits(n)[k] = DecimalDigit(n, k)
  <1> DEFINE r == Rests(n)
             d == Digits(n)
  <1>1. /\ r[1] = n /\ r[2] = Quotient(r[1]) /\ r[3] = Quotient(r[2])
        /\ r[4] = Quotient(r[3]) /\ r[5] = Quotient(r[4]) /\ r[6] = Quotient(r[5])
        /\ d[0] = Digit(r[1]) /\ d[1] = Digit(r[2]) /\ d[2] = Digit(r[3])
        /\ d[3] = Digit(r[4]) /\ d[4] = Digit(r[5]) /\ d[5] = Digit(r[6])
    BY RestsType, SMT DEF Digits
  <1> HIDE DEF r, d
  <1>2. r[2] = n \div 10 /\ r[2] \in Nat /\ r[2] < 16384 /\ d[0] = n % 10
    BY <1>1, ExactDivision, SMT
  <1>3. r[3] = r[2] \div 10 /\ r[3] \in Nat /\ r[3] < 16384 /\ d[1] = r[2] % 10
    BY <1>1, <1>2, ExactDivision, SMT
  <1>4. r[4] = r[3] \div 10 /\ r[4] \in Nat /\ r[4] < 16384 /\ d[2] = r[3] % 10
    BY <1>1, <1>3, ExactDivision, SMT
  <1>5. r[5] = r[4] \div 10 /\ r[5] \in Nat /\ r[5] < 16384 /\ d[3] = r[4] % 10
    BY <1>1, <1>4, ExactDivision, SMT
  <1>6. r[6] = r[5] \div 10 /\ r[6] \in Nat /\ d[4] = r[5] % 10 /\ d[5] = r[6] % 10
    BY <1>1, <1>5, ExactDivision, SMT
  <1>7. r[3] = n \div 100
    BY <1>2, <1>3, SMT
  <1>8. r[4] = n \div 1000
    BY <1>4, <1>7, SMT
  <1>9. r[5] = n \div 10000
    BY <1>5, <1>8, SMT
  <1>10. r[6] = n \div 100000
    BY <1>6, <1>9, SMT
  <1>11. n \div 1 = n
    BY SMT
  <1>12. /\ DecimalDigit(n, 0) = d[0] /\ DecimalDigit(n, 1) = d[1]
         /\ DecimalDigit(n, 2) = d[2] /\ DecimalDigit(n, 3) = d[3]
         /\ DecimalDigit(n, 4) = d[4] /\ DecimalDigit(n, 5) = d[5]
    BY <1>2, <1>3, <1>4, <1>5, <1>6, <1>7, <1>8, <1>9, <1>10, <1>11, Powers, SMT
       DEF DecimalDigit
  <1> QED
    BY <1>12, SMT DEF d

(* The hex digits of a word made of six of them.                           *)
HexWord(d) ==
  d[0] + d[1] * 16 + d[2] * 256 + d[3] * 4096 + d[4] * 65536 + d[5] * 1048576

LEMMA HexDigits ==
  ASSUME NEW d \in [0 .. 5 -> 0 .. 9], NEW x, x = HexWord(d)
  PROVE  /\ x \in Nat /\ x < 16^6
         /\ \A k \in 0 .. 5 : (x \div 16^k) % 16 = d[k]
  <1> DEFINE d0 == d[0]
             d1 == d[1]
             d2 == d[2]
             d3 == d[3]
             d4 == d[4]
             d5 == d[5]
  <1>types. /\ d0 \in 0 .. 9 /\ d1 \in 0 .. 9 /\ d2 \in 0 .. 9 /\ d3 \in 0 .. 9
        /\ d4 \in 0 .. 9 /\ d5 \in 0 .. 9
    BY SMT
  <1>word. x = d0 + d1 * 16 + d2 * 256 + d3 * 4096 + d4 * 65536 + d5 * 1048576
    BY SMT DEF HexWord
  <1> HIDE DEF d0, d1, d2, d3, d4, d5
  <1>1. PICK y4 \in Nat : y4 = d4 + 16 * d5
    BY <1>types, <1>word, SMT
  <1>2. PICK y3 \in Nat : y3 = d3 + 16 * y4
    BY <1>types, <1>word, SMT
  <1>3. PICK y2 \in Nat : y2 = d2 + 16 * y3
    BY <1>types, <1>word, SMT
  <1>4. PICK y1 \in Nat : y1 = d1 + 16 * y2
    BY <1>types, <1>word, SMT
  <1>5. x \in Nat /\ x < 16777216
    BY <1>types, <1>word, SMT
  <1>6. x \div 1 = d0 + 16 * y1
    BY <1>types, <1>word, <1>1, <1>2, <1>3, <1>4, SMT
  <1>7. x \div 16 = d1 + 16 * y2
    BY <1>types, <1>word, <1>1, <1>2, <1>3, SMT
  <1>8. x \div 256 = d2 + 16 * y3
    BY <1>types, <1>word, <1>1, <1>2, SMT
  <1>9. x \div 4096 = d3 + 16 * y4
    BY <1>types, <1>word, <1>1, SMT
  <1>10. x \div 65536 = d4 + 16 * d5
    BY <1>types, <1>word, SMT
  <1>11. x \div 1048576 = d5
    BY <1>types, <1>word, SMT
  <1>12. \A e \in 0 .. 9, y \in Nat : (e + 16 * y) % 16 = e
    BY <1>types, <1>word, SMT
  <1>13. d5 % 16 = d5
    BY <1>types, <1>word, SMT
  <1>14. /\ (x \div 1) % 16 = d0
         /\ (x \div 16) % 16 = d1
         /\ (x \div 256) % 16 = d2
         /\ (x \div 4096) % 16 = d3
         /\ (x \div 65536) % 16 = d4
         /\ (x \div 1048576) % 16 = d5
    BY <1>types, <1>6, <1>7, <1>8, <1>9, <1>10, <1>11, <1>12, <1>13, SMT
  <1> QED
    BY <1>5, <1>14, Powers, SMT DEF d0, d1, d2, d3, d4, d5

(* The word that has hex digit d[k] at position k, for k below n.          *)
LEMMA ShownDigits ==
  ASSUME NEW d \in [0 .. 5 -> 0 .. 9],
         x2 = Total([k \in 0 .. 5 |-> Placed(k, d[k])])
  PROVE  /\ x2 \in Nat /\ x2 < 16^6
         /\ \A k \in 0 .. 5 : Shown(k) = d[k]
  <1>1. /\ d[0] \in 0 .. 9 /\ d[1] \in 0 .. 9 /\ d[2] \in 0 .. 9
        /\ d[3] \in 0 .. 9 /\ d[4] \in 0 .. 9 /\ d[5] \in 0 .. 9
    BY SMT
  <1>2. x2 = d[0] * 16^0 + d[1] * 16^1 + d[2] * 16^2 + d[3] * 16^3 + d[4] * 16^4
               + d[5] * 16^5
    BY SMT DEF Total, Placed
  <1>3. d[0] * 1 = d[0]
    BY <1>1, SMT
  <1>4. x2 = HexWord(d)
    BY <1>2, <1>3, Powers, SMT DEF HexWord
  <1> QED
    BY <1>4, HexDigits, SMT DEF Shown

-----------------------------------------------------------------------------
(* The program.                                                            *)

(* Before block b, the digits of the first b blocks are in place.          *)
DigitsBefore(n, b) == [k \in 0 .. 5 |-> IF k < b THEN Digits(n)[k] ELSE 0]

Inv ==
  /\ input \in Inputs
  /\ block \in 0 .. 6
  /\ x1 = Rests(input)[block + 1]
  /\ x2 = Total([k \in 0 .. 5 |-> Placed(k, DigitsBefore(input, block)[k])])

LEMMA InputType == ASSUME input \in Inputs PROVE input \in Nat /\ input < 262144
  <1>1. input \in 0 .. 2^18 - 1
    BY InputsAssumption
  <1>2. \A top \in Nat : input \in 0 .. top - 1 => input \in Nat /\ input < top
    BY SMT
  <1>3. 2^18 \in Nat
    BY Powers, SMT
  <1> QED
    BY <1>1, <1>2, <1>3, Powers, SMT

LEMMA InitInv == Init => Inv
  <1> SUFFICES ASSUME Init PROVE Inv
    OBVIOUS
  <1>1. \A k \in 0 .. 5 : DigitsBefore(input, 0)[k] = 0
    BY SMT DEF DigitsBefore
  <1>2. \A k \in 0 .. 5 : Placed(k, 0) = 0
    BY Powers, SMT DEF Placed
  <1>3. Total([k \in 0 .. 5 |-> Placed(k, DigitsBefore(input, 0)[k])]) = 0
    BY <1>1, <1>2, SMT DEF Total
  <1> QED
    BY <1>3, InputType, RestsType, SMT DEF Init, Inv

LEMMA NextInv == Inv /\ [Next]_vars => Inv'
  <1> SUFFICES ASSUME Inv, [Next]_vars PROVE Inv'
    OBVIOUS
  <1>1. CASE ConvertDigit
    <2>1. input \in Inputs /\ input \in Nat /\ block \in 0 .. 5
      BY <1>1, InputType, SMT DEF ConvertDigit, Inv
    <2> DEFINE d == Digits(input)
               before(b) == [k \in 0 .. 5 |-> Placed(k, DigitsBefore(input, b)[k])]
    <2>2. d \in [0 .. 5 -> 0 .. 9] /\ Digit(x1) = d[block]
      BY <2>1, RestsType, SMT DEF Inv, Digits
    <2>3. Quotient(x1) = Rests(input)[block + 2]
      <3>1. block + 1 \in 1 .. 6 /\ (block + 1) + 1 = block + 2
        BY <2>1, SMT
      <3>2. \A k \in 1 .. 6 : Rests(input)[k+1] = Quotient(Rests(input)[k])
        BY <2>1, RestsType, SMT
      <3> QED
        BY <3>1, <3>2, SMT DEF Inv
    <2>4. \A k \in 0 .. 5 : Placed(k, 0) = 0
      BY Powers, SMT DEF Placed
    <2>5. \A k \in 0 .. 5 : Placed(k, d[k]) \in Nat
      <3>1. \A k \in 0 .. 5 : d[k] \in Nat
        BY <2>2, SMT
      <3>2. /\ Placed(0, d[0]) \in Nat /\ Placed(1, d[1]) \in Nat /\ Placed(2, d[2]) \in Nat
            /\ Placed(3, d[3]) \in Nat /\ Placed(4, d[4]) \in Nat /\ Placed(5, d[5]) \in Nat
        BY <3>1, Powers, SMT DEF Placed
      <3> QED
        BY <3>2, SMT
    <2>6. \A b \in 0 .. 6 : \A k \in 0 .. 5 :
            before(b)[k] = IF k < b THEN Placed(k, d[k]) ELSE 0
      BY <2>4, SMT DEF DigitsBefore
    <2>7. Total(before(block + 1)) = Total(before(block)) + Placed(block, d[block])
      BY <2>1, <2>5, <2>6, SMT DEF Total
    <2>8. Shifted(block, x2) = x2
      <3>1. block = 0 => x2 = 0
        BY <2>1, <2>6, SMT DEF Inv, Total
      <3> QED
        BY <3>1, SMT DEF Shifted
    <2>9. x2' = Total(before(block + 1))
      BY <1>1, <2>2, <2>7, <2>8, SMT DEF ConvertDigit, Inv
    <2> QED
      BY <1>1, <2>1, <2>3, <2>9, SMT DEF ConvertDigit, Inv
  <1>2. CASE UNCHANGED vars
    BY <1>2, SMT DEF vars, Inv
  <1> QED
    BY <1>1, <1>2 DEF Next

(* The program is always where Inv says it is.                             *)
THEOREM Conversion == Spec => []Inv
  BY InitInv, NextInv, PTL DEF Spec

LEMMA InvShown ==
  ASSUME Inv
  PROVE  /\ x2 \in Nat /\ x2 < 16^6
         /\ \A k \in 0 .. 5 : Shown(k) = DigitsBefore(input, block)[k]
         /\ DigitsBefore(input, block) \in [0 .. 5 -> 0 .. 9]
  <1>1. input \in Nat
    BY InputType, SMT DEF Inv
  <1>2. DigitsBefore(input, block) \in [0 .. 5 -> 0 .. 9]
    <2>1. Digits(input) \in [0 .. 5 -> 0 .. 9]
      BY <1>1, RestsType, SMT
    <2>2. \A k \in 0 .. 5 : (IF k < block THEN Digits(input)[k] ELSE 0) \in 0 .. 9
      BY <2>1, SMT
    <2> QED
      BY <2>2, SMT DEF DigitsBefore
  <1> QED
    BY <1>2, ShownDigits, SMT DEF Inv

(* Whatever the input, right or wrong, the display shows decimal digits    *)
(* only, each written by its own block (bin2dec.asm).                      *)
THEOREM OnlyDigits == Spec => []OnlyDecimalDigits
  <1>1. Inv => OnlyDecimalDigits
    <2> SUFFICES ASSUME Inv PROVE OnlyDecimalDigits
      OBVIOUS
    <2>1. \A k \in 0 .. 5 : Shown(k) \in 0 .. 9
      BY InvShown, SMT
    <2>2. \A k \in 0 .. 5 : k >= block => Shown(k) = 0
      BY InvShown, SMT DEF Inv, DigitsBefore
    <2> QED
      BY <2>1, <2>2, InvShown, SMT DEF OnlyDecimalDigits
  <1> QED
    BY <1>1, Conversion, PTL

LEMMA Finished ==
  ASSUME Inv, block = 6
  PROVE  /\ DigitsBefore(input, block) = Digits(input)
         /\ input \in Nat /\ input < 262144
         /\ Digits(input) \in [0 .. 5 -> 0 .. 9]
  <1>1. input \in Nat /\ input < 262144
    BY InputType, SMT DEF Inv
  <1>2. Digits(input) = [k \in 0 .. 5 |-> Digits(input)[k]]
    BY SMT DEF Digits
  <1>3. DigitsBefore(input, 6) = [k \in 0 .. 5 |-> Digits(input)[k]]
    BY SMT DEF DigitsBefore
  <1> QED
    BY <1>1, <1>2, <1>3, RestsType, SMT

(* The claim of bin2dec.asm, that the display shows the input in decimal,  *)
(* holds of every input of up to 14 bits.                                  *)
THEOREM ExactBelow == Spec => []ExactUpTo14Bits
  <1>1. Inv => ExactUpTo14Bits
    <2> SUFFICES ASSUME Inv, input < 2^14, block = 6 PROVE x2 = Decimal(input)
      BY DEF ExactUpTo14Bits, DisplaysDecimal
    <2>1. x2 = Total([k \in 0 .. 5 |-> Placed(k, Digits(input)[k])])
      BY Finished, SMT DEF Inv
    <2>2. \A k \in 0 .. 5 : Digits(input)[k] = DecimalDigit(input, k)
      BY Finished, ExactDigits, Powers, SMT
    <2>3. \A k \in 0 .. 5 :
            Placed(k, Digits(input)[k]) = DecimalDigit(input, k) * 16^k
      BY <2>2, SMT DEF Placed
    <2> QED
      BY <2>1, <2>3, SMT DEF Decimal, Total
  <1> QED
    BY <1>1, Conversion, PTL

(* What the display shows, read as a decimal number, is never below the    *)
(* input and above it by at most one part in 8192, for every input.        *)
THEOREM BoundedError == Spec => []ErrorIsBounded
  <1>1. Inv => ErrorIsBounded
    <2> SUFFICES ASSUME Inv, block = 6 PROVE ShownNumber - input \in 0 .. input \div 8192
      BY DEF ErrorIsBounded
    <2> DEFINE d == Digits(input)
    <2>1. d \in [0 .. 5 -> 0 .. 9]
      BY Finished, SMT
    <2>2. \A k \in 0 .. 5 : Shown(k) = d[k]
      BY InvShown, Finished, SMT
    <2>3. ShownNumber = d[0] * 10^0 + d[1] * 10^1 + d[2] * 10^2 + d[3] * 10^3
                          + d[4] * 10^4 + d[5] * 10^5
      BY <2>2, SMT DEF ShownNumber, Total
    <2> HIDE DEF d
    <2>4. ShownNumber = Value(d)
      BY <2>1, <2>3, Powers, SMT DEF Value
    <2> QED
      BY <2>4, Finished, Accounts, SMT DEF d
  <1> QED
    BY <1>1, Conversion, PTL

=============================================================================
