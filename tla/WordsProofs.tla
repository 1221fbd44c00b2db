----------------------------- MODULE WordsProofs -----------------------------
(***************************************************************************)
(* What the operators of module Words compute.  Num is a fold over a set,  *)
(* which takes the elements in an order that CHOOSE fixes; the first       *)
(* lemmas say that the order does not matter and give the value of the     *)
(* narrow fields of a word.  Then come induction over the bits of a word,  *)
(* sums and differences carry by carry, and products column by column.     *)
(* The last part relates words of up to 32 bits to the integers: the value *)
(* of a sum, a difference, a complement, a shift and a 64-bit product.     *)
(***************************************************************************)
EXTENDS Words, FiniteSetTheorems, WellFoundedInduction, TLAPS

-----------------------------------------------------------------------------
(* The recursion inside of the fold of a sum of weights f.                 *)

Rest(s) == s \ {CHOOSE x \in s : TRUE}
Step(f, s, rest) == f[CHOOSE x \in s : TRUE] + rest

IsSum(f, g, S) ==
  g = [s \in SUBSET S |-> IF s = {} THEN 0 ELSE Step(f, s, g[Rest(s)])]

LEMMA SumValue ==
  ASSUME NEW S, NEW f, NEW g, IsSum(f, g, S), NEW s \in SUBSET S
  PROVE  g[s] = IF s = {} THEN 0 ELSE Step(f, s, g[Rest(s)])
  BY DEF IsSum

LEMMA FoldIsSum ==
  ASSUME NEW S, NEW f, NEW g, IsSum(f, g, S)
  PROVE  \E iter : IsSum(f, iter, S) /\ SumFunctionOnSet(f, S) = iter[S]
  <1> DEFINE h == CHOOSE iter : IsSum(f, iter, S)
  <1>1. IsSum(f, h, S)
    OBVIOUS
  <1>2. SumFunctionOnSet(f, S) = h[S]
    BY DEF SumFunctionOnSet, FoldFunctionOnSet, MapThenFoldSet, IsSum, Step, Rest
  <1> QED
    BY <1>1, <1>2

LEMMA RestIsSmaller ==
  ASSUME NEW s, s # {}
  PROVE  /\ Rest(s) \subseteq s /\ Rest(s) # s
         /\ \A S : s \in SUBSET S => <<Rest(s), s>> \in StrictSubsetOrdering(S)
  <1> DEFINE x == CHOOSE x \in s : TRUE
  <1>1. x \in s
    OBVIOUS
  <1>2. Rest(s) = s \ {x}
    BY DEF Rest
  <1> HIDE DEF x
  <1>3. Rest(s) \subseteq s /\ Rest(s) # s
    BY <1>1, <1>2
  <1> QED
    BY <1>3 DEF StrictSubsetOrdering

(* A set of finite sets has a member none of whose subsets is in it.       *)
LEMMA SmallestSet ==
  ASSUME NEW S, IsFiniteSet(S), NEW C, C \subseteq SUBSET S, C # {}
  PROVE  \E s \in C : \A t \in C : <<t, s>> \notin StrictSubsetOrdering(S)
  <1>1. C \subseteq FiniteSubsetsOf(S)
    BY FS_Subset DEF FiniteSubsetsOf
  <1> QED
    BY <1>1, FS_StrictSubsetOrderingWellFounded, WFMin

LEMMA SumUnique ==
  ASSUME NEW S, IsFiniteSet(S), NEW f, NEW g, IsSum(f, g, S), NEW h, IsSum(f, h, S)
  PROVE  \A s \in SUBSET S : g[s] = h[s]
  <1> DEFINE Differ == { s \in SUBSET S : g[s] # h[s] }
  <1>1. SUFFICES ASSUME Differ # {} PROVE FALSE
    OBVIOUS
  <1>2. PICK s \in Differ : \A t \in Differ : <<t, s>> \notin StrictSubsetOrdering(S)
    BY <1>1, SmallestSet
  <1>3. s \in SUBSET S /\ g[s] # h[s]
    BY <1>2
  <1>4. s # {}
    BY <1>3, SumValue
  <1>5. Rest(s) \in SUBSET S /\ Rest(s) \notin Differ
    BY <1>2, <1>3, <1>4, RestIsSmaller
  <1>6. g[Rest(s)] = h[Rest(s)]
    BY <1>5
  <1>7. g[s] = Step(f, s, g[Rest(s)]) /\ h[s] = Step(f, s, h[Rest(s)])
    BY <1>3, <1>4, SumValue
  <1> QED
    BY <1>3, <1>6, <1>7

(* The recursive function exists.                                          *)
LEMMA SumRestricts ==
  ASSUME NEW S, NEW f, NEW g, IsSum(f, g, S), NEW T \in SUBSET S
  PROVE  IsSum(f, [s \in SUBSET T |-> g[s]], T)
  <1> DEFINE h == [s \in SUBSET T |-> g[s]]
  <1>1. ASSUME NEW s \in SUBSET T
        PROVE  h[s] = IF s = {} THEN 0 ELSE Step(f, s, h[Rest(s)])
    <2>1. s \in SUBSET S /\ h[s] = g[s]
      OBVIOUS
    <2>2. s # {} => Rest(s) \in SUBSET T
      BY RestIsSmaller
    <2>3. s # {} => h[Rest(s)] = g[Rest(s)]
      BY <2>2
    <2>4. g[s] = IF s = {} THEN 0 ELSE Step(f, s, g[Rest(s)])
      BY <2>1, SumValue
    <2> QED
      BY <2>1, <2>3, <2>4
  <1>2. h = [s \in SUBSET T |-> h[s]]
    OBVIOUS
  <1> HIDE DEF h
  <1>3. IsSum(f, h, T)
    BY <1>1, <1>2 DEF IsSum
  <1> QED
    BY <1>3 DEF h

LEMMA SumGivesFold ==
  ASSUME NEW S, IsFiniteSet(S), NEW f, NEW g, IsSum(f, g, S), NEW T \in SUBSET S
  PROVE  SumFunctionOnSet(f, T) = g[T]
  <1> DEFINE h == [s \in SUBSET T |-> g[s]]
  <1>1. IsSum(f, h, T)
    BY SumRestricts
  <1>2. h[T] = g[T]
    OBVIOUS
  <1> HIDE DEF h
  <1>3. PICK iter : IsSum(f, iter, T) /\ SumFunctionOnSet(f, T) = iter[T]
    BY <1>1, FoldIsSum
  <1>4. IsFiniteSet(T)
    BY FS_Subset
  <1>5. iter[T] = h[T]
    BY <1>1, <1>3, <1>4, SumUnique
  <1> QED
    BY <1>2, <1>3, <1>5

LEMMA SumExists ==
  ASSUME NEW S, IsFiniteSet(S), NEW f
  PROVE  \E g : IsSum(f, g, S)
  <1> DEFINE Without == { T \in SUBSET S : ~ \E g : IsSum(f, g, T) }
             sum(s) == SumFunctionOnSet(f, s)
  <1>1. SUFFICES ASSUME Without # {} PROVE FALSE
    OBVIOUS
  <1>2. PICK T \in Without : \A U \in Without : <<U, T>> \notin StrictSubsetOrdering(S)
    BY <1>1, SmallestSet
  <1>3. T \in SUBSET S /\ ~ \E g : IsSum(f, g, T)
    BY <1>2
  <1>4. IsFiniteSet(T)
    BY <1>3, FS_Subset
  <1>5. ASSUME NEW U \in SUBSET T, U # T
        PROVE  sum(U) = IF U = {} THEN 0 ELSE Step(f, U, sum(Rest(U)))
    <2>1. <<U, T>> \in StrictSubsetOrdering(S)
      BY <1>3, <1>5 DEF StrictSubsetOrdering
    <2>2. PICK g : IsSum(f, g, U)
      BY <1>2, <1>3, <2>1
    <2>3. IsFiniteSet(U)
      BY <1>4, FS_Subset
    <2>4. \A V \in SUBSET U : sum(V) = g[V]
      BY <2>2, <2>3, SumGivesFold
    <2>5. U # {} => Rest(U) \in SUBSET U
      BY RestIsSmaller
    <2> HIDE DEF sum
    <2> QED
      BY <2>2, <2>4, <2>5, SumValue
  <1> HIDE DEF sum
  <1> DEFINE h == [s \in SUBSET T |-> IF s = {} THEN 0 ELSE Step(f, s, sum(Rest(s)))]
  <1>6. ASSUME NEW s \in SUBSET T, s # {}
        PROVE  h[Rest(s)] = sum(Rest(s))
    <2>1. Rest(s) \in SUBSET T /\ Rest(s) # T
      BY <1>6, RestIsSmaller
    <2> QED
      BY <1>5, <2>1
  <1>7. ASSUME NEW s \in SUBSET T
        PROVE  h[s] = IF s = {} THEN 0 ELSE Step(f, s, h[Rest(s)])
    BY <1>6
  <1>8. h = [s \in SUBSET T |-> h[s]]
    OBVIOUS
  <1> HIDE DEF h
  <1>9. IsSum(f, h, T)
    BY <1>7, <1>8 DEF IsSum
  <1> QED
    BY <1>3, <1>9

LEMMA SumUnfolds ==
  ASSUME NEW S, IsFiniteSet(S), NEW f
  PROVE  SumFunctionOnSet(f, S) =
           IF S = {} THEN 0 ELSE Step(f, S, SumFunctionOnSet(f, Rest(S)))
  <1>1. PICK g : IsSum(f, g, S)
    BY SumExists
  <1>2. \A T \in SUBSET S : SumFunctionOnSet(f, T) = g[T]
    BY <1>1, SumGivesFold
  <1>3. S # {} => Rest(S) \in SUBSET S
    BY RestIsSmaller
  <1> QED
    BY <1>1, <1>2, <1>3, SumValue

-----------------------------------------------------------------------------
(* The sum does not depend on the order.                                   *)

LEMMA SumOfNone ==
  ASSUME NEW f
  PROVE  SumFunctionOnSet(f, {}) = 0
  BY SumUnfolds, FS_EmptySet

LEMMA SumType ==
  ASSUME NEW S, IsFiniteSet(S), NEW f, \A x \in S : f[x] \in Int
  PROVE  SumFunctionOnSet(f, S) \in Int
  <1> DEFINE sum(s) == SumFunctionOnSet(f, s)
             Untyped == { s \in SUBSET S : sum(s) \notin Int }
  <1>1. SUFFICES ASSUME Untyped # {} PROVE FALSE
    OBVIOUS
  <1>2. PICK s \in Untyped : \A t \in Untyped : <<t, s>> \notin StrictSubsetOrdering(S)
    BY <1>1, SmallestSet
  <1>3. s \in SUBSET S /\ sum(s) \notin Int
    BY <1>2
  <1>4. s # {}
    BY <1>3, SumOfNone
  <1>5. Rest(s) \in SUBSET S /\ sum(Rest(s)) \in Int
    BY <1>2, <1>3, <1>4, RestIsSmaller
  <1> DEFINE x == CHOOSE x \in s : TRUE
  <1>6. f[x] \in Int
    BY <1>3, <1>4
  <1>7. sum(s) = Step(f, s, sum(Rest(s)))
    BY <1>3, <1>4, FS_Subset, SumUnfolds
  <1>8. Step(f, s, sum(Rest(s))) = f[x] + sum(Rest(s))
    BY DEF Step
  <1> HIDE DEF x, sum
  <1> QED
    BY <1>3, <1>5, <1>6, <1>7, <1>8

LEMMA SumAdds ==
  ASSUME NEW S, IsFiniteSet(S), NEW f, \A x \in S : f[x] \in Int, NEW y \in S
  PROVE  SumFunctionOnSet(f, S) = f[y] + SumFunctionOnSet(f, S \ {y})
  <1> DEFINE sum(s) == SumFunctionOnSet(f, s)
             Wrong == { s \in SUBSET S : \E z \in s : sum(s) # f[z] + sum(s \ {z}) }
  <1>1. SUFFICES ASSUME Wrong # {} PROVE FALSE
    OBVIOUS
  <1>2. PICK s \in Wrong : \A t \in Wrong : <<t, s>> \notin StrictSubsetOrdering(S)
    BY <1>1, SmallestSet
  <1>3. s \in SUBSET S
    BY <1>2
  <1>4. PICK z \in s : sum(s) # f[z] + sum(s \ {z})
    BY <1>2
  <1> DEFINE x == CHOOSE x \in s : TRUE
  <1>5. x \in s /\ Rest(s) = s \ {x}
    BY <1>4 DEF Rest
  <1>6. sum(s) = f[x] + sum(s \ {x})
    BY <1>3, <1>4, <1>5, FS_Subset, SumUnfolds DEF Step
  <1> HIDE DEF x
  <1>7. x # z
    BY <1>4, <1>6
  <1> DEFINE t == s \ {x}
             u == s \ {z}
             v == s \ {x, z}
  <1>8. /\ z \in t /\ t \ {z} = v /\ t # s /\ t \subseteq s
        /\ x \in u /\ u \ {x} = v /\ u # s /\ u \subseteq s
    BY <1>4, <1>5, <1>7
  <1>9. <<t, s>> \in StrictSubsetOrdering(S) /\ <<u, s>> \in StrictSubsetOrdering(S)
    BY <1>3, <1>8 DEF StrictSubsetOrdering
  <1>10. t \notin Wrong /\ u \notin Wrong
    BY <1>2, <1>9
  <1>11. sum(t) = f[z] + sum(v) /\ sum(u) = f[x] + sum(v)
    BY <1>3, <1>8, <1>10
  <1>12. v \in SUBSET S /\ f[x] \in Int /\ f[z] \in Int
    BY <1>3, <1>4, <1>5
  <1> HIDE DEF t, u, v
  <1>13. sum(s) = f[x] + sum(t) /\ sum(s) # f[z] + sum(u)
    BY <1>4, <1>6 DEF t, u
  <1>14. sum(v) \in Int
    BY <1>12, FS_Subset, SumType
  <1> HIDE DEF sum
  <1> QED
    BY <1>11, <1>12, <1>13, <1>14

(* The sum of the values 0 .. n of a function, one after the other.        *)
LEMMA SumOfFirst ==
  ASSUME NEW f, f[0] \in Int
  PROVE  SumFunctionOnSet(f, 0 .. 0) = f[0]
  <1>1. 0 .. 0 = {0} /\ (0 .. 0) \ {0} = {}
    OBVIOUS
  <1>2. IsFiniteSet(0 .. 0)
    BY FS_Interval, 0 \in Int
  <1>3. SumFunctionOnSet(f, 0 .. 0) = f[0] + SumFunctionOnSet(f, (0 .. 0) \ {0})
    BY <1>1, <1>2, SumAdds
  <1> QED
    BY <1>1, <1>3, SumOfNone

LEMMA SumOfNext ==
  ASSUME NEW n \in Nat, NEW f, \A k \in 0 .. n + 1 : f[k] \in Int
  PROVE  /\ SumFunctionOnSet(f, 0 .. n) \in Int
         /\ SumFunctionOnSet(f, 0 .. n + 1) = SumFunctionOnSet(f, 0 .. n) + f[n + 1]
  <1>1. IsFiniteSet(0 .. n + 1) /\ IsFiniteSet(0 .. n)
    BY FS_Interval
  <1>2. (0 .. n + 1) \ {n + 1} = 0 .. n /\ n + 1 \in 0 .. n + 1
        /\ \A k \in 0 .. n : k \in 0 .. n + 1
    OBVIOUS
  <1>3. SumFunctionOnSet(f, 0 .. n) \in Int
    BY <1>1, <1>2, SumType
  <1>4. SumFunctionOnSet(f, 0 .. n + 1)
          = f[n + 1] + SumFunctionOnSet(f, (0 .. n + 1) \ {n + 1})
    BY <1>1, <1>2, SumAdds
  <1> DEFINE sum == SumFunctionOnSet(f, 0 .. n)
             next == f[n + 1]
  <1>5. SumFunctionOnSet(f, 0 .. n + 1) = next + sum
    BY <1>2, <1>4
  <1>6. next \in Int /\ sum \in Int
    BY <1>2, <1>3
  <1> HIDE DEF sum, next
  <1>7. next + sum = sum + next
    BY <1>6
  <1>8. SumFunctionOnSet(f, 0 .. n + 1) = sum + next
    BY <1>5, <1>7
  <1> QED
    BY <1>6, <1>8 DEF sum, next

-----------------------------------------------------------------------------
(* Num is the sum of the weights of the bits.                              *)

Weights == [i \in Int |-> 2^i]

LEMMA NumIsSum ==
  ASSUME NEW S, IsFiniteSet(S), S \subseteq Int
  PROVE  Num(S) = SumFunctionOnSet(Weights, S)
  <1> DEFINE IsNum(g) == g = [s \in SUBSET S |->
                               IF s = {} THEN 0 ELSE 2^(CHOOSE x \in s : TRUE) + g[Rest(s)]]
             h == CHOOSE g : IsNum(g)
  <1>1. ASSUME NEW s \in SUBSET S, s # {}, NEW r
        PROVE  Step(Weights, s, r) = 2^(CHOOSE x \in s : TRUE) + r
    <2>1. (CHOOSE x \in s : TRUE) \in Int
      BY <1>1
    <2> QED
      BY <2>1 DEF Step, Weights
  <1>2. ASSUME NEW g
        PROVE  [s \in SUBSET S |-> IF s = {} THEN 0 ELSE Step(Weights, s, g[Rest(s)])]
                 = [s \in SUBSET S |->
                     IF s = {} THEN 0 ELSE 2^(CHOOSE x \in s : TRUE) + g[Rest(s)]]
    BY <1>1
  <1>3. \A g : IsNum(g) <=> IsSum(Weights, g, S)
    BY <1>2 DEF IsSum
  <1>4. Num(S) = h[S]
    BY DEF Num, MapThenSumSet, MapThenFoldSet, Rest
  <1> HIDE DEF IsNum
  <1>5. PICK g : IsSum(Weights, g, S)
    BY SumExists
  <1>6. IsNum(h)
    BY <1>3, <1>5
  <1> HIDE DEF h
  <1>7. SumFunctionOnSet(Weights, S) = h[S]
    BY <1>3, <1>6, SumGivesFold
  <1> QED
    BY <1>4, <1>7

LEMMA NumUnfolds ==
  ASSUME NEW S, IsFiniteSet(S), S \subseteq Int
  PROVE  Num(S) = IF S = {} THEN 0 ELSE 2^(CHOOSE x \in S : TRUE) + Num(Rest(S))
  <1>1. CASE S = {}
    BY <1>1, NumIsSum, SumOfNone
  <1>2. CASE S # {}
    <2>1. IsFiniteSet(Rest(S)) /\ Rest(S) \subseteq Int
      BY <1>2, RestIsSmaller, FS_Subset
    <2>2. Num(S) = Step(Weights, S, Num(Rest(S)))
      BY <1>2, <2>1, NumIsSum, SumUnfolds
    <2>3. (CHOOSE x \in S : TRUE) \in Int
      BY <1>2
    <2> QED
      BY <1>2, <2>2, <2>3 DEF Step, Weights
  <1> QED
    BY <1>1, <1>2

LEMMA NumOfNone == Num({}) = 0
  BY NumUnfolds, FS_EmptySet

LEMMA NumType ==
  ASSUME NEW S, IsFiniteSet(S), S \subseteq Int
  PROVE  Num(S) \in Int
  <1>1. \A x \in S : Weights[x] \in Int
    BY DEF Weights
  <1> QED
    BY <1>1, NumIsSum, SumType

LEMMA NumAdds ==
  ASSUME NEW S, IsFiniteSet(S), S \subseteq Int, NEW y \in S
  PROVE  Num(S) = 2^y + Num(S \ {y})
  <1>1. \A x \in S : Weights[x] \in Int
    BY DEF Weights
  <1>2. SumFunctionOnSet(Weights, S) = Weights[y] + SumFunctionOnSet(Weights, S \ {y})
    BY <1>1, SumAdds
  <1>3. IsFiniteSet(S \ {y}) /\ S \ {y} \subseteq Int
    BY FS_Subset
  <1>4. Weights[y] = 2^y
    BY DEF Weights
  <1> QED
    BY <1>2, <1>3, <1>4, NumIsSum

(* The bits of a field, one after the other.                               *)
LEMMA NumBit ==
  ASSUME NEW n \in Nat, NEW v \in Vec(n + 1)
  PROVE  /\ Num(v) = Num(v \ {n}) + (IF n \in v THEN 2^n ELSE 0)
         /\ v \ {n} \in Vec(n)
         /\ Num(v \ {n}) \in Int
  <1> DEFINE u == v \ {n}
  <1>1. v \in SUBSET (0 .. n) /\ u \in SUBSET (0 .. n) /\ u \in Vec(n)
    BY DEF Vec, Bits
  <1>2. IsFiniteSet(0 .. n)
    BY FS_Interval
  <1>3. IsFiniteSet(v) /\ IsFiniteSet(u)
    BY <1>1, <1>2, FS_Subset
  <1>4. v \subseteq Int /\ u \subseteq Int
    BY <1>1
  <1>5. Num(u) \in Int
    BY <1>3, <1>4, NumType
  <1>6. ASSUME n \in v
        PROVE  Num(v) = 2^n + Num(u)
    BY <1>3, <1>4, <1>6, NumAdds
  <1>7. ASSUME n \notin v
        PROVE  Num(v) = Num(u)
    <2>1. v = u
      BY <1>7
    <2> QED
      BY <2>1
  <1> HIDE DEF u
  <1>8. 2^n \in Int
    OBVIOUS
  <1>9. Num(v) = Num(u) + (IF n \in v THEN 2^n ELSE 0)
    BY <1>5, <1>6, <1>7, <1>8
  <1> QED
    BY <1>1, <1>5, <1>9 DEF u

Bit(v, i, weight) == IF i \in v THEN weight ELSE 0

LEMMA NumOf1Bit ==
  ASSUME NEW v \in Vec(1)
  PROVE  Num(v) = Bit(v, 0, 1)
  <1>1. v \in Vec(0 + 1) /\ 2^0 = 1
    OBVIOUS
  <1>2. Num(v) = Num(v \ {0}) + Bit(v, 0, 1) /\ v \ {0} \in Vec(0)
    BY <1>1, NumBit DEF Bit
  <1>3. v \ {0} = {}
    BY <1>2 DEF Vec, Bits
  <1> QED
    BY <1>2, <1>3, NumOfNone DEF Bit

LEMMA NumOf2Bits ==
  ASSUME NEW v \in Vec(2)
  PROVE  Num(v) = Bit(v, 0, 1) + Bit(v, 1, 2)
  <1>1. v \in Vec(1 + 1) /\ 2^1 = 2
    OBVIOUS
  <1>2. Num(v) = Num(v \ {1}) + Bit(v, 1, 2) /\ v \ {1} \in Vec(1)
    BY <1>1, NumBit DEF Bit
  <1> QED
    BY <1>2, NumOf1Bit DEF Bit

LEMMA NumOf3Bits ==
  ASSUME NEW v \in Vec(3)
  PROVE  Num(v) = Bit(v, 0, 1) + Bit(v, 1, 2) + Bit(v, 2, 4)
  <1>1. v \in Vec(2 + 1) /\ 2^2 = 4
    OBVIOUS
  <1>2. Num(v) = Num(v \ {2}) + Bit(v, 2, 4) /\ v \ {2} \in Vec(2)
    BY <1>1, NumBit DEF Bit
  <1> QED
    BY <1>2, NumOf2Bits DEF Bit

LEMMA NumOf4Bits ==
  ASSUME NEW v \in Vec(4)
  PROVE  Num(v) = Bit(v, 0, 1) + Bit(v, 1, 2) + Bit(v, 2, 4) + Bit(v, 3, 8)
  <1>1. v \in Vec(3 + 1) /\ 2^3 = 8
    OBVIOUS
  <1>2. Num(v) = Num(v \ {3}) + Bit(v, 3, 8) /\ v \ {3} \in Vec(3)
    BY <1>1, NumBit DEF Bit
  <1> QED
    BY <1>2, NumOf3Bits DEF Bit

LEMMA NumOf5Bits ==
  ASSUME NEW v \in Vec(5)
  PROVE  Num(v) = Bit(v, 0, 1) + Bit(v, 1, 2) + Bit(v, 2, 4) + Bit(v, 3, 8)
                    + Bit(v, 4, 16)
  <1>1. v \in Vec(4 + 1) /\ 2^4 = 16
    OBVIOUS
  <1>2. Num(v) = Num(v \ {4}) + Bit(v, 4, 16) /\ v \ {4} \in Vec(4)
    BY <1>1, NumBit DEF Bit
  <1> QED
    BY <1>2, NumOf4Bits DEF Bit

LEMMA NumOf6Bits ==
  ASSUME NEW v \in Vec(6)
  PROVE  Num(v) = Bit(v, 0, 1) + Bit(v, 1, 2) + Bit(v, 2, 4) + Bit(v, 3, 8)
                    + Bit(v, 4, 16) + Bit(v, 5, 32)
  <1>1. v \in Vec(5 + 1) /\ 2^5 = 32
    OBVIOUS
  <1>2. Num(v) = Num(v \ {5}) + Bit(v, 5, 32) /\ v \ {5} \in Vec(5)
    BY <1>1, NumBit DEF Bit
  <1> QED
    BY <1>2, NumOf5Bits DEF Bit

LEMMA NumOf7Bits ==
  ASSUME NEW v \in Vec(7)
  PROVE  Num(v) = Bit(v, 0, 1) + Bit(v, 1, 2) + Bit(v, 2, 4) + Bit(v, 3, 8)
                    + Bit(v, 4, 16) + Bit(v, 5, 32) + Bit(v, 6, 64)
  <1>1. v \in Vec(6 + 1) /\ 2^6 = 64
    OBVIOUS
  <1>2. Num(v) = Num(v \ {6}) + (IF 6 \in v THEN 2^6 ELSE 0) /\ v \ {6} \in Vec(6)
    BY <1>1, NumBit
  <1> QED
    BY <1>1, <1>2, NumOf6Bits DEF Bit

(* The bits of a literal.                                                  *)
IsOdd(n) == n % 2 = 1

LEMMA LitOf7Bits ==
  ASSUME NEW n \in Nat
  PROVE  /\ 0 \in Lit(7, n) <=> IsOdd(n)
         /\ 1 \in Lit(7, n) <=> IsOdd(n \div 2)
         /\ 2 \in Lit(7, n) <=> IsOdd(n \div 4)
         /\ 3 \in Lit(7, n) <=> IsOdd(n \div 8)
         /\ 4 \in Lit(7, n) <=> IsOdd(n \div 16)
         /\ 5 \in Lit(7, n) <=> IsOdd(n \div 32)
         /\ 6 \in Lit(7, n) <=> IsOdd(n \div 64)
  <1>1. /\ 2^0 = 1 /\ 2^1 = 2 /\ 2^2 = 4 /\ 2^3 = 8
        /\ 2^4 = 16 /\ 2^5 = 32 /\ 2^6 = 64
    OBVIOUS
  <1>2. \A i \in 0 .. 6 : i \in Lit(7, n) <=> IsOdd(n \div 2^i)
    BY DEF Lit, Bits, IsOdd
  <1>3. n \div 1 = n
    OBVIOUS
  <1> QED
    BY <1>1, <1>2, <1>3

-----------------------------------------------------------------------------
(* Carries, bit by bit.                                                    *)

Majority(x, y, z) == (x /\ y) \/ ((x \/ y) /\ z)

LEMMA CarryIn ==
  ASSUME NEW w \in Nat, w > 0, NEW a, NEW b, a \cap b \subseteq Nat, NEW c \in BOOLEAN
  PROVE  0 \in Carry(w, a, b, c) <=> c
  <1>1. 0 .. 0-1 = {}
    OBVIOUS
  <1>2. 0 \in Bits(w)
    BY DEF Bits
  <1>3. \A j \in a \cap b : ~ (j < 0)
    OBVIOUS
  <1> QED
    BY <1>1, <1>2, <1>3 DEF Carry

LEMMA CarryOut ==
  ASSUME NEW w \in Nat, NEW a, NEW b, a \cap b \subseteq Nat, NEW c \in BOOLEAN,
         NEW i \in Nat, i + 1 < w
  PROVE  i + 1 \in Carry(w, a, b, c) <=>
           Majority(i \in a, i \in b, i \in Carry(w, a, b, c))
  <1> DEFINE stopped(k) == { m \in 0 .. k-1 : m \notin a /\ m \notin b }
             In(k) == \/ c /\ stopped(k) = {}
                      \/ \E j \in a \cap b : j < k /\ j+1 .. k-1 \cap stopped(k) = {}
  <1>1. /\ i + 1 \in Carry(w, a, b, c) <=> In(i + 1)
        /\ i \in Carry(w, a, b, c) <=> In(i)
    BY DEF Carry, Bits
  <1>2. (i + 1) - 1 = i
    OBVIOUS
  <1>3. stopped(i + 1) = stopped(i) \cup { m \in {i} : m \notin a /\ m \notin b }
    OBVIOUS
  <1>4. i \in a /\ i \in b => In(i + 1)
    <2>1. i + 1 .. (i + 1) - 1 = {}
      OBVIOUS
    <2> QED
      BY <2>1
  <1>5. i \notin a /\ i \notin b => ~ In(i + 1)
    <2> SUFFICES ASSUME i \notin a, i \notin b PROVE ~ In(i + 1)
      OBVIOUS
    <2>1. i \in stopped(i + 1)
      OBVIOUS
    <2>2. \A j \in a \cap b : j < i + 1 => i \in j+1 .. (i + 1) - 1
      OBVIOUS
    <2> QED
      BY <2>1, <2>2
  <1>6. (i \in a /\ i \notin b) \/ (i \notin a /\ i \in b) => (In(i + 1) <=> In(i))
    <2> SUFFICES ASSUME i \in a \/ i \in b, ~ (i \in a /\ i \in b) PROVE In(i + 1) <=> In(i)
      OBVIOUS
    <2>1. stopped(i + 1) = stopped(i)
      BY <1>3
    <2>2. \A j \in a \cap b : j < i + 1 <=> j < i
      OBVIOUS
    <2>3. i \notin stopped(i)
      OBVIOUS
    <2>4. \A j \in a \cap b : j+1 .. (i + 1) - 1 \cap stopped(i) = j+1 .. i-1 \cap stopped(i)
      BY <2>3
    <2> HIDE DEF stopped
    <2> QED
      BY <2>1, <2>2, <2>4
  <1> HIDE DEF stopped, In
  <1> QED
    BY <1>1, <1>4, <1>5, <1>6 DEF Majority

LEMMA LeastBit ==
  ASSUME NEW D, D \subseteq Nat, D # {}
  PROVE  \E i \in D : \A j \in D : i <= j
  <1>1. IsWellFoundedOn(OpToRel(<, Nat), Nat)
    BY NatLessThanWellFounded
  <1>2. PICK i \in D : \A j \in D : ~ (<<j, i>> \in OpToRel(<, Nat))
    BY <1>1, WFMin, Zenon
  <1>3. \A j \in D : ~ (j < i)
    BY <1>2 DEF OpToRel
  <1> QED
    BY <1>3

(* Induction over the bits of a word.                                      *)
LEMMA BitInduction ==
  ASSUME NEW w \in Nat, NEW Good, w > 0 => 0 \in Good,
         \A i \in Nat : i + 1 < w /\ i \in Good => i + 1 \in Good
  PROVE  \A i \in Bits(w) : i \in Good
  <1> DEFINE Bad == { i \in Bits(w) : i \notin Good }
  <1>1. SUFFICES ASSUME Bad # {} PROVE FALSE
    OBVIOUS
  <1>2. Bad \subseteq Nat
    BY DEF Bits
  <1>3. PICK i \in Bad : \A j \in Bad : i <= j
    BY <1>1, <1>2, LeastBit
  <1>4. i \in Nat /\ i < w /\ i \notin Good
    BY <1>3 DEF Bits
  <1>5. i # 0
    BY <1>4
  <1>6. i - 1 \in Nat /\ (i - 1) + 1 = i /\ i - 1 \in Bits(w)
    BY <1>4, <1>5 DEF Bits
  <1>7. i - 1 \notin Bad
    BY <1>3, <1>4
  <1> QED
    BY <1>4, <1>6, <1>7

Differ(x, y) == (x /\ ~y) \/ (~x /\ y)

LEMMA SumBits ==
  ASSUME NEW w \in Nat, NEW a, NEW b, NEW i \in Bits(w)
  PROVE  /\ i \in Xor(a, b) <=> Differ(i \in a, i \in b)
         /\ i \in Not(w, b) <=> i \notin b
         /\ i \in Add(w, a, b) <=>
              Differ(Differ(i \in a, i \in b), i \in Carry(w, a, b, FALSE))
         /\ i \in Sub(w, a, b) <=>
              Differ(Differ(i \in a, i \notin b), i \in Carry(w, a, Not(w, b), TRUE))
  BY DEF Xor, Not, Add, Sub, Differ

LEMMA SumTypes ==
  ASSUME NEW w \in Nat, NEW a, NEW b
  PROVE  /\ Add(w, a, b) \in Vec(w)
         /\ Sub(w, a, b) \in Vec(w)
         /\ Not(w, b) \in Vec(w)
         /\ \A v \in Vec(w) : v \subseteq Nat
  <1>1. Add(w, a, b) \subseteq Bits(w) /\ Sub(w, a, b) \subseteq Bits(w)
    BY DEF Add, Sub
  <1>2. Not(w, b) \subseteq Bits(w)
    BY DEF Not
  <1>3. Bits(w) \subseteq Nat
    BY DEF Bits
  <1> QED
    BY <1>1, <1>2, <1>3 DEF Vec

(* Two words are equal if their bits are.                                  *)
LEMMA SameBits ==
  ASSUME NEW w \in Nat, NEW u \in Vec(w), NEW v \in Vec(w),
         \A i \in Bits(w) : i \in u <=> i \in v
  PROVE  u = v
  BY DEF Vec

(* a - b + b = a: the carries of the two are complements.                  *)
LEMMA AddInvertsSub ==
  ASSUME NEW w \in Nat, NEW a \in Vec(w), NEW b \in Vec(w)
  PROVE  Add(w, Sub(w, a, b), b) = a
  <1> DEFINE n == Not(w, b)
             d == Sub(w, a, b)
             borrow == Carry(w, a, n, TRUE)
             carry == Carry(w, d, b, FALSE)
             Good == { i \in Bits(w) : i \in carry <=> i \notin borrow }
  <1>1. /\ n \in Vec(w) /\ d \in Vec(w) /\ Add(w, d, b) \in Vec(w)
        /\ n \subseteq Nat /\ d \subseteq Nat /\ a \subseteq Nat /\ b \subseteq Nat
    BY SumTypes
  <1>2. \A i \in Bits(w) :
          /\ i \in n <=> i \notin b
          /\ i \in d <=> Differ(Differ(i \in a, i \notin b), i \in borrow)
          /\ i \in Add(w, d, b) <=> Differ(Differ(i \in d, i \in b), i \in carry)
    BY SumBits
  <1>3. w > 0 => 0 \in borrow /\ 0 \notin carry
    BY <1>1, CarryIn
  <1>4. \A i \in Nat : i + 1 < w =>
          /\ i + 1 \in borrow <=> Majority(i \in a, i \in n, i \in borrow)
          /\ i + 1 \in carry <=> Majority(i \in d, i \in b, i \in carry)
    BY <1>1, CarryOut
  <1> HIDE DEF n, d, borrow, carry
  <1>5. \A i \in Nat : i + 1 < w => i \in Bits(w) /\ i + 1 \in Bits(w)
    BY DEF Bits
  <1>6. w > 0 => 0 \in Good
    BY <1>3 DEF Bits
  <1>7. \A i \in Nat : i + 1 < w /\ i \in Good => i + 1 \in Good
    BY <1>2, <1>4, <1>5 DEF Majority, Differ
  <1> HIDE DEF Good
  <1>8. \A i \in Bits(w) : i \in Good
    BY <1>6, <1>7, BitInduction
  <1>9. \A i \in Bits(w) : i \in Add(w, d, b) <=> i \in a
    BY <1>2, <1>8 DEF Good, Differ
  <1> QED
    BY <1>1, <1>9, SameBits DEF d

(* a - b is a plus the two's complement of b: where a - b has a carry,     *)
(* either the increment or the addition has one, and never both.           *)
LEMMA SubIsAdd ==
  ASSUME NEW w \in Nat, NEW a \in Vec(w), NEW b \in Vec(w)
  PROVE  Sub(w, a, b) = Add(w, a, Add(w, Not(w, b), One))
  <1> DEFINE n == Not(w, b)
             minus == Add(w, n, One)
             ripple == Carry(w, n, One, FALSE)
             increment == {0} \cup ripple
             borrow == Carry(w, a, n, TRUE)
             carry == Carry(w, a, minus, FALSE)
             Good == { i \in Bits(w) : /\ i \in borrow <=> (i \in increment \/ i \in carry)
                                       /\ ~ (i \in increment /\ i \in carry) }
  <1>1. /\ n \in Vec(w) /\ minus \in Vec(w) /\ Sub(w, a, b) \in Vec(w)
        /\ Add(w, a, minus) \in Vec(w)
        /\ n \subseteq Nat /\ minus \subseteq Nat /\ a \subseteq Nat /\ b \subseteq Nat
    BY SumTypes
  <1>2. \A i \in Bits(w) :
          /\ i \in n <=> i \notin b
          /\ i \in Sub(w, a, b) <=> Differ(Differ(i \in a, i \notin b), i \in borrow)
          /\ i \in minus <=> Differ(Differ(i \in n, i \in One), i \in ripple)
          /\ i \in Add(w, a, minus) <=> Differ(Differ(i \in a, i \in minus), i \in carry)
    <2>1. \A i \in Bits(w) :
            /\ i \in n <=> i \notin b
            /\ i \in Sub(w, a, b) <=> Differ(Differ(i \in a, i \notin b), i \in borrow)
      BY SumBits
    <2>2. \A i \in Bits(w) : i \in minus <=> Differ(Differ(i \in n, i \in One), i \in ripple)
      BY SumBits
    <2> HIDE DEF minus
    <2>3. \A i \in Bits(w) :
            i \in Add(w, a, minus) <=> Differ(Differ(i \in a, i \in minus), i \in carry)
      BY SumBits
    <2> HIDE DEF n, borrow, ripple, carry
    <2> QED
      BY <2>1, <2>2, <2>3
  <1>3. w > 0 => 0 \in borrow /\ 0 \notin carry /\ 0 \notin ripple
    BY <1>1, CarryIn
  <1>4. \A i \in Nat : i + 1 < w =>
          /\ i + 1 \in borrow <=> Majority(i \in a, i \in n, i \in borrow)
          /\ i + 1 \in carry <=> Majority(i \in a, i \in minus, i \in carry)
          /\ i + 1 \in ripple <=> Majority(i \in n, i \in One, i \in ripple)
    BY <1>1, CarryOut
  <1> HIDE DEF n, minus, borrow, carry, ripple
  <1>5. \A i \in Nat : i + 1 < w => i \in Bits(w) /\ i + 1 \in Bits(w) /\ i + 1 # 0
    BY DEF Bits
  <1>6. \A i \in Bits(w) : i = 0 => 0 \notin ripple
    BY <1>3 DEF Bits
  <1>7. \A i \in Bits(w) : i \in minus <=> Differ(i \in n, i \in increment)
    BY <1>2, <1>6 DEF One, Differ
  <1>8. \A i \in Nat : i + 1 < w => (i + 1 \in increment <=> i \in n /\ i \in increment)
    BY <1>4, <1>5, <1>6 DEF One, Majority
  <1>9. w > 0 => 0 \in Good
    BY <1>3 DEF Bits
  <1> HIDE DEF increment
  <1>10. \A i \in Nat : i + 1 < w /\ i \in Good => i + 1 \in Good
    BY <1>4, <1>5, <1>7, <1>8 DEF Majority, Differ
  <1> HIDE DEF Good
  <1>11. \A i \in Bits(w) : i \in Good
    BY <1>9, <1>10, BitInduction
  <1>12. \A i \in Bits(w) : i \in Sub(w, a, b) <=> i \in Add(w, a, minus)
    BY <1>2, <1>7, <1>11 DEF Good, Differ
  <1> QED
    BY <1>1, <1>12, SameBits DEF minus, n

(* a - b = 0 - (b - a): at most one of a - b and b - a borrows, and the    *)
(* negation where one of them does.                                        *)
LEMMA SubNegates ==
  ASSUME NEW w \in Nat, NEW a \in Vec(w), NEW b \in Vec(w)
  PROVE  Sub(w, a, b) = Sub(w, {}, Sub(w, b, a))
  <1> DEFINE d == Sub(w, b, a)
             ca == Carry(w, a, Not(w, b), TRUE)
             cb == Carry(w, b, Not(w, a), TRUE)
             cd == Carry(w, {}, Not(w, d), TRUE)
             Good == { i \in Bits(w) : /\ i \in ca \/ i \in cb
                                       /\ i \in cd <=> (i \in ca /\ i \in cb) }
  <1>1. /\ Not(w, a) \in Vec(w) /\ Not(w, b) \in Vec(w) /\ Not(w, d) \in Vec(w)
        /\ Sub(w, a, b) \in Vec(w) /\ Sub(w, {}, d) \in Vec(w) /\ d \in Vec(w)
        /\ a \subseteq Nat /\ b \subseteq Nat
    BY SumTypes
  <1>2. \A i \in Bits(w) :
          /\ i \in Not(w, a) <=> i \notin a
          /\ i \in Not(w, b) <=> i \notin b
          /\ i \in Not(w, d) <=> i \notin d
          /\ i \in Sub(w, a, b) <=> Differ(Differ(i \in a, i \notin b), i \in ca)
          /\ i \in d <=> Differ(Differ(i \in b, i \notin a), i \in cb)
          /\ i \in Sub(w, {}, d) <=> Differ(Differ(i \in {}, i \notin d), i \in cd)
    BY SumBits
  <1>3. w > 0 => 0 \in ca /\ 0 \in cb /\ 0 \in cd
    BY <1>1, CarryIn
  <1>4. \A i \in Nat : i + 1 < w =>
          /\ i + 1 \in ca <=> Majority(i \in a, i \in Not(w, b), i \in ca)
          /\ i + 1 \in cb <=> Majority(i \in b, i \in Not(w, a), i \in cb)
          /\ i + 1 \in cd <=> Majority(i \in {}, i \in Not(w, d), i \in cd)
    BY <1>1, CarryOut
  <1> HIDE DEF d, ca, cb, cd
  <1>5. \A i \in Nat : i + 1 < w => i \in Bits(w) /\ i + 1 \in Bits(w)
    BY DEF Bits
  <1>6. w > 0 => 0 \in Good
    BY <1>3 DEF Bits
  <1>7. \A i \in Nat : i + 1 < w /\ i \in Good => i + 1 \in Good
    BY <1>2, <1>4, <1>5 DEF Majority, Differ
  <1> HIDE DEF Good
  <1>8. \A i \in Bits(w) : i \in Good
    BY <1>6, <1>7, BitInduction
  <1>9. \A i \in Bits(w) : i \in Sub(w, a, b) <=> i \in Sub(w, {}, d)
    BY <1>2, <1>8 DEF Good, Differ
  <1> QED
    BY <1>1, <1>9, SameBits DEF d

-----------------------------------------------------------------------------
(* Products, column by column.                                             *)

(* c[k] is what column k of a product has to the left of the digit point,  *)
(* given the sums t of the digit products.                                 *)
IsColumns(c, n, t) ==
  c = [k \in 0 .. n |-> t[k] + IF k = 0 THEN 0 ELSE c[k-1] \div 256]

LEMMA ColumnValue ==
  ASSUME NEW n \in Nat, NEW t, NEW c, IsColumns(c, n, t), NEW k \in 0 .. n
  PROVE  c[k] = t[k] + IF k = 0 THEN 0 ELSE c[k-1] \div 256
  BY DEF IsColumns

LEMMA ColumnsExist ==
  ASSUME NEW n \in Nat, NEW t
  PROVE  \E c : IsColumns(c, n, t)
  <1> DEFINE Good == { m \in Nat : \E c : IsColumns(c, m, t) }
  <1>1. 0 \in Good
    <2> DEFINE c == [k \in 0 .. 0 |-> t[0] + 0]
    <2>1. c = [k \in 0 .. 0 |-> t[k] + IF k = 0 THEN 0 ELSE c[k-1] \div 256]
      OBVIOUS
    <2> QED
      BY <2>1 DEF IsColumns
  <1>2. ASSUME NEW m \in Nat, m \in Good
        PROVE  m + 1 \in Good
    <2>1. PICK c : IsColumns(c, m, t)
      BY <1>2
    <2> DEFINE next == t[m+1] + c[m] \div 256
               d == [k \in 0 .. m+1 |-> IF k = m+1 THEN next ELSE c[k]]
    <2>2. ASSUME NEW k \in 0 .. m+1
          PROVE  d[k] = t[k] + IF k = 0 THEN 0 ELSE d[k-1] \div 256
      <3>1. CASE k = m+1
        <4>1. d[k] = t[k] + c[m] \div 256 /\ k # 0 /\ k - 1 = m
          BY <3>1
        <4>2. d[m] = c[m]
          OBVIOUS
        <4> HIDE DEF d
        <4> QED
          BY <4>1, <4>2
      <3>2. CASE k # m+1
        <4>1. k \in 0 .. m /\ d[k] = c[k]
          BY <3>2
        <4>2. k # 0 => d[k-1] = c[k-1]
          BY <4>1
        <4>3. c[k] = t[k] + IF k = 0 THEN 0 ELSE c[k-1] \div 256
          BY <2>1, <4>1, ColumnValue
        <4> HIDE DEF d
        <4> QED
          BY <4>1, <4>2, <4>3
      <3> QED
        BY <3>1, <3>2
    <2>3. d = [k \in 0 .. m+1 |-> d[k]]
      OBVIOUS
    <2> HIDE DEF d
    <2>4. IsColumns(d, m + 1, t)
      BY <2>2, <2>3 DEF IsColumns
    <2> QED
      BY <2>4
  <1> HIDE DEF Good
  <1>3. \A i \in Bits(n + 1) : i \in Good
    BY <1>1, <1>2, BitInduction
  <1> QED
    BY <1>3 DEF Good, Bits

(* Columns depend on the columns to their right only.                      *)
LEMMA ColumnsAgree ==
  ASSUME NEW n \in Nat, NEW m \in Nat, NEW t, NEW u, NEW c, NEW d,
         IsColumns(c, n, t), IsColumns(d, m, u),
         m <= n, \A k \in 0 .. m : t[k] = u[k]
  PROVE  \A k \in 0 .. m : c[k] = d[k]
  <1> DEFINE Good == { k \in 0 .. m : c[k] = d[k] }
  <1>1. 0 \in Good
    <2>1. c[0] = t[0] + 0 /\ d[0] = u[0] + 0
      BY ColumnValue
    <2> QED
      BY <2>1
  <1>2. ASSUME NEW k \in Nat, k + 1 < m + 1, k \in Good
        PROVE  k + 1 \in Good
    <2>1. k + 1 \in 0 .. n /\ k + 1 \in 0 .. m /\ k + 1 # 0
          /\ (k + 1) - 1 = k
      BY <1>2
    <2>2. c[k+1] = t[k+1] + c[k] \div 256 /\ d[k+1] = u[k+1] + d[k] \div 256
      BY <2>1, ColumnValue
    <2> QED
      BY <1>2, <2>1, <2>2
  <1> HIDE DEF Good
  <1>3. \A k \in Bits(m + 1) : k \in Good
    BY <1>1, <1>2, BitInduction
  <1> QED
    BY <1>3 DEF Good, Bits

(* The digits of v, and the sum of the digit products of column k.         *)
Digit256(n, v) == [k \in 0 .. n |-> Num(Slice(v, 8*k + 7, 8*k))]
Product256(n, a, b, k) ==
  SumFunction([i \in 0 .. k |-> Digit256(n, a)[i] * Digit256(n, b)[k - i]])
Products(n, a, b) == [k \in 0 .. n |-> Product256(n, a, b, k)]

LEMMA MulByColumns ==
  ASSUME NEW w \in Nat, w > 0, NEW a, NEW b
  PROVE  /\ Mul(w, a, b) \in Vec(w)
         /\ \E c : /\ IsColumns(c, (w-1) \div 8, Products((w-1) \div 8, a, b))
                   /\ \A i \in Bits(w) :
                        i \in Mul(w, a, b) <=> (c[i \div 8] \div 2^(i % 8)) % 2 = 1
  <1> DEFINE n == (w-1) \div 8
             c == CHOOSE c : c = [k \in 0 .. n |-> Product256(n, a, b, k)
                                   + IF k = 0 THEN 0 ELSE c[k-1] \div 256]
  <1>1. n \in Nat
    OBVIOUS
  <1>2. Mul(w, a, b) = { i \in Bits(w) : (c[i \div 8] \div 2^(i % 8)) % 2 = 1 }
    BY DEF Mul, Product256, Digit256
  <1>3. PICK d : IsColumns(d, n, Products(n, a, b))
    BY <1>1, ColumnsExist
  <1>4. d = [k \in 0 .. n |-> Product256(n, a, b, k)
                                   + IF k = 0 THEN 0 ELSE d[k-1] \div 256]
    BY <1>3 DEF IsColumns, Products
  <1>5. c = [k \in 0 .. n |-> Product256(n, a, b, k)
                                   + IF k = 0 THEN 0 ELSE c[k-1] \div 256]
    BY <1>4
  <1> HIDE DEF c
  <1>6. IsColumns(c, n, Products(n, a, b))
    BY <1>5 DEF IsColumns, Products
  <1>7. \A i \in Bits(w) : i \in Mul(w, a, b) <=> (c[i \div 8] \div 2^(i % 8)) % 2 = 1
    BY <1>2
  <1>8. Mul(w, a, b) \in Vec(w)
    BY <1>2 DEF Vec
  <1> QED
    BY <1>6, <1>7, <1>8

(* The low half of a product does not depend on the bits above it.         *)
LEMMA LowHalf ==
  ASSUME NEW a, NEW b, NEW u, NEW v,
         \A i \in 0 .. 31 : (i \in a <=> i \in u) /\ (i \in b <=> i \in v)
  PROVE  Slice(Mul(64, a, b), 31, 0) = Mul(32, u, v)
  <1>1. (64 - 1) \div 8 = 7 /\ (32 - 1) \div 8 = 3
    OBVIOUS
  <1>2. PICK c : /\ IsColumns(c, 7, Products(7, a, b))
                 /\ \A i \in Bits(64) :
                      i \in Mul(64, a, b) <=> (c[i \div 8] \div 2^(i % 8)) % 2 = 1
    BY <1>1, MulByColumns
  <1>3. PICK d : /\ IsColumns(d, 3, Products(3, u, v))
                 /\ \A i \in Bits(32) :
                      i \in Mul(32, u, v) <=> (d[i \div 8] \div 2^(i % 8)) % 2 = 1
    BY <1>1, MulByColumns
  <1>4. Mul(32, u, v) \subseteq Bits(32)
    BY MulByColumns DEF Vec
  <1>5. \A k \in 0 .. 3 : Slice(a, 8*k + 7, 8*k) = Slice(u, 8*k + 7, 8*k)
                          /\ Slice(b, 8*k + 7, 8*k) = Slice(v, 8*k + 7, 8*k)
    <2> SUFFICES ASSUME NEW k \in 0 .. 3
                 PROVE  Slice(a, 8*k + 7, 8*k) = Slice(u, 8*k + 7, 8*k)
                        /\ Slice(b, 8*k + 7, 8*k) = Slice(v, 8*k + 7, 8*k)
      OBVIOUS
    <2>1. \A i \in Bits((8*k + 7) - 8*k + 1) : i + 8*k \in 0 .. 31
      BY DEF Bits
    <2> QED
      BY <2>1 DEF Slice
  <1>6. \A k \in 0 .. 3 : /\ Digit256(7, a)[k] = Digit256(3, u)[k]
                          /\ Digit256(7, b)[k] = Digit256(3, v)[k]
    BY <1>5 DEF Digit256
  <1>7. \A k \in 0 .. 3 : Product256(7, a, b, k) = Product256(3, u, v, k)
    <2> SUFFICES ASSUME NEW k \in 0 .. 3
                 PROVE  Product256(7, a, b, k) = Product256(3, u, v, k)
      OBVIOUS
    <2>1. [i \in 0 .. k |-> Digit256(7, a)[i] * Digit256(7, b)[k - i]]
            = [i \in 0 .. k |-> Digit256(3, u)[i] * Digit256(3, v)[k - i]]
      <3>1. \A i \in 0 .. k : i \in 0 .. 3 /\ k - i \in 0 .. 3
        OBVIOUS
      <3> QED
        BY <1>6, <3>1
    <2> QED
      BY <2>1 DEF Product256
  <1>8. \A k \in 0 .. 3 : Products(7, a, b)[k] = Products(3, u, v)[k]
    BY <1>7 DEF Products
  <1>9. \A k \in 0 .. 3 : c[k] = d[k]
    BY <1>2, <1>3, <1>8, ColumnsAgree, 7 \in Nat, 3 \in Nat, 3 <= 7
  <1>10. \A i \in Bits(32) : i \in Bits(64) /\ i + 0 = i /\ i \div 8 \in 0 .. 3
    BY DEF Bits
  <1>11. Slice(Mul(64, a, b), 31, 0) = { i \in Bits(32) : i \in Mul(64, a, b) }
    BY <1>10 DEF Slice
  <1>12. \A i \in Bits(32) : i \in Mul(64, a, b) <=> i \in Mul(32, u, v)
    BY <1>2, <1>3, <1>9, <1>10
  <1> QED
    BY <1>11, <1>12, <1>4

-----------------------------------------------------------------------------
(* PowersOfTwo of two.  The provers evaluate a power of literals only: the 33   *)
(* of a 32-bit word are listed, and the rest follows from the list.        *)

Pow(n) == 2^n

LEMMA PowersOfTwo ==
  /\ Pow(0) = 1           /\ Pow(1) = 2           /\ Pow(2) = 4
  /\ Pow(3) = 8           /\ Pow(4) = 16          /\ Pow(5) = 32
  /\ Pow(6) = 64          /\ Pow(7) = 128         /\ Pow(8) = 256
  /\ Pow(9) = 512         /\ Pow(10) = 1024       /\ Pow(11) = 2048
  /\ Pow(12) = 4096       /\ Pow(13) = 8192       /\ Pow(14) = 16384
  /\ Pow(15) = 32768      /\ Pow(16) = 65536      /\ Pow(17) = 131072
  /\ Pow(18) = 262144     /\ Pow(19) = 524288     /\ Pow(20) = 1048576
  /\ Pow(21) = 2097152    /\ Pow(22) = 4194304    /\ Pow(23) = 8388608
  /\ Pow(24) = 16777216   /\ Pow(25) = 33554432   /\ Pow(26) = 67108864
  /\ Pow(27) = 134217728  /\ Pow(28) = 268435456  /\ Pow(29) = 536870912
  /\ Pow(30) = 1073741824 /\ Pow(31) = 2147483648 /\ Pow(32) = 4294967296
  BY SMT DEF Pow

LEMMA PowType ==
  ASSUME NEW n \in 0 .. 32
  PROVE  Pow(n) \in Nat /\ Pow(n) > 0
  BY PowersOfTwo, SMT

LEMMA PowDoubles ==
  ASSUME NEW n \in 0 .. 31
  PROVE  Pow(n + 1) = 2 * Pow(n)
  BY PowersOfTwo, SMT

LEMMA PowSum ==
  ASSUME NEW s \in 0 .. 32, NEW n \in 0 .. 32, s + n <= 32
  PROVE  Pow(s + n) = Pow(s) * Pow(n)
  <1> DEFINE Good == { i \in Bits(n + 1) : Pow(s + i) = Pow(s) * Pow(i) }
  <1>1. 0 \in Good
    <2>1. s + 0 = s /\ Pow(s) \in Nat /\ Pow(0) = 1 /\ 0 \in Bits(n + 1)
      BY PowType, PowersOfTwo DEF Bits
    <2> QED
      BY <2>1
  <1>2. ASSUME NEW i \in Nat, i + 1 < n + 1, i \in Good
        PROVE  i + 1 \in Good
    <2>1. s + i \in 0 .. 31 /\ i \in 0 .. 31 /\ (s + i) + 1 = s + (i + 1)
          /\ i + 1 \in Bits(n + 1)
      BY <1>2 DEF Bits
    <2>2. Pow(s + (i + 1)) = 2 * Pow(s + i) /\ Pow(i + 1) = 2 * Pow(i)
      BY <2>1, PowDoubles
    <2>3. Pow(s) \in Nat /\ Pow(i) \in Nat
      BY <2>1, PowType
    <2>4. Pow(s + i) = Pow(s) * Pow(i)
      BY <1>2
    <2>5. Pow(s + (i + 1)) = Pow(s) * Pow(i + 1)
      BY <2>2, <2>3, <2>4
    <2> QED
      BY <2>1, <2>5
  <1> HIDE DEF Good
  <1>3. \A i \in Bits(n + 1) : i \in Good
    BY <1>1, <1>2, BitInduction
  <1>4. n \in Bits(n + 1)
    BY DEF Bits
  <1> QED
    BY <1>3, <1>4 DEF Good

(* Quotient and remainder.                                                 *)
LEMMA Divides ==
  ASSUME NEW p \in Nat, p > 0, NEW k \in Int, NEW r \in Nat, r < p
  PROVE  /\ (k * p + r) \div p = k
         /\ (k * p + r) % p = r
  BY SMT

LEMMA DividesBack ==
  ASSUME NEW p \in Nat, p > 0, NEW x \in Int
  PROVE  /\ x \div p \in Int
         /\ x % p \in Nat /\ x % p < p
         /\ x = (x \div p) * p + (x % p)
  BY SMT

-----------------------------------------------------------------------------
(* The value of the n low bits of a set of positions.                      *)

Low(v, n) == Num(v \cap Bits(n))

LEMMA LowOfNone ==
  ASSUME NEW v
  PROVE  Low(v, 0) = 0
  <1>1. v \cap Bits(0) = {}
    BY DEF Bits
  <1> QED
    BY <1>1, NumOfNone DEF Low

LEMMA LowNext ==
  ASSUME NEW v, NEW n \in Nat
  PROVE  /\ Low(v, n) \in Int
         /\ Low(v, n + 1) = Low(v, n) + Bit(v, n, Pow(n))
  <1> DEFINE u == v \cap Bits(n + 1)
  <1>1. u \in Vec(n + 1) /\ u \ {n} = v \cap Bits(n) /\ (n \in u <=> n \in v)
    BY DEF Vec, Bits
  <1> HIDE DEF u
  <1>2. /\ Num(u) = Num(u \ {n}) + (IF n \in u THEN 2^n ELSE 0)
        /\ Num(u \ {n}) \in Int
    BY <1>1, NumBit
  <1> QED
    BY <1>1, <1>2 DEF Low, Bit, Pow, u

LEMMA LowOfWord ==
  ASSUME NEW w \in Nat, NEW v \in Vec(w)
  PROVE  Low(v, w) = Num(v)
  <1>1. v \cap Bits(w) = v
    BY DEF Vec
  <1> QED
    BY <1>1 DEF Low

LEMMA LowBound ==
  ASSUME NEW v, NEW n \in 0 .. 32
  PROVE  Low(v, n) \in Nat /\ Low(v, n) < Pow(n)
  <1> DEFINE Good == { i \in Bits(33) : Low(v, i) \in Nat /\ Low(v, i) < Pow(i) }
  <1>1. 0 \in Good
    BY LowOfNone, PowersOfTwo DEF Bits
  <1>2. ASSUME NEW i \in Nat, i + 1 < 33, i \in Good
        PROVE  i + 1 \in Good
    <2>1. Low(v, i + 1) = Low(v, i) + Bit(v, i, Pow(i))
      BY LowNext
    <2>2. Pow(i + 1) = 2 * Pow(i) /\ Pow(i) \in Nat
      BY <1>2, PowDoubles, PowType
    <2>3. Low(v, i) \in Nat /\ Low(v, i) < Pow(i)
      BY <1>2
    <2>4. Low(v, i + 1) \in Nat /\ Low(v, i + 1) < Pow(i + 1)
      BY <2>1, <2>2, <2>3 DEF Bit
    <2> QED
      BY <1>2, <2>4 DEF Bits
  <1> HIDE DEF Good
  <1>3. \A i \in Bits(33) : i \in Good
    BY <1>1, <1>2, BitInduction
  <1> QED
    BY <1>3 DEF Good, Bits

(* Only the low bits count.                                                *)
LEMMA LowAgrees ==
  ASSUME NEW u, NEW v, NEW n \in Nat, \A i \in Bits(n) : i \in u <=> i \in v
  PROVE  Low(u, n) = Low(v, n)
  <1>1. u \cap Bits(n) = v \cap Bits(n)
    OBVIOUS
  <1> QED
    BY <1>1 DEF Low

(* The bits of v from s on are a number of their own.                      *)
LEMMA LowSplits ==
  ASSUME NEW v, NEW s \in 0 .. 32, NEW n \in 0 .. 32, s + n <= 32
  PROVE  Low(v, s + n) = Low(v, s) + Pow(s) * Low(ShiftRight(n, v, s), n)
  <1> DEFINE u == ShiftRight(n, v, s)
             Good == { i \in Bits(n + 1) : Low(v, s + i) = Low(v, s) + Pow(s) * Low(u, i) }
  <1>1. \A i \in Bits(n) : i \in u <=> i + s \in v
    BY DEF ShiftRight
  <1> HIDE DEF u
  <1>2. 0 \in Good
    <2>1. /\ s + 0 = s /\ Pow(s) \in Nat /\ Low(v, s) \in Int
          /\ Low(u, 0) = 0 /\ 0 \in Bits(n + 1)
      BY PowType, LowNext, LowOfNone DEF Bits
    <2> QED
      BY <2>1
  <1>3. ASSUME NEW i \in Nat, i + 1 < n + 1, i \in Good
        PROVE  i + 1 \in Good
    <2> DEFINE p == Pow(s)
               q == Pow(i)
    <2>1. s + i \in 0 .. 31 /\ i \in 0 .. 31 /\ i \in Bits(n) /\ (s + i) + 1 = s + (i + 1)
          /\ i + 1 \in Bits(n + 1)
      BY <1>3 DEF Bits
    <2>2. /\ Low(v, s + (i + 1)) = Low(v, s + i) + Bit(v, s + i, Pow(s + i))
          /\ Low(v, s) \in Int
      BY <2>1, LowNext
    <2>3. Low(u, i + 1) = Low(u, i) + Bit(u, i, q) /\ Low(u, i) \in Int
      BY LowNext
    <2>4. Pow(s + i) = p * q
      BY <2>1, PowSum
    <2>5. p \in Nat /\ q \in Nat
      BY <2>1, PowType
    <2>6. Low(v, s + i) = Low(v, s) + p * Low(u, i)
      BY <1>3
    <2>7. i \in u <=> s + i \in v
      BY <1>1, <2>1
    <2> HIDE DEF p, q
    <2>8. Bit(v, s + i, p * q) = p * Bit(u, i, q) /\ Bit(u, i, q) \in Int
      BY <2>5, <2>7 DEF Bit
    <2>9. Low(v, s + (i + 1)) = Low(v, s) + p * Low(u, i) + p * Bit(u, i, q)
      BY <2>2, <2>4, <2>6, <2>8
    <2>10. ASSUME NEW x \in Int, NEW y \in Int, NEW z \in Int
           PROVE  x + p * y + p * z = x + p * (y + z)
      BY <2>5
    <2>11. Low(v, s + (i + 1)) = Low(v, s) + p * Low(u, i + 1)
      BY <2>2, <2>3, <2>8, <2>9, <2>10
    <2> QED
      BY <2>1, <2>11 DEF p
  <1> HIDE DEF Good
  <1>4. \A i \in Bits(n + 1) : i \in Good
    BY <1>2, <1>3, BitInduction
  <1>5. n \in Bits(n + 1)
    BY DEF Bits
  <1> QED
    BY <1>4, <1>5 DEF Good, u


(* A word is the literal of its value, and of every number that wraps to   *)
(* its value.                                                              *)
LEMMA LitOfNum ==
  ASSUME NEW w \in 0 .. 32, NEW v \in Vec(w)
  PROVE  Lit(w, Num(v)) = v
  <1>1. ASSUME NEW i \in Bits(w)
        PROVE  i \in v <=> (Num(v) \div 2^i) % 2 = 1
    <2> DEFINE n == w - i
               m == n - 1
               u == ShiftRight(n, v, i)
               t == ShiftRight(m, u, 1)
    <2>1. /\ i \in 0 .. 32 /\ n \in 0 .. 32 /\ m \in 0 .. 32 /\ m \in Nat
          /\ i + n = w /\ i + n <= 32 /\ 1 + m = n /\ 1 \in 0 .. 32
      BY DEF Bits
    <2>2. 0 \in u <=> i \in v
      BY <2>1 DEF ShiftRight, Bits
    <2> HIDE DEF n, m
    <2>3. Low(v, i + n) = Low(v, i) + Pow(i) * Low(u, n)
      BY <2>1, LowSplits
    <2>4. Low(u, 1 + m) = Low(u, 1) + Pow(1) * Low(t, m)
      BY <2>1, LowSplits
    <2> HIDE DEF u, t
    <2>5. w \in Nat
      OBVIOUS
    <2>6. Low(u, 0 + 1) = Low(u, 0) + Bit(u, 0, Pow(0))
      BY LowNext
    <2>7. Low(v, w) = Num(v)
      BY LowOfWord
    <2>8. Low(v, i) \in Nat /\ Low(v, i) < Pow(i) /\ Low(u, n) \in Nat /\ Low(t, m) \in Nat
      BY <2>1, LowBound
    <2>9. Pow(i) \in Nat /\ Pow(i) > 0 /\ Pow(0) = 1 /\ Pow(1) = 2 /\ Low(u, 0) = 0
      BY <2>1, PowType, PowersOfTwo, LowOfNone
    <2>10. Low(u, n) = 2 * Low(t, m) + Bit(u, 0, 1)
      BY <2>1, <2>4, <2>6, <2>8, <2>9 DEF Bit
    <2>11. Num(v) = Low(u, n) * Pow(i) + Low(v, i)
      BY <2>1, <2>3, <2>7, <2>8, <2>9
    <2>12. Num(v) \div Pow(i) = Low(u, n)
      BY <2>8, <2>9, <2>11, Divides
    <2>13. Low(u, n) % 2 = Bit(u, 0, 1)
      BY <2>8, <2>10 DEF Bit
    <2>14. Num(v) \div 2^i = Low(u, n)
      BY <2>12 DEF Pow
    <2> QED
      BY <2>2, <2>13, <2>14 DEF Bit
  <1> QED
    BY <1>1 DEF Lit, Vec

LEMMA Wraps ==
  ASSUME NEW w \in 0 .. 32, NEW v \in Vec(w), NEW x \in Int, NEW k \in Int,
         x = k * Pow(w) + Num(v)
  PROVE  v = Lit(w, x % 2^w)
  <1>1. Num(v) \in Nat /\ Num(v) < Pow(w) /\ Pow(w) \in Nat /\ Pow(w) > 0
    BY LowBound, LowOfWord, PowType
  <1>2. x % Pow(w) = Num(v)
    BY <1>1, Divides
  <1> QED
    BY <1>2, LitOfNum DEF Pow

-----------------------------------------------------------------------------
(* Sums and differences, as numbers.                                       *)

LEMMA SumValueOf ==
  ASSUME NEW w \in 0 .. 32, NEW a \in Vec(w), NEW b \in Vec(w), NEW c \in BOOLEAN,
         NEW s \in Vec(w),
         \A i \in Bits(w) :
           i \in s <=> Differ(Differ(i \in a, i \in b), i \in Carry(w, a, b, c))
  PROVE  \E k \in {0, 1} :
           Num(a) + Num(b) + (IF c THEN 1 ELSE 0) = k * Pow(w) + Num(s)
  <1> DEFINE carry == Carry(w + 1, a, b, c)
             in == IF c THEN 1 ELSE 0
             Good == { i \in Bits(w + 1) :
                         Low(a, i) + Low(b, i) + in = Low(s, i) + Bit(carry, i, Pow(i)) }
  <1>1. a \cap b \subseteq Nat
    BY SumTypes
  <1>2. \A i \in Bits(w) : i \in Carry(w, a, b, c) <=> i \in carry
    BY DEF Carry, Bits
  <1>3. 0 \in carry <=> c
    BY <1>1, CarryIn
  <1>4. \A i \in Nat : i + 1 < w + 1 =>
          (i + 1 \in carry <=> Majority(i \in a, i \in b, i \in carry))
    BY <1>1, CarryOut
  <1> HIDE DEF carry
  <1>5. 0 \in Good
    <2>1. Low(a, 0) = 0 /\ Low(b, 0) = 0 /\ Low(s, 0) = 0 /\ Pow(0) = 1 /\ 0 \in Bits(w + 1)
      BY LowOfNone, PowersOfTwo DEF Bits
    <2> QED
      BY <1>3, <2>1 DEF Bit
  <1>6. ASSUME NEW i \in Nat, i + 1 < w + 1, i \in Good
        PROVE  i + 1 \in Good
    <2>1. i \in 0 .. 31 /\ i \in Bits(w) /\ i + 1 \in Bits(w + 1)
      BY <1>6 DEF Bits
    <2>2. /\ Low(a, i + 1) = Low(a, i) + Bit(a, i, Pow(i)) /\ Low(a, i) \in Int
          /\ Low(b, i + 1) = Low(b, i) + Bit(b, i, Pow(i)) /\ Low(b, i) \in Int
          /\ Low(s, i + 1) = Low(s, i) + Bit(s, i, Pow(i)) /\ Low(s, i) \in Int
      BY LowNext
    <2>3. Pow(i + 1) = 2 * Pow(i) /\ Pow(i) \in Nat
      BY <2>1, PowDoubles, PowType
    <2>4. i \in s <=> Differ(Differ(i \in a, i \in b), i \in carry)
      BY <1>2, <2>1
    <2>5. i + 1 \in carry <=> Majority(i \in a, i \in b, i \in carry)
      BY <1>4, <1>6
    <2>6. Low(a, i) + Low(b, i) + in = Low(s, i) + Bit(carry, i, Pow(i))
      BY <1>6
    <2>7. in \in Int
      OBVIOUS
    <2> HIDE DEF in
    <2>8. Low(a, i + 1) + Low(b, i + 1) + in = Low(s, i + 1) + Bit(carry, i + 1, Pow(i + 1))
      BY <2>2, <2>3, <2>4, <2>5, <2>6, <2>7 DEF Bit, Differ, Majority
    <2> QED
      BY <2>1, <2>8
  <1> HIDE DEF Good
  <1>7. \A i \in Bits(w + 1) : i \in Good
    BY <1>5, <1>6, BitInduction
  <1>8. w \in Bits(w + 1)
    BY DEF Bits
  <1>9. Low(a, w) + Low(b, w) + in = Low(s, w) + Bit(carry, w, Pow(w))
    BY <1>7, <1>8 DEF Good
  <1>10. Low(a, w) = Num(a) /\ Low(b, w) = Num(b) /\ Low(s, w) = Num(s)
    BY LowOfWord
  <1>11. Low(s, w) \in Nat /\ Pow(w) \in Nat
    BY LowBound, PowType
  <1> QED
    BY <1>9, <1>10, <1>11 DEF Bit

LEMMA NumOfNot ==
  ASSUME NEW w \in 0 .. 32, NEW v \in Vec(w)
  PROVE  Num(Not(w, v)) = Pow(w) - 1 - Num(v)
  <1> DEFINE u == Not(w, v)
             Good == { i \in Bits(w + 1) : Low(u, i) = Pow(i) - 1 - Low(v, i) }
  <1>1. u \in Vec(w) /\ \A i \in Bits(w) : i \in u <=> i \notin v
    <2>1. w \in Nat
      OBVIOUS
    <2> QED
      BY <2>1, SumTypes, SumBits
  <1> HIDE DEF u
  <1>2. 0 \in Good
    BY LowOfNone, PowersOfTwo DEF Bits
  <1>3. ASSUME NEW i \in Nat, i + 1 < w + 1, i \in Good
        PROVE  i + 1 \in Good
    <2>1. i \in 0 .. 31 /\ i \in Bits(w) /\ i + 1 \in Bits(w + 1)
      BY <1>3 DEF Bits
    <2>2. /\ Low(u, i + 1) = Low(u, i) + Bit(u, i, Pow(i)) /\ Low(u, i) \in Int
          /\ Low(v, i + 1) = Low(v, i) + Bit(v, i, Pow(i)) /\ Low(v, i) \in Int
      BY LowNext
    <2>3. Pow(i + 1) = 2 * Pow(i) /\ Pow(i) \in Nat
      BY <2>1, PowDoubles, PowType
    <2>4. Low(u, i + 1) = Pow(i + 1) - 1 - Low(v, i + 1)
      BY <1>1, <1>3, <2>1, <2>2, <2>3 DEF Bit
    <2> QED
      BY <2>1, <2>4
  <1> HIDE DEF Good
  <1>4. \A i \in Bits(w + 1) : i \in Good
    BY <1>2, <1>3, BitInduction
  <1>5. w \in Bits(w + 1)
    BY DEF Bits
  <1>6. Low(u, w) = Pow(w) - 1 - Low(v, w)
    BY <1>4, <1>5 DEF Good
  <1> QED
    BY <1>1, <1>6, LowOfWord DEF u

LEMMA NumOfAdd ==
  ASSUME NEW w \in 0 .. 32, NEW a \in Vec(w), NEW b \in Vec(w)
  PROVE  \E k \in {0, 1} : Num(a) + Num(b) = k * Pow(w) + Num(Add(w, a, b))
  <1>1. Add(w, a, b) \in Vec(w)
    BY SumTypes
  <1>2. \A i \in Bits(w) : i \in Add(w, a, b) <=>
          Differ(Differ(i \in a, i \in b), i \in Carry(w, a, b, FALSE))
    <2>1. w \in Nat
      OBVIOUS
    <2> QED
      BY <2>1, SumBits
  <1>3. \E k \in {0, 1} : Num(a) + Num(b) + 0 = k * Pow(w) + Num(Add(w, a, b))
    BY <1>1, <1>2, SumValueOf
  <1>4. Num(a) \in Nat /\ Num(b) \in Nat
    BY LowBound, LowOfWord
  <1> QED
    BY <1>3, <1>4

LEMMA NumOfSub ==
  ASSUME NEW w \in 0 .. 32, NEW a \in Vec(w), NEW b \in Vec(w)
  PROVE  \E k \in {-1, 0} : Num(a) - Num(b) = k * Pow(w) + Num(Sub(w, a, b))
  <1> DEFINE n == Not(w, b)
             d == Sub(w, a, b)
  <1>1. w \in Nat /\ d \in Vec(w) /\ n \in Vec(w)
    BY SumTypes
  <1>2. \A i \in Bits(w) : i \in n <=> i \notin b
    BY <1>1, SumBits
  <1>3. \A i \in Bits(w) : i \in d <=>
          Differ(Differ(i \in a, i \notin b), i \in Carry(w, a, n, TRUE))
    BY <1>1, SumBits
  <1>4. Num(n) = Pow(w) - 1 - Num(b)
    BY NumOfNot
  <1> HIDE DEF n, d
  <1>5. \E k \in {0, 1} : Num(a) + Num(n) + 1 = k * Pow(w) + Num(d)
    <2>1. \A i \in Bits(w) : i \in d <=>
            Differ(Differ(i \in a, i \in n), i \in Carry(w, a, n, TRUE))
      BY <1>2, <1>3 DEF Differ
    <2>2. \E k \in {0, 1} : Num(a) + Num(n) + (IF TRUE THEN 1 ELSE 0) = k * Pow(w) + Num(d)
      BY <1>1, <2>1, SumValueOf
    <2> QED
      BY <2>2
  <1>6. Num(a) \in Nat /\ Num(b) \in Nat /\ Num(d) \in Nat /\ Pow(w) \in Nat
    BY <1>1, LowBound, LowOfWord, PowType
  <1>7. PICK k \in {0, 1} : Num(a) + Num(n) + 1 = k * Pow(w) + Num(d)
    BY <1>5
  <1>8. k - 1 \in {-1, 0}
    OBVIOUS
  <1>9. Num(a) - Num(b) = (k - 1) * Pow(w) + Num(d)
    <2>1. CASE k = 0
      BY <1>4, <1>6, <1>7, <2>1
    <2>2. CASE k = 1
      BY <1>4, <1>6, <1>7, <2>2
    <2> QED
      BY <2>1, <2>2
  <1> QED
    BY <1>8, <1>9 DEF d

-----------------------------------------------------------------------------
(* Shifts, as numbers.                                                     *)

LEMMA NumOfShiftRight ==
  ASSUME NEW w \in 0 .. 32, NEW v \in Vec(w), NEW n \in 0 .. w
  PROVE  /\ ShiftRight(w, v, n) \in Vec(w)
         /\ Num(ShiftRight(w, v, n)) = Num(v) \div Pow(n)
  <1> DEFINE m == w - n
             u == ShiftRight(w, v, n)
             t == ShiftRight(m, v, n)
  <1>1. n \in 0 .. 32 /\ m \in 0 .. 32 /\ n + m = w /\ w \in Nat /\ m \in Nat
    OBVIOUS
  <1>2. u \in Vec(w)
    BY DEF ShiftRight, Vec
  <1>3. u \cap Bits(w) = t \cap Bits(m)
    <2>1. \A i \in Int : i + n < w <=> i < m
      BY <1>1
    <2>2. Bits(m) \subseteq Bits(w) /\ \A i \in Bits(w) : i \in Int /\ (i + n < w <=> i \in Bits(m))
      BY <1>1 DEF Bits
    <2>3. \A i : i \in v => i < w
      BY DEF Vec, Bits
    <2> QED
      BY <2>2, <2>3 DEF ShiftRight
  <1>4. Low(u, w) = Low(t, m)
    BY <1>3 DEF Low
  <1> HIDE DEF m, u
  <1>5. Low(v, n + m) = Low(v, n) + Pow(n) * Low(t, m)
    BY <1>1, LowSplits
  <1> HIDE DEF t
  <1>6. Low(v, n + m) = Num(v) /\ Low(u, w) = Num(u)
    BY <1>1, <1>2, LowOfWord
  <1>7. /\ Low(v, n) \in Nat /\ Low(v, n) < Pow(n) /\ Low(t, m) \in Nat
        /\ Pow(n) \in Nat /\ Pow(n) > 0
    BY <1>1, LowBound, PowType
  <1>8. Num(v) = Num(u) * Pow(n) + Low(v, n)
    BY <1>4, <1>5, <1>6, <1>7
  <1>9. \A k \in Int : (k * Pow(n) + Low(v, n)) \div Pow(n) = k
    BY <1>7, Divides
  <1>10. Num(v) \div Pow(n) = Num(u)
    BY <1>4, <1>6, <1>7, <1>8, <1>9
  <1> QED
    BY <1>2, <1>10 DEF u

LEMMA NumOfShiftLeft ==
  ASSUME NEW w \in 0 .. 32, NEW v \in Vec(w), NEW n \in 0 .. w
  PROVE  /\ ShiftLeft(w, v, n) \in Vec(w)
         /\ \E k \in Nat : Num(v) * Pow(n) = k * Pow(w) + Num(ShiftLeft(w, v, n))
  <1> DEFINE m == w - n
             u == ShiftLeft(w, v, n)
             t == ShiftRight(m, u, n)
             lost == ShiftRight(n, v, m)
  <1>1. /\ n \in 0 .. 32 /\ m \in 0 .. 32 /\ n + m = w /\ m + n = w /\ w \in Nat
        /\ m \in Nat /\ n \in Nat
    OBVIOUS
  <1>2. u \in Vec(w)
    BY DEF ShiftLeft, Vec
  <1>3. Low(u, n) = 0
    <2>1. u \cap Bits(n) = {}
      <3>1. \A i \in Bits(n) : i - n < 0
        BY <1>1 DEF Bits
      <3>2. \A i \in v : ~ (i < 0)
        BY DEF Vec, Bits
      <3> QED
        BY <3>1, <3>2 DEF ShiftLeft
    <2> QED
      BY <2>1, NumOfNone DEF Low
  <1>4. Low(t, m) = Low(v, m)
    <2>1. \A i \in Bits(m) : i + n \in Bits(w) /\ (i + n) - n = i
      BY <1>1 DEF Bits
    <2>2. \A i \in Bits(m) : i \in t <=> i \in v
      BY <2>1 DEF ShiftRight, ShiftLeft
    <2> QED
      BY <1>1, <2>2, LowAgrees
  <1> HIDE DEF m, u
  <1>5. Low(u, n + m) = Low(u, n) + Pow(n) * Low(t, m)
    BY <1>1, LowSplits
  <1>6. Low(v, m + n) = Low(v, m) + Pow(m) * Low(lost, n)
    BY <1>1, LowSplits
  <1> HIDE DEF t, lost
  <1>7. Low(v, m + n) = Num(v) /\ Low(u, n + m) = Num(u)
    BY <1>1, <1>2, LowOfWord
  <1>8. Low(v, m) \in Nat /\ Low(lost, n) \in Nat /\ Pow(n) \in Nat /\ Pow(m) \in Nat
    BY <1>1, LowBound, PowType
  <1>9. Pow(w) = Pow(m) * Pow(n)
    BY <1>1, PowSum
  <1>10. Num(u) = Low(v, m) * Pow(n) /\ Num(v) = Low(v, m) + Pow(m) * Low(lost, n)
    BY <1>3, <1>4, <1>5, <1>6, <1>7, <1>8
  <1>11. ASSUME NEW x \in Nat, NEW y \in Nat, NEW p \in Nat, NEW q \in Nat
         PROVE  (x + p * y) * q = y * (p * q) + x * q
    OBVIOUS
  <1>12. Num(v) * Pow(n) = Low(lost, n) * Pow(w) + Num(u)
    BY <1>8, <1>9, <1>10, <1>11
  <1> QED
    BY <1>2, <1>8, <1>12 DEF u

-----------------------------------------------------------------------------
(* Products, as numbers: the bytes of a word, and its value from them.     *)

Byte(v, k) == Low(ShiftRight(8, v, 8 * k), 8)

LEMMA NumOfBytes ==
  ASSUME NEW v
  PROVE  /\ \A k \in 0 .. 7 : Byte(v, k) \in Nat /\ Byte(v, k) < 256
         /\ Low(v, 32) = Byte(v, 0) + 256 * Byte(v, 1)
                           + 65536 * Byte(v, 2) + 16777216 * Byte(v, 3)
  <1>1. \A k \in 0 .. 7 : Byte(v, k) \in Nat /\ Byte(v, k) < 256
    BY LowBound, PowersOfTwo, SMT DEF Byte
  <1>2. /\ Low(v, 0 + 8) = Low(v, 0) + Pow(0) * Byte(v, 0)
        /\ Low(v, 8 + 8) = Low(v, 8) + Pow(8) * Byte(v, 1)
        /\ Low(v, 16 + 8) = Low(v, 16) + Pow(16) * Byte(v, 2)
        /\ Low(v, 24 + 8) = Low(v, 24) + Pow(24) * Byte(v, 3)
    BY LowSplits DEF Byte
  <1>3. Low(v, 0) = 0 /\ Byte(v, 0) \in Nat /\ Byte(v, 1) \in Nat
        /\ Byte(v, 2) \in Nat /\ Byte(v, 3) \in Nat
    BY <1>1, LowOfNone
  <1> QED
    BY <1>1, <1>2, <1>3, PowersOfTwo, SMT

LEMMA NumOfLit ==
  ASSUME NEW w \in 0 .. 32, NEW x \in Int
  PROVE  Low(Lit(w, x), w) = x % Pow(w)
  <1> DEFINE v == Lit(w, x)
             Good == { i \in Bits(w + 1) : Low(v, i) = x % Pow(i) }
  <1>1. \A i \in Bits(w) : i \in v <=> (x \div Pow(i)) % 2 = 1
    BY DEF Lit, Pow
  <1> HIDE DEF v
  <1>2. 0 \in Good
    <2>1. x % 1 = 0
      OBVIOUS
    <2> QED
      BY <2>1, LowOfNone, PowersOfTwo DEF Bits
  <1>3. ASSUME NEW i \in Nat, i + 1 < w + 1, i \in Good
        PROVE  i + 1 \in Good
    <2> DEFINE p == Pow(i)
               q == x \div p
               r == x % p
               h == q \div 2
    <2>1. i \in 0 .. 31 /\ i \in 0 .. 32 /\ i \in Bits(w) /\ i + 1 \in Bits(w + 1)
      BY <1>3 DEF Bits
    <2>2. Low(v, i + 1) = Low(v, i) + Bit(v, i, p)
      BY LowNext
    <2>3. Pow(i + 1) = 2 * p /\ p \in Nat /\ p > 0
      BY <2>1, PowDoubles, PowType
    <2>4. Low(v, i) = r /\ (i \in v <=> q % 2 = 1)
      BY <1>1, <1>3, <2>1
    <2> HIDE DEF p
    <2>5. q \in Int /\ r \in Nat /\ r < p /\ x = q * p + r
      BY <2>3, DividesBack
    <2> HIDE DEF q, r
    <2>6. h \in Int /\ (q = 2 * h \/ q = 2 * h + 1) /\ (q % 2 = 1 <=> q = 2 * h + 1)
      BY <2>5
    <2> HIDE DEF h
    <2>7. Bit(v, i, p) = p * (q - 2 * h)
      BY <2>3, <2>4, <2>6 DEF Bit
    <2>8. x = h * (2 * p) + (r + p * (q - 2 * h))
      BY <2>3, <2>5, <2>6
    <2>9. r + p * (q - 2 * h) \in Nat /\ r + p * (q - 2 * h) < 2 * p
      BY <2>3, <2>5, <2>6
    <2>10. x % (2 * p) = r + p * (q - 2 * h)
      <3> DEFINE pp == 2 * p
                 rr == r + p * (q - 2 * h)
      <3>1. pp \in Nat /\ pp > 0 /\ rr \in Nat /\ rr < pp /\ x = h * pp + rr
        BY <2>3, <2>8, <2>9
      <3> HIDE DEF pp, rr
      <3>2. x % pp = rr
        BY <2>6, <3>1, Divides
      <3> QED
        BY <3>2 DEF pp, rr
    <2>11. Low(v, i + 1) = x % Pow(i + 1)
      BY <2>2, <2>3, <2>4, <2>7, <2>10
    <2> QED
      BY <2>1, <2>11
  <1> HIDE DEF Good
  <1>4. \A i \in Bits(w + 1) : i \in Good
    BY <1>2, <1>3, BitInduction
  <1>5. w \in Bits(w + 1)
    BY DEF Bits
  <1> QED
    BY <1>4, <1>5 DEF Good, v

(* The sums of up to eight values.                                         *)
LEMMA SumsOfEight ==
  ASSUME NEW f, NEW k \in 0 .. 7, \A i \in 0 .. k : f[i] \in Int
  PROVE  LET sum == SumFunctionOnSet(f, 0 .. k)
         IN  /\ k = 0 => sum = f[0]
             /\ k = 1 => sum = f[0] + f[1]
             /\ k = 2 => sum = f[0] + f[1] + f[2]
             /\ k = 3 => sum = f[0] + f[1] + f[2] + f[3]
             /\ k = 4 => sum = f[0] + f[1] + f[2] + f[3] + f[4]
             /\ k = 5 => sum = f[0] + f[1] + f[2] + f[3] + f[4] + f[5]
             /\ k = 6 => sum = f[0] + f[1] + f[2] + f[3] + f[4] + f[5] + f[6]
             /\ k = 7 => sum = f[0] + f[1] + f[2] + f[3] + f[4] + f[5] + f[6] + f[7]
  <1> DEFINE sum(n) == SumFunctionOnSet(f, 0 .. n)
  <1>1. sum(0) = f[0]
    BY SumOfFirst
  <1>2. \A n \in Nat : n + 1 <= k => sum(n + 1) = sum(n) + f[n + 1]
    BY SumOfNext
  <1> HIDE DEF sum
  <1>3. /\ k >= 1 => sum(1) = sum(0) + f[1]
        /\ k >= 2 => sum(2) = sum(1) + f[2]
        /\ k >= 3 => sum(3) = sum(2) + f[3]
        /\ k >= 4 => sum(4) = sum(3) + f[4]
        /\ k >= 5 => sum(5) = sum(4) + f[5]
        /\ k >= 6 => sum(6) = sum(5) + f[6]
        /\ k >= 7 => sum(7) = sum(6) + f[7]
    <2>1. /\ k >= 1 => sum(0 + 1) = sum(0) + f[0 + 1]
          /\ k >= 2 => sum(1 + 1) = sum(1) + f[1 + 1]
          /\ k >= 3 => sum(2 + 1) = sum(2) + f[2 + 1]
          /\ k >= 4 => sum(3 + 1) = sum(3) + f[3 + 1]
          /\ k >= 5 => sum(4 + 1) = sum(4) + f[4 + 1]
          /\ k >= 6 => sum(5 + 1) = sum(5) + f[5 + 1]
          /\ k >= 7 => sum(6 + 1) = sum(6) + f[6 + 1]
      BY <1>2
    <2> QED
      BY <2>1
  <1>4. /\ k = 0 => sum(k) = f[0]
        /\ k = 1 => sum(k) = f[0] + f[1]
        /\ k = 2 => sum(k) = f[0] + f[1] + f[2]
        /\ k = 3 => sum(k) = f[0] + f[1] + f[2] + f[3]
        /\ k = 4 => sum(k) = f[0] + f[1] + f[2] + f[3] + f[4]
        /\ k = 5 => sum(k) = f[0] + f[1] + f[2] + f[3] + f[4] + f[5]
        /\ k = 6 => sum(k) = f[0] + f[1] + f[2] + f[3] + f[4] + f[5] + f[6]
        /\ k = 7 => sum(k) = f[0] + f[1] + f[2] + f[3] + f[4] + f[5] + f[6] + f[7]
    BY <1>1, <1>3
  <1> QED
    BY <1>4 DEF sum

LEMMA DigitIsByte ==
  ASSUME NEW v, NEW k \in 0 .. 7
  PROVE  Digit256(7, v)[k] = Byte(v, k)
  <1>1. (8*k + 7) - 8*k + 1 = 8
    OBVIOUS
  <1>2. Slice(v, 8*k + 7, 8*k) = ShiftRight(8, v, 8*k)
    BY <1>1 DEF Slice, ShiftRight
  <1>3. ShiftRight(8, v, 8*k) \in Vec(8)
    BY DEF ShiftRight, Vec
  <1> QED
    BY <1>2, <1>3, LowOfWord DEF Digit256, Byte

(* The digit products of the column of weight 256^k.                       *)
LEMMA ColumnProducts ==
  ASSUME NEW a, NEW b
  PROVE  LET x(i) == Byte(a, i)
             y(i) == Byte(b, i)
             t(k) == Product256(7, a, b, k)
         IN  /\ t(0) = x(0)*y(0)
             /\ t(1) = x(0)*y(1) + x(1)*y(0)
             /\ t(2) = x(0)*y(2) + x(1)*y(1) + x(2)*y(0)
             /\ t(3) = x(0)*y(3) + x(1)*y(2) + x(2)*y(1) + x(3)*y(0)
             /\ t(4) = x(0)*y(4) + x(1)*y(3) + x(2)*y(2) + x(3)*y(1) + x(4)*y(0)
             /\ t(5) = x(0)*y(5) + x(1)*y(4) + x(2)*y(3) + x(3)*y(2) + x(4)*y(1)
                         + x(5)*y(0)
             /\ t(6) = x(0)*y(6) + x(1)*y(5) + x(2)*y(4) + x(3)*y(3) + x(4)*y(2)
                         + x(5)*y(1) + x(6)*y(0)
             /\ t(7) = x(0)*y(7) + x(1)*y(6) + x(2)*y(5) + x(3)*y(4) + x(4)*y(3)
                         + x(5)*y(2) + x(6)*y(1) + x(7)*y(0)
  <1> DEFINE x(i) == Byte(a, i)
             y(i) == Byte(b, i)
             f(k) == [i \in 0 .. k |-> Digit256(7, a)[i] * Digit256(7, b)[k - i]]
             t(k) == SumFunctionOnSet(f(k), 0 .. k)
  <1>1. \A i \in 0 .. 7 : x(i) \in Nat /\ y(i) \in Nat
    BY NumOfBytes
  <1>2. \A k \in 0 .. 7 : \A i \in 0 .. k :
          f(k)[i] = x(i) * y(k - i) /\ f(k)[i] \in Int
    <2> SUFFICES ASSUME NEW k \in 0 .. 7, NEW i \in 0 .. k
                 PROVE  f(k)[i] = x(i) * y(k - i) /\ f(k)[i] \in Int
      OBVIOUS
    <2>1. i \in 0 .. 7 /\ k - i \in 0 .. 7
      OBVIOUS
    <2>2. Digit256(7, a)[i] = x(i) /\ Digit256(7, b)[k - i] = y(k - i)
      BY <2>1, DigitIsByte
    <2>3. f(k)[i] = x(i) * y(k - i)
      BY <2>2
    <2>4. x(i) \in Nat /\ y(k - i) \in Nat
      BY <1>1, <2>1
    <2> HIDE DEF x, y, f
    <2> QED
      BY <2>3, <2>4
  <1>3. \A k \in 0 .. 7 : Product256(7, a, b, k) = t(k)
    BY DEF Product256, SumFunction
  <1> HIDE DEF f, x, y
  <1>4. ASSUME NEW k \in 0 .. 7
        PROVE  LET g == f(k)
                   sum == SumFunctionOnSet(g, 0 .. k)
               IN  /\ k = 0 => sum = g[0]
                   /\ k = 1 => sum = g[0] + g[1]
                   /\ k = 2 => sum = g[0] + g[1] + g[2]
                   /\ k = 3 => sum = g[0] + g[1] + g[2] + g[3]
                   /\ k = 4 => sum = g[0] + g[1] + g[2] + g[3] + g[4]
                   /\ k = 5 => sum = g[0] + g[1] + g[2] + g[3] + g[4] + g[5]
                   /\ k = 6 => sum = g[0] + g[1] + g[2] + g[3] + g[4] + g[5] + g[6]
                   /\ k = 7 => sum = g[0] + g[1] + g[2] + g[3] + g[4] + g[5] + g[6] + g[7]
    BY <1>2, SumsOfEight
  <1>5. /\ t(0) = f(0)[0]
        /\ t(1) = f(1)[0] + f(1)[1]
        /\ t(2) = f(2)[0] + f(2)[1] + f(2)[2]
        /\ t(3) = f(3)[0] + f(3)[1] + f(3)[2] + f(3)[3]
        /\ t(4) = f(4)[0] + f(4)[1] + f(4)[2] + f(4)[3] + f(4)[4]
        /\ t(5) = f(5)[0] + f(5)[1] + f(5)[2] + f(5)[3] + f(5)[4] + f(5)[5]
        /\ t(6) = f(6)[0] + f(6)[1] + f(6)[2] + f(6)[3] + f(6)[4] + f(6)[5] + f(6)[6]
        /\ t(7) = f(7)[0] + f(7)[1] + f(7)[2] + f(7)[3] + f(7)[4] + f(7)[5] + f(7)[6] + f(7)[7]
    BY <1>4
  <1> HIDE DEF t
  <1>6. \A k \in 0 .. 7 : \A i \in 0 .. k : f(k)[i] = x(i) * y(k - i)
    BY <1>2
  <1>7. /\ t(0) = x(0)*y(0)
        /\ t(1) = x(0)*y(1) + x(1)*y(0)
        /\ t(2) = x(0)*y(2) + x(1)*y(1) + x(2)*y(0)
        /\ t(3) = x(0)*y(3) + x(1)*y(2) + x(2)*y(1) + x(3)*y(0)
    BY <1>5, <1>6
  <1>8. /\ t(4) = x(0)*y(4) + x(1)*y(3) + x(2)*y(2) + x(3)*y(1) + x(4)*y(0)
        /\ t(5) = x(0)*y(5) + x(1)*y(4) + x(2)*y(3) + x(3)*y(2) + x(4)*y(1) + x(5)*y(0)
    BY <1>5, <1>6
  <1>9. t(6) = x(0)*y(6) + x(1)*y(5) + x(2)*y(4) + x(3)*y(3) + x(4)*y(2)
                 + x(5)*y(1) + x(6)*y(0)
    BY <1>5, <1>6
  <1>10. t(7) = x(0)*y(7) + x(1)*y(6) + x(2)*y(5) + x(3)*y(4) + x(4)*y(3)
                  + x(5)*y(2) + x(6)*y(1) + x(7)*y(0)
    BY <1>5, <1>6
  <1>11. t(0) = Product256(7, a, b, 0) /\ t(1) = Product256(7, a, b, 1)
         /\ t(2) = Product256(7, a, b, 2) /\ t(3) = Product256(7, a, b, 3)
         /\ t(4) = Product256(7, a, b, 4) /\ t(5) = Product256(7, a, b, 5)
         /\ t(6) = Product256(7, a, b, 6) /\ t(7) = Product256(7, a, b, 7)
    BY <1>3
  <1> QED
    BY <1>7, <1>8, <1>9, <1>10, <1>11 DEF x, y

LEMMA ColumnType ==
  ASSUME NEW a, NEW b
  PROVE  \A k \in 0 .. 7 : Product256(7, a, b, k) \in Nat
  <1> DEFINE t(k) == Product256(7, a, b, k)
  <1>1. \A x, y \in Nat : x * y \in Nat
    OBVIOUS
  <1>2. \A k, j \in 0 .. 7 : Byte(a, k) * Byte(b, j) \in Nat
    BY <1>1, NumOfBytes
  <1>3. t(0) \in Nat /\ t(1) \in Nat /\ t(2) \in Nat /\ t(3) \in Nat
    BY <1>2, ColumnProducts
  <1>4. t(4) \in Nat /\ t(5) \in Nat
    BY <1>2, ColumnProducts
  <1>5. t(6) \in Nat /\ t(7) \in Nat
    BY <1>2, ColumnProducts
  <1> HIDE DEF t
  <1>6. \A k \in 0 .. 7 : t(k) \in Nat
    BY <1>3, <1>4, <1>5
  <1> QED
    BY <1>6 DEF t

(* The bytes of a product, and the carries from each column to the next.   *)
LEMMA ProductBytes ==
  ASSUME NEW a, NEW b
  PROVE  LET byte(k) == Byte(Mul(64, a, b), k)
             t(k) == Product256(7, a, b, k)
         IN  \E q : /\ \A k \in 0 .. 7 : q[k] \in Nat
                    /\ byte(0) + 256 * q[0] = t(0)
                    /\ byte(1) + 256 * q[1] = t(1) + q[0]
                    /\ byte(2) + 256 * q[2] = t(2) + q[1]
                    /\ byte(3) + 256 * q[3] = t(3) + q[2]
                    /\ byte(4) + 256 * q[4] = t(4) + q[3]
                    /\ byte(5) + 256 * q[5] = t(5) + q[4]
                    /\ byte(6) + 256 * q[6] = t(6) + q[5]
                    /\ byte(7) + 256 * q[7] = t(7) + q[6]
  <1>1. (64 - 1) \div 8 = 7
    OBVIOUS
  <1>2. PICK c : /\ IsColumns(c, 7, Products(7, a, b))
                 /\ \A i \in Bits(64) :
                      i \in Mul(64, a, b) <=> (c[i \div 8] \div 2^(i % 8)) % 2 = 1
    BY <1>1, MulByColumns
  <1> DEFINE m == Mul(64, a, b)
             t(k) == Product256(7, a, b, k)
  <1>3. /\ t(0) \in Nat /\ t(1) \in Nat /\ t(2) \in Nat /\ t(3) \in Nat
        /\ t(4) \in Nat /\ t(5) \in Nat /\ t(6) \in Nat /\ t(7) \in Nat
    BY ColumnType
  <1>4. \A k \in 0 .. 7 : c[k] = t(k) + IF k = 0 THEN 0 ELSE c[k-1] \div 256
    <2>1. \A k \in 0 .. 7 : c[k] = Products(7, a, b)[k] + IF k = 0 THEN 0 ELSE c[k-1] \div 256
      BY <1>2, ColumnValue
    <2> QED
      BY <2>1 DEF Products
  <1>5. \A i \in Bits(64) : i \in m <=> (c[i \div 8] \div 2^(i % 8)) % 2 = 1
    BY <1>2
  <1> HIDE DEF m, t
  <1> DEFINE q == [k \in 0 .. 7 |-> c[k] \div 256]
  <1>6. /\ c[0] = t(0)          /\ c[1] = t(1) + q[0]   /\ c[2] = t(2) + q[1]
        /\ c[3] = t(3) + q[2]   /\ c[4] = t(4) + q[3]   /\ c[5] = t(5) + q[4]
        /\ c[6] = t(6) + q[5]   /\ c[7] = t(7) + q[6]
    <2>1. c[0] = t(0) + 0
      BY <1>4
    <2>2. /\ c[1] = t(1) + q[1-1] /\ c[2] = t(2) + q[2-1] /\ c[3] = t(3) + q[3-1]
          /\ c[4] = t(4) + q[4-1] /\ c[5] = t(5) + q[5-1] /\ c[6] = t(6) + q[6-1]
          /\ c[7] = t(7) + q[7-1]
      BY <1>4
    <2> QED
      BY <1>3, <2>1, <2>2
  <1>7. \A k \in 0 .. 7 : c[k] \in Nat => q[k] \in Nat
    OBVIOUS
  <1> HIDE DEF q
  <1>8. /\ c[0] \in Nat /\ c[1] \in Nat /\ c[2] \in Nat /\ c[3] \in Nat
        /\ c[4] \in Nat /\ c[5] \in Nat /\ c[6] \in Nat /\ c[7] \in Nat
    <2>1. c[0] \in Nat /\ q[0] \in Nat
      BY <1>3, <1>6, <1>7
    <2>2. c[1] \in Nat /\ q[1] \in Nat
      BY <1>3, <1>6, <1>7, <2>1
    <2>3. c[2] \in Nat /\ q[2] \in Nat
      BY <1>3, <1>6, <1>7, <2>2
    <2>4. c[3] \in Nat /\ q[3] \in Nat
      BY <1>3, <1>6, <1>7, <2>3
    <2>5. c[4] \in Nat /\ q[4] \in Nat
      BY <1>3, <1>6, <1>7, <2>4
    <2>6. c[5] \in Nat /\ q[5] \in Nat
      BY <1>3, <1>6, <1>7, <2>5
    <2>7. c[6] \in Nat /\ q[6] \in Nat
      BY <1>3, <1>6, <1>7, <2>6
    <2>8. c[7] \in Nat
      BY <1>3, <1>6, <2>7
    <2> QED
      BY <2>1, <2>2, <2>3, <2>4, <2>5, <2>6, <2>7, <2>8
  <1>9. \A k \in 0 .. 7 : c[k] \in Nat
    BY <1>8
  <1>10. ASSUME NEW k \in 0 .. 7
        PROVE  Byte(m, k) + 256 * q[k] = c[k]
    <2>1. ShiftRight(8, m, 8*k) = Lit(8, c[k])
      <3>1. \A i \in Bits(8) : i + 8*k \in Bits(64) /\ (i + 8*k) \div 8 = k /\ (i + 8*k) % 8 = i
        BY DEF Bits
      <3>2. \A i \in Bits(8) : i + 8*k \in m <=> (c[k] \div 2^i) % 2 = 1
        BY <1>5, <3>1
      <3> QED
        BY <3>2 DEF ShiftRight, Lit
    <2>2. Low(Lit(8, c[k]), 8) = c[k] % Pow(8)
      BY <1>9, NumOfLit
    <2>3. Byte(m, k) = c[k] % 256
      BY <2>1, <2>2, PowersOfTwo, SMT DEF Byte
    <2> QED
      BY <1>9, <2>3 DEF q
  <1>11. /\ Byte(m, 0) + 256 * q[0] = c[0] /\ Byte(m, 1) + 256 * q[1] = c[1]
        /\ Byte(m, 2) + 256 * q[2] = c[2] /\ Byte(m, 3) + 256 * q[3] = c[3]
        /\ Byte(m, 4) + 256 * q[4] = c[4] /\ Byte(m, 5) + 256 * q[5] = c[5]
        /\ Byte(m, 6) + 256 * q[6] = c[6] /\ Byte(m, 7) + 256 * q[7] = c[7]
    BY <1>10
  <1>12. \A k \in 0 .. 7 : q[k] \in Nat
    BY <1>7, <1>9
  <1>13. /\ Byte(m, 0) + 256 * q[0] = t(0)        /\ Byte(m, 1) + 256 * q[1] = t(1) + q[0]
         /\ Byte(m, 2) + 256 * q[2] = t(2) + q[1] /\ Byte(m, 3) + 256 * q[3] = t(3) + q[2]
         /\ Byte(m, 4) + 256 * q[4] = t(4) + q[3] /\ Byte(m, 5) + 256 * q[5] = t(5) + q[4]
         /\ Byte(m, 6) + 256 * q[6] = t(6) + q[5] /\ Byte(m, 7) + 256 * q[7] = t(7) + q[6]
    BY <1>6, <1>11
  <1> QED
    BY <1>12, <1>13 DEF m, t

(* The values of the halves of a product, from the sums of its columns.    *)
LEMMA ProductHalves ==
  ASSUME NEW a, NEW b
  PROVE  LET m == Mul(64, a, b)
             t(k) == Product256(7, a, b, k)
         IN  \E p, q \in Nat :
               /\ Num(Slice(m, 31, 0)) + Pow(32) * p
                    = t(0) + 256 * t(1) + 65536 * t(2) + 16777216 * t(3)
               /\ Num(Slice(m, 63, 32)) + Pow(32) * q
                    = p + t(4) + 256 * t(5) + 65536 * t(6) + 16777216 * t(7)
  <1> DEFINE m == Mul(64, a, b)
             low == Slice(m, 31, 0)
             high == Slice(m, 63, 32)
             t(k) == Product256(7, a, b, k)
  <1>1. PICK q : /\ \A k \in 0 .. 7 : q[k] \in Nat
                 /\ Byte(m, 0) + 256 * q[0] = t(0)
                 /\ Byte(m, 1) + 256 * q[1] = t(1) + q[0]
                 /\ Byte(m, 2) + 256 * q[2] = t(2) + q[1]
                 /\ Byte(m, 3) + 256 * q[3] = t(3) + q[2]
                 /\ Byte(m, 4) + 256 * q[4] = t(4) + q[3]
                 /\ Byte(m, 5) + 256 * q[5] = t(5) + q[4]
                 /\ Byte(m, 6) + 256 * q[6] = t(6) + q[5]
                 /\ Byte(m, 7) + 256 * q[7] = t(7) + q[6]
    BY ProductBytes
  <1>2. /\ t(0) \in Nat /\ t(1) \in Nat /\ t(2) \in Nat /\ t(3) \in Nat
         /\ t(4) \in Nat /\ t(5) \in Nat /\ t(6) \in Nat /\ t(7) \in Nat
    BY ColumnType
  <1> HIDE DEF m, t
  <1>3. /\ low \in Vec(32) /\ high \in Vec(32)
        /\ \A i \in Bits(32) : /\ i \in low <=> i \in m
                               /\ i \in high <=> i + 32 \in m
    BY DEF Slice, Vec, Bits
  <1> HIDE DEF low, high
  <1>4. ASSUME NEW k \in 0 .. 3
        PROVE  Byte(low, k) = Byte(m, k) /\ Byte(high, k) = Byte(m, k + 4)
    <2>1. \A i \in Bits(8) : i + 8*k \in Bits(32) /\ (i + 8*k) + 32 = i + 8*(k + 4)
      BY DEF Bits
    <2>2. ShiftRight(8, low, 8*k) = ShiftRight(8, m, 8*k)
      BY <1>3, <2>1 DEF ShiftRight
    <2>3. ShiftRight(8, high, 8*k) = ShiftRight(8, m, 8*(k + 4))
      BY <1>3, <2>1 DEF ShiftRight
    <2> QED
      BY <2>2, <2>3 DEF Byte
  <1>5. /\ Byte(low, 0) = Byte(m, 0) /\ Byte(low, 1) = Byte(m, 1)
        /\ Byte(low, 2) = Byte(m, 2) /\ Byte(low, 3) = Byte(m, 3)
        /\ Byte(high, 0) = Byte(m, 4) /\ Byte(high, 1) = Byte(m, 5)
        /\ Byte(high, 2) = Byte(m, 6) /\ Byte(high, 3) = Byte(m, 7)
    <2>1. 0 + 4 = 4 /\ 1 + 4 = 5 /\ 2 + 4 = 6 /\ 3 + 4 = 7
      OBVIOUS
    <2> QED
      BY <1>4, <2>1
  <1>6. /\ Num(low) = Byte(m, 0) + 256 * Byte(m, 1) + 65536 * Byte(m, 2)
                        + 16777216 * Byte(m, 3)
        /\ Num(high) = Byte(m, 4) + 256 * Byte(m, 5) + 65536 * Byte(m, 6)
                        + 16777216 * Byte(m, 7)
    <2>1. Num(low) = Low(low, 32) /\ Num(high) = Low(high, 32)
      BY <1>3, LowOfWord
    <2>2. Low(low, 32) = Byte(low, 0) + 256 * Byte(low, 1) + 65536 * Byte(low, 2)
                        + 16777216 * Byte(low, 3)
      BY NumOfBytes, SMT
    <2>3. Low(high, 32) = Byte(high, 0) + 256 * Byte(high, 1) + 65536 * Byte(high, 2)
                        + 16777216 * Byte(high, 3)
      BY NumOfBytes, SMT
    <2> QED
      BY <1>5, <2>1, <2>2, <2>3, SMT
  <1>7. \A k \in 0 .. 7 : Byte(m, k) \in Nat
    BY NumOfBytes
  <1>8. q[3] \in Nat /\ q[7] \in Nat
    BY <1>1
  <1>9. /\ Byte(m, 0) \in Nat /\ Byte(m, 1) \in Nat /\ Byte(m, 2) \in Nat
        /\ Byte(m, 3) \in Nat /\ Byte(m, 4) \in Nat /\ Byte(m, 5) \in Nat
        /\ Byte(m, 6) \in Nat /\ Byte(m, 7) \in Nat
        /\ q[0] \in Nat /\ q[1] \in Nat /\ q[2] \in Nat /\ q[3] \in Nat
        /\ q[4] \in Nat /\ q[5] \in Nat /\ q[6] \in Nat /\ q[7] \in Nat
    BY <1>1, <1>7
  <1>10. Pow(32) = 4294967296
    BY PowersOfTwo
  <1>11. Num(low) + Pow(32) * q[3] = t(0) + 256 * t(1) + 65536 * t(2) + 16777216 * t(3)
    <2>1. PICK r0, r1, r2, r3 \in Nat :
            r0 = Byte(m, 0) /\ r1 = Byte(m, 1) /\ r2 = Byte(m, 2) /\ r3 = Byte(m, 3)
      BY <1>9
    <2>2. PICK t0, t1, t2, t3 \in Nat : t0 = t(0) /\ t1 = t(1) /\ t2 = t(2) /\ t3 = t(3)
      BY <1>2
    <2>3. PICK q0, q1, q2, q3 \in Nat : q0 = q[0] /\ q1 = q[1] /\ q2 = q[2] /\ q3 = q[3]
      BY <1>9
    <2>4. /\ r0 + 256 * q0 = t0      /\ r1 + 256 * q1 = t1 + q0
          /\ r2 + 256 * q2 = t2 + q1 /\ r3 + 256 * q3 = t3 + q2
      BY <1>1, <2>1, <2>2, <2>3
    <2>5. r0 + 256 * r1 + 65536 * r2 + 16777216 * r3 + 4294967296 * q3
            = t0 + 256 * t1 + 65536 * t2 + 16777216 * t3
      BY <2>4, SMT
    <2> QED
      BY <1>6, <1>10, <2>1, <2>2, <2>3, <2>5, SMT
  <1>12. Num(high) + Pow(32) * q[7]
           = q[3] + t(4) + 256 * t(5) + 65536 * t(6) + 16777216 * t(7)
    <2>1. PICK r0, r1, r2, r3 \in Nat :
            r0 = Byte(m, 4) /\ r1 = Byte(m, 5) /\ r2 = Byte(m, 6) /\ r3 = Byte(m, 7)
      BY <1>9
    <2>2. PICK t0, t1, t2, t3 \in Nat : t0 = t(4) /\ t1 = t(5) /\ t2 = t(6) /\ t3 = t(7)
      BY <1>2
    <2>3. PICK in, q0, q1, q2, q3 \in Nat :
            in = q[3] /\ q0 = q[4] /\ q1 = q[5] /\ q2 = q[6] /\ q3 = q[7]
      BY <1>9
    <2>4. /\ r0 + 256 * q0 = t0 + in /\ r1 + 256 * q1 = t1 + q0
          /\ r2 + 256 * q2 = t2 + q1 /\ r3 + 256 * q3 = t3 + q2
      BY <1>1, <2>1, <2>2, <2>3
    <2>5. r0 + 256 * r1 + 65536 * r2 + 16777216 * r3 + 4294967296 * q3
            = in + t0 + 256 * t1 + 65536 * t2 + 16777216 * t3
      BY <2>4, SMT
    <2> QED
      BY <1>6, <1>10, <2>1, <2>2, <2>3, <2>5, SMT
  <1> QED
    BY <1>8, <1>11, <1>12 DEF m, t, low, high

(* The bytes of a 32-bit word and of its sign extension to 64 bits.        *)
SignOf(v) == IF 31 \in v THEN 1 ELSE 0

LEMMA ExtendedBytes ==
  ASSUME NEW v \in Vec(32)
  PROVE  LET u == SignExtend(64, 32, v)
         IN  /\ Byte(v, 4) = 0 /\ Byte(v, 5) = 0 /\ Byte(v, 6) = 0 /\ Byte(v, 7) = 0
             /\ Byte(u, 0) = Byte(v, 0) /\ Byte(u, 1) = Byte(v, 1)
             /\ Byte(u, 2) = Byte(v, 2) /\ Byte(u, 3) = Byte(v, 3)
             /\ Byte(u, 4) = 255 * SignOf(v) /\ Byte(u, 5) = 255 * SignOf(v)
             /\ Byte(u, 6) = 255 * SignOf(v) /\ Byte(u, 7) = 255 * SignOf(v)
  <1> DEFINE u == SignExtend(64, 32, v)
  <1>1. \A i \in 0 .. 63 : /\ i \in 0 .. 31 => (i \in u <=> i \in v)
                           /\ i \notin 0 .. 31 => (i \in u <=> 31 \in v) /\ i \notin v
    BY DEF SignExtend, Vec, Bits
  <1> HIDE DEF u
  <1>2. Low({}, 8) = 0 /\ Low(Bits(8), 8) = 255
    <2>1. {} \in Vec(8) /\ Bits(8) \in Vec(8) /\ Not(8, {}) = Bits(8)
      BY DEF Vec, Not
    <2>2. Num(Bits(8)) = Pow(8) - 1 - Num({})
      BY <2>1, NumOfNot
    <2>3. Low({}, 8) = Num({}) /\ Low(Bits(8), 8) = Num(Bits(8))
      BY <2>1, LowOfWord
    <2> QED
      BY <2>2, <2>3, NumOfNone, PowersOfTwo, SMT
  <1>3. ASSUME NEW k \in 0 .. 3
        PROVE  Byte(u, k) = Byte(v, k)
    <2>1. \A i \in Bits(8) : i + 8*k \in 0 .. 31 /\ i + 8*k \in 0 .. 63
      BY DEF Bits
    <2>2. ShiftRight(8, u, 8*k) = ShiftRight(8, v, 8*k)
      BY <1>1, <2>1 DEF ShiftRight
    <2> QED
      BY <2>2 DEF Byte
  <1>4. ASSUME NEW k \in 4 .. 7
        PROVE  Byte(v, k) = 0 /\ Byte(u, k) = 255 * SignOf(v)
    <2>1. \A i \in Bits(8) : i + 8*k \notin 0 .. 31 /\ i + 8*k \in 0 .. 63
      BY DEF Bits
    <2>2. ShiftRight(8, v, 8*k) = {}
      BY <1>1, <2>1 DEF ShiftRight
    <2>3. ShiftRight(8, u, 8*k) = IF 31 \in v THEN Bits(8) ELSE {}
      BY <1>1, <2>1 DEF ShiftRight
    <2> QED
      BY <1>2, <2>2, <2>3 DEF Byte, SignOf
  <1>5. /\ Byte(u, 0) = Byte(v, 0) /\ Byte(u, 1) = Byte(v, 1)
        /\ Byte(u, 2) = Byte(v, 2) /\ Byte(u, 3) = Byte(v, 3)
    BY <1>3
  <1>6. /\ Byte(v, 4) = 0 /\ Byte(v, 5) = 0 /\ Byte(v, 6) = 0 /\ Byte(v, 7) = 0
        /\ Byte(u, 4) = 255 * SignOf(v) /\ Byte(u, 5) = 255 * SignOf(v)
        /\ Byte(u, 6) = 255 * SignOf(v) /\ Byte(u, 7) = 255 * SignOf(v)
    BY <1>4
  <1> QED
    BY <1>5, <1>6 DEF u

LEMMA UnsignedProduct ==
  ASSUME NEW a \in Vec(32), NEW b \in Vec(32)
  PROVE  LET m == Mul(64, a, b)
         IN  \E q \in Nat : Num(a) * Num(b) =
               Pow(32) * (Pow(32) * q + Num(Slice(m, 63, 32))) + Num(Slice(m, 31, 0))
  <1> DEFINE m == Mul(64, a, b)
             low == Num(Slice(m, 31, 0))
             high == Num(Slice(m, 63, 32))
             t(k) == Product256(7, a, b, k)
  <1>1. PICK p, q \in Nat :
          /\ low + Pow(32) * p = t(0) + 256 * t(1) + 65536 * t(2) + 16777216 * t(3)
          /\ high + Pow(32) * q = p + t(4) + 256 * t(5) + 65536 * t(6) + 16777216 * t(7)
    BY ProductHalves
  <1>2. PICK x0, x1, x2, x3 \in Nat : x0 = Byte(a, 0) /\ x1 = Byte(a, 1)
                                      /\ x2 = Byte(a, 2) /\ x3 = Byte(a, 3)
    BY NumOfBytes
  <1>3. PICK y0, y1, y2, y3 \in Nat : y0 = Byte(b, 0) /\ y1 = Byte(b, 1)
                                      /\ y2 = Byte(b, 2) /\ y3 = Byte(b, 3)
    BY NumOfBytes
  <1>4. /\ Byte(a, 4) = 0 /\ Byte(a, 5) = 0 /\ Byte(a, 6) = 0 /\ Byte(a, 7) = 0
        /\ Byte(b, 4) = 0 /\ Byte(b, 5) = 0 /\ Byte(b, 6) = 0 /\ Byte(b, 7) = 0
    BY ExtendedBytes
  <1>5. /\ t(0) = x0*y0
        /\ t(1) = x0*y1 + x1*y0
        /\ t(2) = x0*y2 + x1*y1 + x2*y0
        /\ t(3) = x0*y3 + x1*y2 + x2*y1 + x3*y0
    BY <1>2, <1>3, ColumnProducts
  <1>6. /\ t(4) = x1*y3 + x2*y2 + x3*y1
        /\ t(5) = x2*y3 + x3*y2
        /\ t(6) = x3*y3
        /\ t(7) = 0
    BY <1>2, <1>3, <1>4, ColumnProducts
  <1>7. /\ Num(a) = x0 + 256 * x1 + 65536 * x2 + 16777216 * x3
        /\ Num(b) = y0 + 256 * y1 + 65536 * y2 + 16777216 * y3
    <2>1. Num(a) = Low(a, 32) /\ Num(b) = Low(b, 32)
      BY LowOfWord
    <2> QED
      BY <1>2, <1>3, <2>1, NumOfBytes, SMT
  <1>8. low \in Nat /\ high \in Nat
    <2>1. Slice(m, 31, 0) \in Vec(32) /\ Slice(m, 63, 32) \in Vec(32)
      BY DEF Slice, Vec, Bits
    <2> HIDE DEF m
    <2> QED
      BY <2>1, LowOfWord, LowBound
  <1> HIDE DEF m, low, high, t
  <1>9. PICK l, h \in Nat : l = low /\ h = high
    BY <1>8
  <1>10. /\ l + 4294967296 * p = x0*y0 + 256 * (x0*y1 + x1*y0) + 65536 * (x0*y2 + x1*y1 + x2*y0)
              + 16777216 * (x0*y3 + x1*y2 + x2*y1 + x3*y0)
         /\ h + 4294967296 * q = p + (x1*y3 + x2*y2 + x3*y1) + 256 * (x2*y3 + x3*y2)
              + 65536 * (x3*y3)
    BY <1>1, <1>5, <1>6, <1>9, PowersOfTwo, SMT
  <1>11. (x0 + 256 * x1 + 65536 * x2 + 16777216 * x3) * (y0 + 256 * y1 + 65536 * y2 + 16777216 * y3)
           = 4294967296 * (4294967296 * q + h) + l
    BY <1>10, SMT
  <1>12. Num(a) * Num(b) = Pow(32) * (Pow(32) * q + high) + low
    BY <1>7, <1>9, <1>11, PowersOfTwo, SMT
  <1> QED
    BY <1>12 DEF m, low, high

(* A negative operand counts 2^32 less: the upper half of the product      *)
(* loses the other operand, and the lower half stays as it is.             *)
LEMMA SignedProduct ==
  ASSUME NEW a \in Vec(32), NEW b \in Vec(32)
  PROVE  LET m == Mul(64, a, b)
             s == Mul(64, SignExtend(64, 32, a), SignExtend(64, 32, b))
         IN  /\ Num(Slice(s, 31, 0)) = Num(Slice(m, 31, 0))
             /\ \E k \in Int : Num(Slice(s, 63, 32)) =
                  Pow(32) * k + Num(Slice(m, 63, 32)) - SignOf(a) * Num(b) - SignOf(b) * Num(a)
  <1> DEFINE ea == SignExtend(64, 32, a)
             eb == SignExtend(64, 32, b)
             m == Mul(64, a, b)
             low == Num(Slice(m, 31, 0))
             high == Num(Slice(m, 63, 32))
             t(k) == Product256(7, a, b, k)
             ms == Mul(64, ea, eb)
             lows == Num(Slice(ms, 31, 0))
             highs == Num(Slice(ms, 63, 32))
             ts(k) == Product256(7, ea, eb, k)
  <1>1. PICK p, q \in Nat :
          /\ low + Pow(32) * p = t(0) + 256 * t(1) + 65536 * t(2) + 16777216 * t(3)
          /\ high + Pow(32) * q = p + t(4) + 256 * t(5) + 65536 * t(6) + 16777216 * t(7)
    BY ProductHalves
  <1>2. PICK u, v \in Nat :
          /\ lows + Pow(32) * u = ts(0) + 256 * ts(1) + 65536 * ts(2) + 16777216 * ts(3)
          /\ highs + Pow(32) * v = u + ts(4) + 256 * ts(5) + 65536 * ts(6) + 16777216 * ts(7)
    BY ProductHalves
  <1>3. PICK x0, x1, x2, x3 \in Nat : x0 = Byte(a, 0) /\ x1 = Byte(a, 1)
                                      /\ x2 = Byte(a, 2) /\ x3 = Byte(a, 3)
    BY NumOfBytes
  <1>4. PICK y0, y1, y2, y3 \in Nat : y0 = Byte(b, 0) /\ y1 = Byte(b, 1)
                                      /\ y2 = Byte(b, 2) /\ y3 = Byte(b, 3)
    BY NumOfBytes
  <1>5. PICK f, g \in {0, 1} : f = SignOf(a) /\ g = SignOf(b)
    BY DEF SignOf
  <1>6. /\ Byte(a, 4) = 0 /\ Byte(a, 5) = 0 /\ Byte(a, 6) = 0 /\ Byte(a, 7) = 0
        /\ Byte(b, 4) = 0 /\ Byte(b, 5) = 0 /\ Byte(b, 6) = 0 /\ Byte(b, 7) = 0
    BY ExtendedBytes
  <1>7. /\ Byte(ea, 0) = x0 /\ Byte(ea, 1) = x1 /\ Byte(ea, 2) = x2 /\ Byte(ea, 3) = x3
        /\ Byte(ea, 4) = 255 * f /\ Byte(ea, 5) = 255 * f
        /\ Byte(ea, 6) = 255 * f /\ Byte(ea, 7) = 255 * f
    BY <1>3, <1>5, ExtendedBytes
  <1>8. /\ Byte(eb, 0) = y0 /\ Byte(eb, 1) = y1 /\ Byte(eb, 2) = y2 /\ Byte(eb, 3) = y3
        /\ Byte(eb, 4) = 255 * g /\ Byte(eb, 5) = 255 * g
        /\ Byte(eb, 6) = 255 * g /\ Byte(eb, 7) = 255 * g
    BY <1>4, <1>5, ExtendedBytes
  <1> HIDE DEF ea, eb
  <1>9. t(0) = ts(0) /\ t(1) = ts(1) /\ t(2) = ts(2) /\ t(3) = ts(3)
    BY <1>3, <1>4, <1>7, <1>8, ColumnProducts
  <1>10. ts(4) = t(4) + 255*f * y0 + 255*g * x0
    <2>1. ts(4) = x0 * (255*g) + x1*y3 + x2*y2 + x3*y1 + (255*f) * y0
      BY <1>7, <1>8, ColumnProducts
    <2>2. t(4) = x0*0 + x1*y3 + x2*y2 + x3*y1 + 0*y0
      BY <1>3, <1>4, <1>6, ColumnProducts
    <2> HIDE DEF t, ts
    <2> QED
      BY <2>1, <2>2
  <1>11. ts(5) = t(5) + 255*f * (y0 + y1) + 255*g * (x0 + x1)
    <2>1. ts(5) = x0 * (255*g) + x1 * (255*g) + x2*y3 + x3*y2 + (255*f) * y1 + (255*f) * y0
      BY <1>7, <1>8, ColumnProducts
    <2>2. t(5) = x0*0 + x1*0 + x2*y3 + x3*y2 + 0*y1 + 0*y0
      BY <1>3, <1>4, <1>6, ColumnProducts
    <2> HIDE DEF t, ts
    <2> QED
      BY <2>1, <2>2
  <1>12. ts(6) = t(6) + 255*f * (y0 + y1 + y2) + 255*g * (x0 + x1 + x2)
    <2>1. ts(6) = x0 * (255*g) + x1 * (255*g) + x2 * (255*g) + x3*y3
                    + (255*f) * y2 + (255*f) * y1 + (255*f) * y0
      BY <1>7, <1>8, ColumnProducts
    <2>2. t(6) = x0*0 + x1*0 + x2*0 + x3*y3 + 0*y2 + 0*y1 + 0*y0
      BY <1>3, <1>4, <1>6, ColumnProducts
    <2> HIDE DEF t, ts
    <2> QED
      BY <2>1, <2>2
  <1>13. ts(7) = t(7) + 255*f * (y0 + y1 + y2 + y3) + 255*g * (x0 + x1 + x2 + x3)
    <2>1. ts(7) = x0 * (255*g) + x1 * (255*g) + x2 * (255*g) + x3 * (255*g)
                    + (255*f) * y3 + (255*f) * y2 + (255*f) * y1 + (255*f) * y0
      BY <1>7, <1>8, ColumnProducts
    <2>2. t(7) = x0*0 + x1*0 + x2*0 + x3*0 + 0*y3 + 0*y2 + 0*y1 + 0*y0
      BY <1>3, <1>4, <1>6, ColumnProducts
    <2> HIDE DEF t, ts
    <2> QED
      BY <2>1, <2>2
  <1>14. /\ Num(a) = x0 + 256 * x1 + 65536 * x2 + 16777216 * x3
         /\ Num(b) = y0 + 256 * y1 + 65536 * y2 + 16777216 * y3
    <2>1. Num(a) = Low(a, 32) /\ Num(b) = Low(b, 32)
      BY LowOfWord
    <2> QED
      BY <1>3, <1>4, <2>1, NumOfBytes, SMT
  <1>15. /\ low \in Nat /\ high \in Nat /\ lows \in Nat /\ highs \in Nat
         /\ low < Pow(32) /\ lows < Pow(32)
    <2>1. /\ Slice(m, 31, 0) \in Vec(32) /\ Slice(m, 63, 32) \in Vec(32)
          /\ Slice(ms, 31, 0) \in Vec(32) /\ Slice(ms, 63, 32) \in Vec(32)
      BY DEF Slice, Vec, Bits
    <2> HIDE DEF m, ms
    <2> QED
      BY <2>1, LowOfWord, LowBound
  <1>16. t(4) \in Nat /\ t(5) \in Nat /\ t(6) \in Nat /\ t(7) \in Nat
    BY ColumnType
  <1> HIDE DEF m, ms, low, high, lows, highs, t, ts
  <1>17. PICK l, h, ls, hs, t4, t5, t6, t7 \in Nat :
           /\ l = low /\ h = high /\ ls = lows /\ hs = highs
           /\ t4 = t(4) /\ t5 = t(5) /\ t6 = t(6) /\ t7 = t(7)
    BY <1>15, <1>16
  <1>18. l + 4294967296 * p = ls + 4294967296 * u /\ l < 4294967296 /\ ls < 4294967296
    <2>1. low + Pow(32) * p = lows + Pow(32) * u
      BY <1>1, <1>2, <1>9
    <2> QED
      BY <1>15, <1>17, <2>1, PowersOfTwo, SMT
  <1>19. l = ls /\ p = u
    BY <1>18, SMT
  <1>20. h + 4294967296 * q = p + t4 + 256 * t5 + 65536 * t6 + 16777216 * t7
    BY <1>1, <1>17, PowersOfTwo, SMT
  <1>21. hs + 4294967296 * v
           = p + (t4 + 255*f * y0 + 255*g * x0)
               + 256 * (t5 + 255*f * (y0 + y1) + 255*g * (x0 + x1))
               + 65536 * (t6 + 255*f * (y0 + y1 + y2) + 255*g * (x0 + x1 + x2))
               + 16777216 * (t7 + 255*f * (y0 + y1 + y2 + y3) + 255*g * (x0 + x1 + x2 + x3))
    BY <1>2, <1>10, <1>11, <1>12, <1>13, <1>17, <1>19, PowersOfTwo, SMT
  <1> DEFINE k == q - v + f * (y0 + y1 + y2 + y3) + g * (x0 + x1 + x2 + x3)
  <1>22. hs = 4294967296 * k + h - f * (y0 + 256 * y1 + 65536 * y2 + 16777216 * y3)
                                 - g * (x0 + 256 * x1 + 65536 * x2 + 16777216 * x3)
    BY <1>20, <1>21, SMT
  <1>23. k \in Int
    OBVIOUS
  <1> HIDE DEF k
  <1>24. highs = Pow(32) * k + high - SignOf(a) * Num(b) - SignOf(b) * Num(a)
    BY <1>5, <1>14, <1>17, <1>22, <1>23, PowersOfTwo, SMT
  <1>25. lows = low
    BY <1>17, <1>19
  <1> QED
    BY <1>23, <1>24, <1>25 DEF m, ms, low, high, lows, highs, ea, eb

=============================================================================
