------------------------- MODULE CryptonightProofs -------------------------
(***************************************************************************)
(* For every precision of words and doubles, every cipher, size of the     *)
(* scratchpad, number of rounds and of hashes side by side, and whatever   *)
(* was in the memory of the scratchpads, Cryptonight_hash computes the     *)
(* hash that SlowHash defines.                                             *)
(*                                                                         *)
(* First the arithmetic: the integer square root is exact except for the   *)
(* largest words, where it may be one too large because a product of two   *)
(* words is cut off, and the quotient fits beside its remainder.  Then the *)
(* key schedule, the loops over eight blocks, the parts of a round, and    *)
(* the macros, each of which takes a lane from one stage to the next.      *)
(***************************************************************************)
EXTENDS Cryptonight, FoldProofs, TLAPS

(* Facts of arithmetic. *)

(* A quotient, between its neighbours. *)
LEMMA Division ==
  ASSUME NEW a \in Nat, NEW b \in Nat \ {0}
  PROVE  /\ a \div b \in Nat
         /\ b * (a \div b) <= a
         /\ a < b * (a \div b) + b
OBVIOUS

(* No other quotient is. *)
LEMMA DivisionUnique ==
  ASSUME NEW a \in Nat, NEW b \in Nat \ {0}, NEW q \in Nat, b * q <= a, a < b * q + b
  PROVE  q = a \div b
OBVIOUS

(* Quotient and remainder make up the number. *)
LEMMA DivMod ==
  ASSUME NEW a \in Nat, NEW b \in Nat \ {0}
  PROVE  a = b * (a \div b) + (a % b) /\ a % b \in 0..(b - 1)
OBVIOUS

(* The remainder of a number that is not much larger than the divisor. *)
LEMMA Remainder ==
  ASSUME NEW a \in Nat, NEW b \in Nat \ {0}
  PROVE  /\ b <= a /\ a < 2 * b => a % b = a - b
         /\ 2 * b <= a /\ a < 3 * b => a % b = a - 2 * b
<1>1. a = b * (a \div b) + (a % b) /\ a % b \in 0..(b - 1)
  BY DivMod
<1> QED BY <1>1

(* Products are ordered as their factors. *)
LEMMA ProductOrder ==
  ASSUME NEW a \in Nat, NEW b \in Nat, NEW u \in Nat, NEW v \in Nat, a <= b, u <= v
  PROVE  a * u <= b * v
OBVIOUS

(* Squares are ordered as their roots. *)
LEMMA SquareOrder ==
  ASSUME NEW a \in Nat, NEW b \in Nat
  PROVE  a * a < b * b <=> a < b
OBVIOUS

(* A positive factor can be cancelled. *)
LEMMA Cancel ==
  ASSUME NEW a \in Nat, NEW b \in Nat, NEW u \in Nat \ {0}
  PROVE  /\ u * a <= u * b => a <= b
         /\ u * a < u * b => a < b
OBVIOUS
-----------------------------------------------------------------------------
(* The sizes of words, half words and doubles. *)
LEMMA Sizes ==
  /\ Half \in Nat /\ Half >= 2 /\ Half >= 2 * Lost
  /\ Modulus \in Nat /\ Modulus >= 2 * Half
  /\ One \in Nat /\ One >= Half
<1>1. Half \in Nat /\ Half >= 2 /\ Half >= 2 * Lost
  BY PrecisionAssumption, ProductOrder DEF Half
<1>2. Modulus \in Nat /\ Modulus >= 2 * Half
  BY <1>1, ProductOrder DEF Modulus
<1>3. One \in Nat /\ One >= Half
  BY <1>1, PrecisionAssumption, ProductOrder DEF One
<1> QED BY <1>1, <1>2, <1>3

(* The double under the root, in units of the words. *)
LEMMA UnderTheRoot ==
  ASSUME NEW n \in Nat
  PROVE  Converted(n) * One = ((4 * Spare) * Spare) * (Modulus + Lost * (n \div Lost))
<1> DEFINE q == n \div Lost
<1>1. q \in Nat
  BY Division, PrecisionAssumption
<1> HIDE DEF q
<1>2. One * One = ((4 * Spare) * Spare) * Modulus
  BY Sizes, PrecisionAssumption DEF One, Modulus
<1>3. q * One = ((4 * Spare) * Spare) * (Lost * q)
  BY <1>1, PrecisionAssumption DEF One, Half
<1>4. (One + q) * One = One * One + q * One
  BY <1>1, Sizes
<1>5. (One + q) * One = ((4 * Spare) * Spare) * (Modulus + Lost * q)
  BY <1>1, <1>2, <1>3, <1>4, Sizes, PrecisionAssumption
<1> QED BY <1>5 DEF Converted, q

(* A root that is cut is the root of what is cut. *)
LEMMA CutRoot ==
  ASSUME NEW e \in Nat \ {0}, NEW m \in Nat, NEW k \in Nat, IsRoot(k, ((4 * e) * e) * m)
  PROVE  IsRoot(k \div e, 4 * m)
<1> DEFINE w == k \div e
<1>0. w \in Nat /\ e * w <= k /\ k < e * w + e
  BY Division
<1> HIDE DEF w
<1>1. w \in Nat /\ e * w <= k /\ k + 1 <= e * (w + 1)
  <2>1. e * (w + 1) = e * w + e /\ e * w \in Nat
    BY <1>0
  <2> QED BY <1>0, <2>1
<1>2. e * e \in Nat \ {0} /\ ((4 * e) * e) * m = (e * e) * (4 * m)
  BY <1>1
<1>3. w * w <= 4 * m
  <2>1. (e * w) * (e * w) <= k * k
    BY <1>1, ProductOrder
  <2>2. (e * w) * (e * w) = (e * e) * (w * w)
    BY <1>1
  <2>3. (e * e) * (w * w) <= (e * e) * (4 * m)
    BY <1>1, <1>2, <2>1, <2>2 DEF IsRoot
  <2> QED BY <1>1, <1>2, <2>3, Cancel
<1>4. 4 * m < (w + 1) * (w + 1)
  <2>1. (k + 1) * (k + 1) <= (e * (w + 1)) * (e * (w + 1))
    BY <1>1, ProductOrder
  <2>2. (e * (w + 1)) * (e * (w + 1)) = (e * e) * ((w + 1) * (w + 1))
    BY <1>1
  <2>3. (e * e) * (4 * m) < (e * e) * ((w + 1) * (w + 1))
    BY <1>1, <1>2, <2>1, <2>2 DEF IsRoot
  <2> QED BY <1>1, <1>2, <2>3, Cancel
<1>5. QED BY <1>3, <1>4 DEF w, IsRoot

(* The result without the correction is exact or one too small. *)
LEMMA Uncorrected ==
  ASSUME NEW n \in Nat, n < Modulus, NEW k \in Nat, IsRoot(k, Converted(n) * One)
  PROVE  /\ Cut(k) \in Nat
         /\ 2 * Half <= Cut(k)
         /\ Cut(k) < 3 * Half
         /\ Cut(k) * Cut(k) <= 4 * (Modulus + n)
         /\ 4 * (Modulus + n) < (Cut(k) + 2) * (Cut(k) + 2)
<1> DEFINE p == Lost * (n \div Lost)
           w == Cut(k)
<1>1. p \in Nat /\ p <= n /\ n < p + Lost
  BY Division, PrecisionAssumption
<1>2. w \in Nat /\ IsRoot(w, 4 * (Modulus + p))
  <2>1. IsRoot(k, ((4 * Spare) * Spare) * (Modulus + p))
    BY UnderTheRoot
  <2> HIDE DEF p
  <2>2. Modulus + p \in Nat
    BY <1>1, Sizes
  <2> QED BY <2>1, <2>2, CutRoot, Division, PrecisionAssumption DEF Cut
<1> HIDE DEF p, w
<1>3. 2 * Half <= w
  <2>1. (2 * Half) * (2 * Half) < (w + 1) * (w + 1)
    BY <1>1, <1>2, Sizes DEF IsRoot, Modulus
  <2>2. 2 * Half < w + 1
    BY <1>2, <2>1, Sizes, SquareOrder
  <2> QED BY <1>2, <2>2, Sizes
<1>4. w < 3 * Half
  <2>1. w * w < (3 * Half) * (3 * Half)
    BY <1>1, <1>2, Sizes DEF IsRoot, Modulus
  <2> QED BY <1>2, <2>1, Sizes, SquareOrder
<1>5. w * w <= 4 * (Modulus + n)
  BY <1>1, <1>2, Sizes DEF IsRoot
<1>6. 4 * (Modulus + n) < (w + 2) * (w + 2)
  <2>1. (w + 2) * (w + 2) = (w + 1) * (w + 1) + 2 * w + 3
    BY <1>2
  <2>2. 4 * (Modulus + n) < 4 * (Modulus + p) + 4 * Lost
    BY <1>1, Sizes, PrecisionAssumption
  <2>3. 4 * Lost <= 2 * w
    BY <1>2, <1>3, Sizes, PrecisionAssumption
  <2> QED BY <1>1, <1>2, <2>1, <2>2, <2>3, Sizes, PrecisionAssumption DEF IsRoot
<1> QED BY <1>2, <1>3, <1>4, <1>5, <1>6 DEF w

(* Whether the next larger result fits is seen from the product of the two *)
(* halves of the result.                                                   *)
LEMMA Halves ==
  ASSUME NEW w \in Nat, NEW m \in Nat
  PROVE  LET t == w \div 2
             x == t * (w - t + 1)
         IN  /\ x \in Nat
             /\ 4 * x + 1 <= (w + 1) * (w + 1)
             /\ x < m <=> (w + 1) * (w + 1) <= 4 * m
<1> DEFINE t == w \div 2
           x == t * (w - t + 1)
<1>1. t \in Nat /\ (w = 2 * t \/ w = 2 * t + 1)
  OBVIOUS
<1> HIDE DEF t
<1>2. CASE w = 2 * t
  <2>1. x = t * t + t /\ (w + 1) * (w + 1) = 4 * (t * t) + 4 * t + 1 /\ t * t \in Nat
    BY <1>1, <1>2
  <2>2. x \in Nat /\ (w + 1) * (w + 1) = 4 * x + 1
    BY <1>1, <2>1
  <2> HIDE DEF x
  <2>3. x < m <=> (w + 1) * (w + 1) <= 4 * m
    BY <2>2
  <2> QED BY <2>2, <2>3 DEF x, t
<1>3. CASE w = 2 * t + 1
  <2>1. x = t * t + 2 * t /\ (w + 1) * (w + 1) = 4 * (t * t) + 8 * t + 4 /\ t * t \in Nat
    BY <1>1, <1>3
  <2>2. x \in Nat /\ (w + 1) * (w + 1) = 4 * x + 4
    BY <1>1, <2>1
  <2> HIDE DEF x
  <2>3. x < m <=> (w + 1) * (w + 1) <= 4 * m
    BY <2>2
  <2> QED BY <2>2, <2>3 DEF x, t
<1> QED BY <1>1, <1>2, <1>3

(* Cutting one bit more halves what was cut. *)
LEMMA CutTwice ==
  ASSUME NEW k \in Nat
  PROVE  CutToHalf(k) = Cut(k) \div 2
<1> DEFINE w == k \div Spare
           t == w \div 2
<1>1. w \in Nat /\ Spare * w <= k /\ k < Spare * w + Spare
  BY Division, PrecisionAssumption
<1> HIDE DEF w
<1>2. t \in Nat /\ 2 * t <= w /\ w + 1 <= 2 * t + 2
  BY <1>1
<1> HIDE DEF t
<1>3. Spare * (2 * t) <= Spare * w /\ Spare * (w + 1) <= Spare * (2 * t + 2)
  BY <1>1, <1>2, ProductOrder, PrecisionAssumption
<1>4. /\ Spare * (2 * t) = (2 * Spare) * t
      /\ Spare * (2 * t + 2) = (2 * Spare) * t + 2 * Spare
      /\ Spare * (w + 1) = Spare * w + Spare
  BY <1>1, <1>2, PrecisionAssumption
<1>5. (2 * Spare) * t <= k /\ k < (2 * Spare) * t + 2 * Spare
  <2>1. Spare * w \in Nat /\ (2 * Spare) * t \in Nat
    BY <1>1, <1>2, PrecisionAssumption
  <2> QED BY <1>1, <1>3, <1>4, <2>1, PrecisionAssumption
<1>6. t = k \div (2 * Spare)
  BY <1>2, <1>5, DivisionUnique, PrecisionAssumption
<1> QED BY <1>6 DEF t, w, Cut, CutToHalf
-----------------------------------------------------------------------------
(* Far from the largest words the correction is right.                     *)
LEMMA CorrectedExact ==
  ASSUME NEW n \in Nat, n < Modulus, NEW k \in Nat, IsRoot(k, Converted(n) * One)
  PROVE  /\ n + 2 * Half <= Modulus => IsExact(Corrected(k, n), n)
         /\ IsExact(Corrected(k, n), n) \/ IsExact(Corrected(k, n) - 1, n)
<1> DEFINE w == Cut(k)
           t == CutToHalf(k)
           x == t * (w - t + 1)
           m == Modulus + n
<1>1. /\ w \in Nat /\ 2 * Half <= w /\ w < 3 * Half
      /\ w * w <= 4 * m /\ 4 * m < (w + 2) * (w + 2)
  BY Uncorrected
<1>2. m \in Nat /\ Modulus <= m /\ m < 2 * Modulus
  BY Sizes
<1>3. t = w \div 2
  BY CutTwice
<1>4. x \in Nat /\ 4 * x + 1 <= (w + 1) * (w + 1) /\ (x < m <=> (w + 1) * (w + 1) <= 4 * m)
  <2> HIDE DEF w, m
  <2> QED BY <1>1, <1>2, <1>3, Halves
<1>5. Corrected(k, n) = w + (IF x % Modulus < n THEN 1 ELSE 0) - 2 * Half
  BY DEF Corrected, Square
<1>6. \A r \in Int : IsExact(r, n) <=> IsRoot(2 * Half + r, 4 * m)
  BY DEF IsExact
<1>7. Modulus <= x
  <2>1. Half <= t /\ t \in Nat /\ w - t + 1 \in Nat /\ Half <= w - t + 1
    <3> HIDE DEF w, t
    <3> QED BY <1>1, <1>3, Sizes
  <2> HIDE DEF w, t
  <2> QED BY <2>1, ProductOrder, Sizes DEF Modulus
<1>8. 4 * x <= 4 * m + 2 * w
  <2>1. (w + 1) * (w + 1) = w * w + 2 * w + 1
    BY <1>1
  <2> HIDE DEF w, x, m
  <2> QED BY <1>1, <1>2, <1>4, <2>1
<1>9. IF x < m THEN IsRoot(w + 1, 4 * m) ELSE IsRoot(w, 4 * m)
  BY <1>1, <1>2, <1>4 DEF IsRoot
<1>10. m = Modulus + n
  OBVIOUS
<1>11. x < 2 * Modulus => (x % Modulus < n <=> x < m)
  <2> HIDE DEF x, m
  <2> HAVE x < 2 * Modulus
  <2>1. x % Modulus = x - Modulus
    <3>1. x \in Nat /\ Modulus \in Nat \ {0}
      BY <1>4, Sizes
    <3> QED BY <1>7, <3>1, Remainder
  <2> QED BY <1>4, <1>10, <2>1, Sizes
<1>12. 2 * Modulus <= x => x % Modulus < n
  <2> HIDE DEF w, x, m
  <2> HAVE 2 * Modulus <= x
  <2>1. x < m + 2 * Half
    BY <1>1, <1>2, <1>4, <1>8, Sizes
  <2>2. x < 3 * Modulus
    BY <1>2, <1>4, <2>1, Sizes
  <2>3. x % Modulus = x - 2 * Modulus
    <3>1. x \in Nat /\ Modulus \in Nat \ {0}
      BY <1>4, Sizes
    <3> QED BY <2>2, <3>1, Remainder
  <2> QED BY <1>4, <1>10, <2>1, <2>3, Sizes
<1> HIDE DEF w, t, x, m
<1>13. n + 2 * Half <= Modulus => x < 2 * Modulus
  BY <1>1, <1>4, <1>8, <1>10, Sizes
<1>14. x < 2 * Modulus => IsExact(Corrected(k, n), n)
  <2> HAVE x < 2 * Modulus
  <2>1. Corrected(k, n) = (IF x < m THEN w + 1 ELSE w) - 2 * Half
    BY <1>1, <1>5, <1>11, Sizes
  <2> QED BY <1>1, <1>6, <1>9, <2>1, Sizes
<1>15. 2 * Modulus <= x => IsExact(Corrected(k, n) - 1, n)
  <2> HAVE 2 * Modulus <= x
  <2>1. Corrected(k, n) = w + 1 - 2 * Half
    BY <1>1, <1>5, <1>12, Sizes
  <2>2. ~ x < m
    BY <1>2, <1>4, Sizes
  <2> QED BY <1>1, <1>6, <1>9, <2>1, <2>2, Sizes
<1> QED BY <1>4, <1>13, <1>14, <1>15, Sizes

(* There is a square root for the hardware to find. *)
LEMMA RootExists ==
  ASSUME NEW n \in Nat, n < Modulus
  PROVE  \E k \in One..(2 * One) : IsRoot(k, Converted(n) * One)
<1> DEFINE x == Converted(n)
           m == x * One
           T == {k \in Nat : m < (k + 1) * (k + 1)}
<1>1. x \in Nat /\ One <= x /\ x < 2 * One
  <2>1. n \div Lost \in Nat /\ Lost * (n \div Lost) <= n
    BY Division, PrecisionAssumption
  <2>2. Lost * One = Modulus
    BY PrecisionAssumption DEF One, Modulus, Half
  <2>3. n \div Lost < One
    <3> DEFINE q == n \div Lost
    <3> HIDE DEF q
    <3>1. q \in Nat /\ Lost * q < Lost * One
      <4>1. q \in Nat /\ Lost * q <= n
        BY <2>1 DEF q
      <4>2. Lost * q \in Nat
        BY <4>1, PrecisionAssumption
      <4> QED BY <2>2, <4>1, <4>2, Sizes
    <3>2. q < One
      BY <3>1, Cancel, Sizes, PrecisionAssumption
    <3> QED BY <3>2 DEF q
  <2> QED BY <2>1, <2>3, Sizes DEF Converted
<1> HIDE DEF x
<1>2. m \in Nat /\ One * One <= m /\ m < (2 * One) * One
  BY <1>1, Sizes, ProductOrder
<1> HIDE DEF m
<1>3. 2 * One \in T
  <2>1. (2 * One) * One <= (2 * One + 1) * (2 * One + 1)
    BY Sizes, ProductOrder
  <2> QED BY <1>2, <2>1, Sizes
<1>4. PICK k \in T : \A y \in T : k <= y
  BY <1>3, LeastElement
<1>5. k \in Nat /\ m < (k + 1) * (k + 1) /\ k <= 2 * One
  BY <1>3, <1>4
<1>6. k * k <= m
  <2>1. CASE k = 0
    BY <1>2, <2>1
  <2>2. CASE k # 0
    <3>1. k - 1 \in Nat /\ k - 1 \notin T
      BY <1>4, <1>5, <2>2
    <3>2. ~ m < ((k - 1) + 1) * ((k - 1) + 1)
      BY <3>1
    <3> QED BY <1>2, <1>5, <3>2
  <2> QED BY <2>1, <2>2
<1>7. One <= k
  <2>1. One * One < (k + 1) * (k + 1)
    BY <1>2, <1>5, Sizes
  <2>2. One < k + 1
    BY <1>5, <2>1, SquareOrder, Sizes
  <2> QED BY <1>5, <2>2, Sizes
<1> QED BY <1>5, <1>6, <1>7, Sizes DEF IsRoot, m, x

(* The integer square root of the hash (cryptonight_aesni.h:427-448) is    *)
(* never too small, and exact unless n is one of the largest words.        *)
THEOREM SqrtExactBelow ==
  \A n \in 0..(Modulus - 1) :
    /\ n + 2 * Half <= Modulus => IsExact(int_sqrt33_1(n, "down"), n)
    /\ IsExact(int_sqrt33_1(n, "down"), n) \/ IsExact(int_sqrt33_1(n, "down") - 1, n)
<1> TAKE n \in 0..(Modulus - 1)
<1>1. n \in Nat /\ n < Modulus
  BY Sizes
<1> DEFINE k == SqrtSd(Converted(n), "down")
<1>2. k \in One..(2 * One) /\ IsRoot(k, Converted(n) * One)
  BY <1>1, RootExists DEF SqrtSd
<1>3. k \in Nat
  BY <1>2, Sizes
<1> HIDE DEF k
<1>4. /\ n + 2 * Half <= Modulus => IsExact(Corrected(k, n), n)
      /\ IsExact(Corrected(k, n), n) \/ IsExact(Corrected(k, n) - 1, n)
  BY <1>1, <1>2, <1>3, CorrectedExact
<1> QED BY <1>4 DEF int_sqrt33_1, k
-----------------------------------------------------------------------------
(* The first bit of the divisor is set (cryptonight_aesni.h:591). *)
LEMMA DivisorRange ==
  ASSUME NEW cx \in Nat, NEW root \in Nat
  PROVE  /\ Divisor(cx, root) \in Nat
         /\ (Half \div 2) + 1 <= Divisor(cx, root)
         /\ Divisor(cx, root) < Half
<1> DEFINE h == Half \div 2
           y == (cx + 2 * root) % h
           x == h + y
           b == x % 2
<1>1. h \in Nat \ {0} /\ Half = 2 * h /\ h % 2 = 0
  <2>1. Half = 2 * (Spare * Lost) /\ Spare * Lost \in Nat \ {0}
    BY PrecisionAssumption DEF Half
  <2> QED BY <2>1, EvenAssumption
<1>2. y \in 0..(h - 1)
  BY <1>1
<1>3. Divisor(cx, root) = (x + 1) - b
  BY DEF Divisor
<1> HIDE DEF h, y
<1>4. x \in Nat /\ x >= h /\ x < 2 * h
  BY <1>1, <1>2
<1> HIDE DEF x
<1>5. b \in 0..1 /\ (b = 0 => x + 1 < 2 * h) /\ (b = 1 => x # h)
  BY <1>1, <1>4
<1> HIDE DEF b
<1> QED BY <1>1, <1>3, <1>4, <1>5 DEF h

(* The quotient of CN_MONERO_V8_DIV has at most one bit more than fits     *)
(* beside the remainder, and the other bits and the remainder are kept     *)
(* (the comment at cryptonight_aesni.h:583-588 and the cast below it).     *)
THEOREM DivisionPacks ==
  ASSUME NEW a \in Words, NEW cx \in Nat, NEW root \in Nat
  PROVE  LET d == Divisor(cx, root)
         IN  /\ a \div d < 2 * Half
             /\ Half > 4 => a \div d <= 2 * Half - 4
             /\ Divided(a, d) \div Half = a % d
             /\ Divided(a, d) % Half = (a \div d) % Half
<1> DEFINE d == Divisor(cx, root)
           h == Half \div 2
           q == a \div d
           r == a % d
           low == q % Half
<1>1. h \in Nat /\ h > 0 /\ Half = 2 * h
  <2>1. Half = 2 * (Spare * Lost) /\ Spare * Lost \in Nat \ {0}
    BY PrecisionAssumption DEF Half
  <2> QED BY <2>1
<1>2. d \in Nat \ {0} /\ h + 1 <= d /\ d < Half
  <2>1. d \in Nat /\ h + 1 <= d /\ d < Half
    BY DivisorRange
  <2> HIDE DEF d, h
  <2> QED BY <1>1, <2>1
<1>3. a \in Nat /\ a < 4 * (h * h)
  <2>1. Modulus = 4 * (h * h)
    BY <1>1 DEF Modulus
  <2> QED BY <2>1, Sizes DEF Words
<1> HIDE DEF d, h
<1>4. q \in Nat /\ d * q <= a /\ r \in Nat /\ r < d
  BY <1>2, <1>3, Division
<1> HIDE DEF q, r
<1>5. (h + 1) * q < 4 * (h * h)
  <2>1. (h + 1) * q <= d * q
    BY <1>1, <1>2, <1>4, ProductOrder
  <2>2. (h + 1) * q \in Nat /\ d * q \in Nat /\ h * h \in Nat
    BY <1>1, <1>2, <1>4
  <2> QED BY <1>3, <1>4, <2>1, <2>2
<1>6. q < 2 * Half
  <2>1. (h + 1) * q < (h + 1) * (4 * h)
    BY <1>1, <1>4, <1>5
  <2>2. q < 4 * h
    BY <1>1, <1>4, <2>1, Cancel
  <2> QED BY <1>1, <2>2
<1>7. Half > 4 => q <= 2 * Half - 4
  <2> HAVE Half > 4
  <2>1. (h + 1) * (4 * h - 3) = 4 * (h * h) + h - 3
    BY <1>1
  <2>2. (h + 1) * q < (h + 1) * (4 * h - 3)
    BY <1>1, <1>4, <1>5, <2>1
  <2>3. q < 4 * h - 3
    BY <1>1, <1>4, <2>2, Cancel
  <2> QED BY <1>1, <1>4, <2>3
<1>8. low \in Nat /\ low < Half
  BY <1>1, <1>4
<1> HIDE DEF low
<1>9. low + r * Half \in Nat /\ low + r * Half < Modulus
  <2>1. (r + 1) * Half <= Half * Half
    BY <1>1, <1>2, <1>4, ProductOrder
  <2>2. (r + 1) * Half = r * Half + Half /\ r * Half \in Nat
    BY <1>1, <1>4
  <2> QED BY <1>1, <1>8, <2>1, <2>2 DEF Modulus
<1>10. Divided(a, d) = low + r * Half
  <2>1. Divided(a, d) = (low + r * Half) % Modulus
    BY DEF Divided, low, q, r
  <2> QED BY <1>9, <2>1, Sizes
<1>11. (low + r * Half) \div Half = r
  <2>1. r * Half = Half * r
    BY <1>1, <1>4
  <2> QED BY <1>1, <1>4, <1>8, <1>9, <2>1, DivisionUnique
<1>12. (low + r * Half) % Half = low
  <2> DEFINE v == low + r * Half
  <2>1. v \in Nat /\ v \div Half = r
    BY <1>9, <1>11
  <2>2. v = low + Half * r
    BY <1>1, <1>4, <1>8
  <2> HIDE DEF v
  <2>3. v = Half * (v \div Half) + (v % Half)
    <3>1. Half \in Nat \ {0}
      BY <1>1
    <3> QED BY <2>1, <3>1, DivMod
  <2> QED BY <1>1, <1>4, <1>8, <2>1, <2>2, <2>3 DEF v
<1> QED BY <1>6, <1>7, <1>10, <1>11, <1>12 DEF d, q, r, low
-----------------------------------------------------------------------------
(* Words: the exclusive or and its bits. *)

(* A half word has two bits at least, a word four.                         *)
LEMMA WordSizes ==
  /\ Half \in Nat /\ Half >= 4
  /\ Modulus \in Nat /\ Modulus = Half * Half /\ Modulus >= 16
  /\ Dwords \subseteq Words
<1>1. Spare * Lost \in Nat /\ Spare * Lost >= 2
  <2>1. Spare * Lost \in Nat /\ Spare * Lost >= 1
    BY PrecisionAssumption
  <2> QED BY <2>1, EvenAssumption
<1>2. Half \in Nat /\ Half >= 4
  <2>1. Half = 2 * (Spare * Lost)
    BY PrecisionAssumption DEF Half
  <2> QED BY <1>1, <2>1
<1>3. Modulus \in Nat /\ Modulus >= 4 * Half /\ Modulus = Half * Half
  BY <1>2 DEF Modulus
<1> QED BY <1>2, <1>3 DEF Dwords, Words

(* What the table of the exclusive or holds.                               *)
IsXor(f, n) ==
  f = [a \in 0..n |-> [b \in Words |-> IF a = 0 THEN b ELSE 2 * f[a \div 2][b \div 2] + ((a + b) % 2)]]

(* There is a table of the exclusive or. *)
LEMMA XorExists == \E f : IsXor(f, Modulus - 1)
<1> DEFINE S == {n \in 0..(Modulus - 1) : \E f : IsXor(f, n)}
<1>0. Modulus - 1 \in Nat
  BY WordSizes
<1>1. 0 \in S
  <2> DEFINE f == [a \in 0..0 |-> [b \in Words |-> b]]
  <2>1. IsXor(f, 0)
    BY DEF IsXor
  <2> QED BY <1>0, <2>1
<1>2. ASSUME NEW n \in 1..(Modulus - 1), n - 1 \in S PROVE n \in S
  <2>1. PICK f : IsXor(f, n - 1)
    BY <1>2
  <2> DEFINE row(a) == [b \in Words |-> IF a = 0 THEN b ELSE 2 * f[a \div 2][b \div 2] + ((a + b) % 2)]
             F == [a \in 0..n |-> row(a)]
  <2>2. \A a \in 0..(n - 1) : f[a] = row(a)
    BY <2>1 DEF IsXor
  <2>3. \A a \in 0..n : a # 0 => a \div 2 \in 0..(n - 1)
    BY <1>0
  <2>4. \A a \in 0..n : a # 0 => F[a \div 2] = f[a \div 2]
    <3> HIDE DEF row
    <3> QED BY <2>2, <2>3
  <2>5. F = [a \in 0..n |-> [b \in Words |-> IF a = 0 THEN b ELSE 2 * F[a \div 2][b \div 2] + ((a + b) % 2)]]
    <3> DEFINE row2(a) == [b \in Words |-> IF a = 0 THEN b ELSE 2 * F[a \div 2][b \div 2] + ((a + b) % 2)]
    <3>1. \A a \in 0..n : row(a) = row2(a)
      <4> TAKE a \in 0..n
      <4> HIDE DEF F
      <4>1. CASE a = 0
        BY <4>1
      <4>2. CASE a # 0
        BY <2>4, <4>2
      <4> QED BY <4>1, <4>2
    <3> HIDE DEF row, row2
    <3>2. F = [a \in 0..n |-> row2(a)]
      BY <3>1
    <3> QED BY <3>2 DEF row2
  <2> HIDE DEF F
  <2>6. IsXor(F, n)
    BY <2>5 DEF IsXor
  <2> QED BY <2>6
<1> HIDE DEF S
<1>3. \A k \in 0..(Modulus - 1) : k \in S
  BY <1>0, <1>1, <1>2, Induction
<1>4. Modulus - 1 \in S
  BY <1>0, <1>3
<1> QED BY <1>4 DEF S

(* The exclusive or, bit by bit.                                           *)
LEMMA XorSteps ==
  ASSUME NEW a \in Words, NEW b \in Words
  PROVE  XorWord(a, b) = IF a = 0 THEN b ELSE 2 * XorWord(a \div 2, b \div 2) + ((a + b) % 2)
<1>1. IsXor(XorTable, Modulus - 1)
  BY XorExists DEF IsXor, XorTable, Words
<1>2. XorTable[a] = [v \in Words |-> IF a = 0 THEN v ELSE 2 * XorTable[a \div 2][v \div 2] + ((a + v) % 2)]
  <2>1. a \in 0..(Modulus - 1)
    BY DEF Words
  <2> DEFINE row(u) == [v \in Words |-> IF u = 0 THEN v ELSE 2 * XorTable[u \div 2][v \div 2] + ((u + v) % 2)]
  <2>2. XorTable = [u \in 0..(Modulus - 1) |-> row(u)]
    BY <1>1 DEF IsXor
  <2> HIDE DEF row
  <2>3. XorTable[a] = row(a)
    BY <2>1, <2>2
  <2> QED BY <2>3 DEF row
<1> QED BY <1>2 DEF XorWord

(* A word without its last bit, and the bit.                               *)
LEMMA Bits ==
  ASSUME NEW a \in Words
  PROVE  /\ a \in Nat /\ a \div 2 \in Words /\ a % 2 \in 0..1 /\ a = 2 * (a \div 2) + (a % 2)
         /\ a # 0 => a \div 2 < a
BY WordSizes DEF Words

(* An exclusive or is as wide as what it is of. *)
LEMMA XorType ==
  /\ \A a \in Words, b \in Words : XorWord(a, b) \in Words
  /\ \A a \in Dwords, b \in Dwords : XorWord(a, b) \in Dwords
BY BitsAssumption

(* Zero changes nothing.                                                   *)
LEMMA XorZero ==
  ASSUME NEW a \in Words
  PROVE  XorWord(0, a) = a /\ XorWord(a, 0) = a
<1>0. 0 \in Words
  BY WordSizes DEF Words
<1>1. \A b \in Words : XorWord(0, b) = b
  BY <1>0, XorSteps
<1> DEFINE S == {n \in 0..(Modulus - 1) : \A b \in Words : b <= n => XorWord(b, 0) = b}
<1>2. 0 \in S
  <2>1. \A b \in Words : b <= 0 => b = 0
    BY WordSizes DEF Words
  <2> QED BY <1>0, <1>1, <2>1 DEF Words
<1>3. ASSUME NEW n \in 1..(Modulus - 1), n - 1 \in S PROVE n \in S
  <2>1. ASSUME NEW b \in Words, b <= n PROVE XorWord(b, 0) = b
    <3>1. CASE b = 0
      BY <1>1, <3>1
    <3>2. CASE b # 0
      <4>1. XorWord(b, 0) = 2 * XorWord(b \div 2, 0 \div 2) + ((b + 0) % 2)
        BY <1>0, <3>2, XorSteps
      <4>2. b \div 2 \in Words /\ b \div 2 <= n - 1 /\ b = 2 * (b \div 2) + (b % 2) /\ b \in Nat
        BY <2>1, <3>2, Bits
      <4>3. XorWord(b \div 2, 0) = b \div 2
        BY <1>3, <4>2
      <4>4. 0 \div 2 = 0 /\ b + 0 = b
        BY <4>2
      <4> QED BY <4>1, <4>2, <4>3, <4>4
    <3> QED BY <3>1, <3>2
  <2> QED BY <2>1
<1> HIDE DEF S
<1>4. \A k \in 0..(Modulus - 1) : k \in S
  <2>1. Modulus - 1 \in Nat
    BY WordSizes
  <2> QED BY <1>2, <1>3, <2>1, Induction
<1>5. a \in 0..(Modulus - 1) /\ a <= a
  BY WordSizes DEF Words
<1>6. XorWord(a, 0) = a
  BY <1>4, <1>5 DEF S
<1> QED BY <1>1, <1>6

(* The bits of an exclusive or.                                            *)
LEMMA XorBits ==
  ASSUME NEW a \in Words, NEW b \in Words
  PROVE  /\ XorWord(a, b) = 2 * XorWord(a \div 2, b \div 2) + ((a + b) % 2)
         /\ XorWord(a, b) \div 2 = XorWord(a \div 2, b \div 2)
         /\ XorWord(a, b) % 2 = (a + b) % 2
<1>1. a \div 2 \in Words /\ b \div 2 \in Words /\ a \in Nat /\ b \in Nat /\ b = 2 * (b \div 2) + (b % 2)
  BY Bits
<1>2. XorWord(a, b) = 2 * XorWord(a \div 2, b \div 2) + ((a + b) % 2)
  <2>1. CASE a # 0
    BY <2>1, XorSteps
  <2>2. CASE a = 0
    <3>1. XorWord(a, b) = b /\ a \div 2 = 0 /\ XorWord(0, b \div 2) = b \div 2 /\ a + b = b
      BY <1>1, <2>2, XorZero
    <3> QED BY <1>1, <3>1
  <2> QED BY <2>1, <2>2
<1> DEFINE x == XorWord(a \div 2, b \div 2)
           y == (a + b) % 2
           z == XorWord(a, b)
<1>3. x \in Nat /\ y \in 0..1 /\ z = 2 * x + y
  <2>1. x \in Words
    BY <1>1, XorType
  <2> QED BY <1>1, <1>2, <2>1 DEF Words
<1> HIDE DEF x, y, z
<1>4. z \div 2 = x /\ z % 2 = y
  BY <1>3
<1> QED BY <1>2, <1>4 DEF x, y, z

(* Parities add.                                                           *)
LEMMA Parity ==
  ASSUME NEW a \in Nat, NEW b \in Nat, NEW d \in Nat, NEW x \in Nat, NEW y \in Nat,
         x % 2 = (a + b) % 2, y % 2 = (b + d) % 2
  PROVE  (x + d) % 2 = (a + y) % 2
OBVIOUS

(* The exclusive or is associative.                                        *)
LEMMA XorAssociative ==
  ASSUME NEW a \in Words, NEW b \in Words, NEW d \in Words
  PROVE  XorWord(XorWord(a, b), d) = XorWord(a, XorWord(b, d))
<1> DEFINE Holds(u) == \A v \in Words, w \in Words : XorWord(XorWord(u, v), w) = XorWord(u, XorWord(v, w))
           S == {n \in 0..(Modulus - 1) : \A u \in Words : u <= n => Holds(u)}
<1>1. 0 \in S
  <2>1. \A u \in Words : u <= 0 => u = 0
    BY DEF Words
  <2>2. Holds(0)
    BY XorZero, XorType
  <2>3. 0 \in 0..(Modulus - 1)
    BY WordSizes
  <2> HIDE DEF Holds
  <2> QED BY <2>1, <2>2, <2>3
<1>2. ASSUME NEW n \in 1..(Modulus - 1), n - 1 \in S PROVE n \in S
  <2>1. ASSUME NEW u \in Words, u <= n PROVE Holds(u)
    <3>1. CASE u = 0
      BY <3>1, XorZero, XorType
    <3>2. CASE u # 0
      <4> SUFFICES ASSUME NEW v \in Words, NEW w \in Words
                   PROVE  XorWord(XorWord(u, v), w) = XorWord(u, XorWord(v, w))
        OBVIOUS
      <4>1. u \div 2 \in Words /\ u \div 2 <= n - 1 /\ v \div 2 \in Words /\ w \div 2 \in Words
        BY <2>1, <3>2, Bits
      <4>2. XorWord(XorWord(u \div 2, v \div 2), w \div 2) = XorWord(u \div 2, XorWord(v \div 2, w \div 2))
        <5>1. Holds(u \div 2)
          <6> HIDE DEF Holds
          <6> QED BY <1>2, <4>1
        <5> QED BY <4>1, <5>1
      <4> DEFINE x == XorWord(u, v)
                 y == XorWord(v, w)
      <4>3. x \in Words /\ y \in Words
        BY XorType
      <4>4. x \div 2 = XorWord(u \div 2, v \div 2) /\ y \div 2 = XorWord(v \div 2, w \div 2)
            /\ x % 2 = (u + v) % 2 /\ y % 2 = (v + w) % 2
        BY XorBits
      <4> HIDE DEF x, y
      <4>5. (x + w) % 2 = (u + y) % 2
        BY <4>3, <4>4, Parity DEF Words
      <4>6. XorWord(x, w) = 2 * XorWord(x \div 2, w \div 2) + ((x + w) % 2)
        BY <4>3, XorBits
      <4>7. XorWord(u, y) = 2 * XorWord(u \div 2, y \div 2) + ((u + y) % 2)
        BY <4>3, XorBits
      <4> QED BY <4>2, <4>4, <4>5, <4>6, <4>7 DEF x, y
    <3> QED BY <3>1, <3>2
  <2> HIDE DEF Holds
  <2> QED BY <2>1
<1> HIDE DEF S
<1>3. \A k \in 0..(Modulus - 1) : k \in S
  <2>1. Modulus - 1 \in Nat
    BY WordSizes
  <2> QED BY <1>1, <1>2, <2>1, Induction
<1>4. a \in 0..(Modulus - 1) /\ a <= a
  BY WordSizes DEF Words
<1>5. Holds(a)
  BY <1>3, <1>4 DEF S
<1> QED BY <1>5

(* A block in the same line, at a distance.                                *)
LEMMA NearSmall ==
  /\ XorWord(0, 1) = 1 /\ XorWord(0, 2) = 2 /\ XorWord(0, 3) = 3
  /\ XorWord(1, 1) = 0 /\ XorWord(1, 2) = 3 /\ XorWord(1, 3) = 2
  /\ XorWord(2, 1) = 3 /\ XorWord(2, 2) = 0 /\ XorWord(2, 3) = 1
  /\ XorWord(3, 1) = 2 /\ XorWord(3, 2) = 1 /\ XorWord(3, 3) = 0
<1>1. 0 \in Words /\ 1 \in Words /\ 2 \in Words /\ 3 \in Words
  BY WordSizes DEF Words
<1>2. XorWord(0, 0) = 0 /\ XorWord(0, 1) = 1 /\ XorWord(0, 2) = 2 /\ XorWord(0, 3) = 3 /\ XorWord(1, 0) = 1
  BY <1>1, XorZero
<1>3. 1 \div 2 = 0 /\ 2 \div 2 = 1 /\ 3 \div 2 = 1 /\ (1 + 1) % 2 = 0 /\ (1 + 2) % 2 = 1 /\ (1 + 3) % 2 = 0
      /\ (2 + 1) % 2 = 1 /\ (2 + 2) % 2 = 0 /\ (2 + 3) % 2 = 1 /\ (3 + 1) % 2 = 0 /\ (3 + 2) % 2 = 1 /\ (3 + 3) % 2 = 0
  OBVIOUS
<1>4. XorWord(1, 1) = 0 /\ XorWord(1, 2) = 3 /\ XorWord(1, 3) = 2
  <2>1. /\ XorWord(1, 1) = 2 * XorWord(1 \div 2, 1 \div 2) + ((1 + 1) % 2)
        /\ XorWord(1, 2) = 2 * XorWord(1 \div 2, 2 \div 2) + ((1 + 2) % 2)
        /\ XorWord(1, 3) = 2 * XorWord(1 \div 2, 3 \div 2) + ((1 + 3) % 2)
    BY <1>1, XorBits
  <2> QED BY <1>2, <1>3, <2>1
<1>5. XorWord(2, 1) = 3 /\ XorWord(2, 2) = 0 /\ XorWord(2, 3) = 1
  <2>1. /\ XorWord(2, 1) = 2 * XorWord(2 \div 2, 1 \div 2) + ((2 + 1) % 2)
        /\ XorWord(2, 2) = 2 * XorWord(2 \div 2, 2 \div 2) + ((2 + 2) % 2)
        /\ XorWord(2, 3) = 2 * XorWord(2 \div 2, 3 \div 2) + ((2 + 3) % 2)
    BY <1>1, XorBits
  <2> QED BY <1>2, <1>3, <1>4, <2>1
<1>6. XorWord(3, 1) = 2 /\ XorWord(3, 2) = 1 /\ XorWord(3, 3) = 0
  <2>1. /\ XorWord(3, 1) = 2 * XorWord(3 \div 2, 1 \div 2) + ((3 + 1) % 2)
        /\ XorWord(3, 2) = 2 * XorWord(3 \div 2, 2 \div 2) + ((3 + 2) % 2)
        /\ XorWord(3, 3) = 2 * XorWord(3 \div 2, 3 \div 2) + ((3 + 3) % 2)
    BY <1>1, XorBits
  <2> QED BY <1>2, <1>3, <1>4, <2>1
<1> QED BY <1>2, <1>4, <1>5, <1>6

(* The other three blocks of a line are in the pad, and are three. *)
LEMMA NearPad ==
  ASSUME NEW j \in Pad
  PROVE  /\ Near(j, 1) \in Pad /\ Near(j, 2) \in Pad /\ Near(j, 3) \in Pad
         /\ Near(j, 1) # j /\ Near(j, 2) # j /\ Near(j, 3) # j
         /\ Near(j, 1) # Near(j, 2) /\ Near(j, 1) # Near(j, 3) /\ Near(j, 2) # Near(j, 3)
<1> DEFINE q == j \div 4
           r == j % 4
<1>1. j \in Nat /\ j < Blocks /\ Blocks % 4 = 0 /\ Blocks \in Nat
  BY ScratchpadAssumption DEF Pad
<1>2. q \in Nat /\ r \in {0, 1, 2, 3} /\ j = 4 * q + r
  BY <1>1
<1> HIDE DEF q, r
<1>3. 4 * q + 3 < Blocks
  BY <1>1, <1>2
<1>4. Near(j, 1) = 4 * q + XorWord(r, 1) /\ Near(j, 2) = 4 * q + XorWord(r, 2) /\ Near(j, 3) = 4 * q + XorWord(r, 3)
  BY DEF Near, q, r
<1>5. /\ r = 0 => XorWord(r, 1) = 1 /\ XorWord(r, 2) = 2 /\ XorWord(r, 3) = 3
      /\ r = 1 => XorWord(r, 1) = 0 /\ XorWord(r, 2) = 3 /\ XorWord(r, 3) = 2
      /\ r = 2 => XorWord(r, 1) = 3 /\ XorWord(r, 2) = 0 /\ XorWord(r, 3) = 1
      /\ r = 3 => XorWord(r, 1) = 2 /\ XorWord(r, 2) = 1 /\ XorWord(r, 3) = 0
  BY NearSmall
<1>6. Pad = 0..(Blocks - 1)
  BY DEF Pad
<1> QED BY <1>1, <1>2, <1>3, <1>4, <1>5, <1>6
-----------------------------------------------------------------------------
(* Blocks and the key schedule. *)

DwordBlock == Dwords \X Dwords \X Dwords \X Dwords

(* Blocks are pairs of words.                                              *)
LEMMA BlockFacts ==
  ASSUME NEW x \in Block, NEW y \in Block
  PROVE  /\ x = <<x[1], x[2]>> /\ x[1] \in Words /\ x[2] \in Words
         /\ XorBlock(x, y) \in Block /\ AddBlock(x, y) \in Block /\ aesenc(x, y) \in Block
         /\ x[1] \in Nat /\ x[2] \in Nat
<1>1. x = <<x[1], x[2]>> /\ x[1] \in Words /\ x[2] \in Words /\ y[1] \in Words /\ y[2] \in Words
  BY DEF Block
<1>2. \A v \in Block : XorBlock(v, y) \in Block
  <2> TAKE v \in Block
  <2>1. v[1] \in Words /\ v[2] \in Words
    BY DEF Block
  <2> QED BY <1>1, <2>1, XorType DEF XorBlock, Block
<1>3. AddBlock(x, y) \in Block
  <2>1. \A v \in Words, w \in Words : Add(v, w) \in Words
    BY WordSizes DEF Add, Words
  <2> QED BY <1>1, <2>1 DEF AddBlock, Block
<1>4. aesenc(x, y) \in Block
  BY <1>2, AesAssumption DEF aesenc
<1> QED BY <1>1, <1>2, <1>3, <1>4 DEF Words

(* A half word above another is a word.                                    *)
LEMMA Packed ==
  ASSUME NEW a \in Dwords, NEW b \in Dwords
  PROVE  a + Half * b \in Words
<1>1. a \in Nat /\ b \in Nat /\ a <= Half - 1 /\ b <= Half - 1 /\ Half \in Nat
  BY WordSizes DEF Dwords
<1>2. Half * b <= Half * (Half - 1)
  BY <1>1
<1>3. Half * (Half - 1) = Half * Half - Half
  BY <1>1
<1> QED BY <1>1, <1>2, <1>3, WordSizes DEF Words

(* A word is two half words. *)
LEMMA Unpacked ==
  ASSUME NEW a \in Words
  PROVE  a % Half \in Dwords /\ a \div Half \in Dwords
<1>1. a \in Nat /\ a < Half * Half /\ Half \in Nat \ {0}
  BY WordSizes DEF Words
<1>2. a % Half \in Dwords
  BY <1>1 DEF Dwords
<1>3. a \div Half \in Nat /\ a \div Half < Half
  <2> DEFINE q == a \div Half
  <2>1. q \in Nat /\ Half * q <= a
    BY <1>1
  <2> HIDE DEF q
  <2>2. Half * q < Half * Half
    BY <1>1, <2>1
  <2>3. q < Half
    BY <1>1, <2>1, <2>2
  <2> QED BY <2>1, <2>3 DEF q
<1> QED BY <1>1, <1>2, <1>3 DEF Dwords

(* A block is four half words, and these are a block. *)
LEMMA DwordsType ==
  /\ \A x \in Block : ToDwords(x) \in DwordBlock
  /\ \A d \in DwordBlock : FromDwords(d) \in Block
  /\ \A d \in DwordBlock : d[1] \in Dwords /\ d[2] \in Dwords /\ d[3] \in Dwords /\ d[4] \in Dwords
<1>1. ASSUME NEW x \in Block PROVE ToDwords(x) \in DwordBlock
  <2>1. x[1] \in Words /\ x[2] \in Words
    BY DEF Block
  <2> QED BY <2>1, Unpacked DEF ToDwords, DwordBlock
<1>2. \A d \in DwordBlock : d[1] \in Dwords /\ d[2] \in Dwords /\ d[3] \in Dwords /\ d[4] \in Dwords
  BY DEF DwordBlock
<1>3. ASSUME NEW d \in DwordBlock PROVE FromDwords(d) \in Block
  <2>1. d[1] + Half * d[2] \in Words /\ d[3] + Half * d[4] \in Words
    BY <1>2, Packed
  <2> QED BY <2>1 DEF FromDwords, Block
<1> QED BY <1>1, <1>2, <1>3

(* The key schedule. *)
NextOf(f, r) ==
  NextKey(f[r - 2], IF r % 2 = 1 THEN XorWord(Rot[Sub[f[r - 1][4]]], Rcon[r \div 2]) ELSE Sub[f[r - 1][4]])
IsKey(f, n, k0, k1) == f = [r \in 1..n |-> IF r <= 2 THEN ToDwords(<<k0, k1>>[r]) ELSE NextOf(f, r)]

(* There are ten rows of half words as the key schedule asks for. *)
LEMMA KeyExists ==
  ASSUME NEW k0, NEW k1
  PROVE  \E f : IsKey(f, 10, k0, k1)
<1> DEFINE S == {n \in 0..10 : \E f : IsKey(f, n, k0, k1)}
<1>1. 0 \in S
  <2>1. IsKey([r \in 1..0 |-> 0], 0, k0, k1)
    BY DEF IsKey
  <2> QED BY <2>1
<1>2. ASSUME NEW n \in 1..10, n - 1 \in S PROVE n \in S
  <2>1. PICK f : IsKey(f, n - 1, k0, k1)
    BY <1>2
  <2> DEFINE row(g, r) == IF r <= 2 THEN ToDwords(<<k0, k1>>[r]) ELSE NextOf(g, r)
             F == [r \in 1..n |-> row(f, r)]
  <2>2. \A r \in 1..(n - 1) : f[r] = row(f, r)
    <3> HIDE DEF row
    <3>1. f = [r \in 1..(n - 1) |-> row(f, r)]
      BY <2>1 DEF IsKey, row
    <3> QED BY <3>1
  <2>3. \A r \in 1..(n - 1) : F[r] = f[r]
    <3> HIDE DEF row
    <3> QED BY <2>2
  <2>4. \A r \in 1..n : row(f, r) = row(F, r)
    <3> TAKE r \in 1..n
    <3> HIDE DEF F
    <3>1. CASE r <= 2
      BY <3>1
    <3>2. CASE r > 2
      <4>1. r - 2 \in 1..(n - 1) /\ r - 1 \in 1..(n - 1)
        BY <3>2
      <4>2. F[r - 2] = f[r - 2] /\ F[r - 1] = f[r - 1]
        BY <2>3, <4>1
      <4> QED BY <4>2 DEF NextOf
    <3> QED BY <3>1, <3>2
  <2>5. IsKey(F, n, k0, k1)
    <3> HIDE DEF row
    <3>1. F = [r \in 1..n |-> row(F, r)]
      BY <2>4
    <3> HIDE DEF F
    <3> QED BY <3>1 DEF IsKey, row
  <2> HIDE DEF F
  <2> QED BY <2>5
<1> HIDE DEF S
<1>3. \A k \in 0..10 : k \in S
  BY <1>1, <1>2, Induction
<1>4. 10 \in S
  BY <1>3
<1> QED BY <1>4 DEF S

(* The rows of the key schedule.                                           *)
IsRows(f, k0, k1) ==
  /\ f[1] = ToDwords(k0) /\ f[2] = ToDwords(k1)
  /\ \A r \in 3..10 : f[r] = NextOf(f, r)
  /\ KeySchedule(k0, k1) = [r \in 1..10 |-> FromDwords(f[r])]

(* The key schedule is made of such rows. *)
LEMMA KeyRows ==
  ASSUME NEW k0, NEW k1
  PROVE  \E f : IsRows(f, k0, k1)
<1> DEFINE f == CHOOSE f : IsKey(f, 10, k0, k1)
<1>1. IsKey(f, 10, k0, k1)
  BY KeyExists
<1>2. KeySchedule(k0, k1) = [r \in 1..10 |-> FromDwords(f[r])]
  BY Zenon DEF KeySchedule, f, IsKey, NextOf
<1> HIDE DEF f
<1>3. f[1] = ToDwords(k0) /\ f[2] = ToDwords(k1)
  <2>1. f[1] = ToDwords(<<k0, k1>>[1]) /\ f[2] = ToDwords(<<k0, k1>>[2])
    BY <1>1 DEF IsKey
  <2> QED BY <2>1
<1>4. ASSUME NEW r \in 3..10 PROVE f[r] = NextOf(f, r)
  BY <1>1 DEF IsKey
<1> QED BY <1>2, <1>3, <1>4 DEF IsRows

(* The constants of the key schedule are half words. *)
LEMMA RconType == \A p \in 1..4 : Rcon[p] \in Dwords
<1> TAKE p \in 1..4
<1>1. <<1, 2, 4, 8>>[p] \in Nat
  OBVIOUS
<1> DEFINE v == <<1, 2, 4, 8>>[p]
<1>2. Rcon[p] = v % Half
  BY DEF Rcon
<1>3. v \in Nat
  BY <1>1
<1> HIDE DEF v
<1> QED BY <1>2, <1>3, WordSizes DEF Dwords

(* The next row is a row. *)
LEMMA NextKeyType ==
  ASSUME NEW x \in DwordBlock, NEW w \in Dwords
  PROVE  NextKey(x, w) \in DwordBlock
<1>1. x[1] \in Dwords /\ x[2] \in Dwords /\ x[3] \in Dwords /\ x[4] \in Dwords
  BY DwordsType
<1> DEFINE w1 == XorWord(x[1], w)
           w2 == XorWord(x[2], w1)
           w3 == XorWord(x[3], w2)
           w4 == XorWord(x[4], w3)
<1>2. w1 \in Dwords
  BY <1>1, XorType
<1>3. w2 \in Dwords
  BY <1>1, <1>2, XorType
<1>4. w3 \in Dwords
  BY <1>1, <1>3, XorType
<1>5. w4 \in Dwords
  BY <1>1, <1>4, XorType
<1>6. NextKey(x, w) = <<w1, w2, w3, w4>>
  BY DEF NextKey
<1> HIDE DEF w1, w2, w3, w4
<1> QED BY <1>2, <1>3, <1>4, <1>5, <1>6 DEF DwordBlock

(* The word that enters a row. *)
LEMMA AssistType ==
  ASSUME NEW x \in DwordBlock
  PROVE  /\ Sub[x[4]] \in Dwords
         /\ \A p \in 1..4 : XorWord(Rot[Sub[x[4]]], Rcon[p]) \in Dwords
<1>1. Sub[x[4]] \in Dwords
  BY DwordsType, AesAssumption
<1>2. Rot[Sub[x[4]]] \in Dwords
  BY <1>1, AesAssumption
<1> QED BY <1>1, <1>2, RconType, XorType

(* Every row is four half words. *)
LEMMA RowsType ==
  ASSUME NEW k0 \in Block, NEW k1 \in Block, NEW f, IsRows(f, k0, k1)
  PROVE  \A r \in 1..10 : f[r] \in DwordBlock
<1> DEFINE S == {n \in 0..9 : f[n + 1] \in DwordBlock /\ (n = 0 \/ f[n] \in DwordBlock)}
<1>1. 0 \in S
  BY DwordsType DEF IsRows
<1>2. ASSUME NEW n \in 1..9, n - 1 \in S PROVE n \in S
  <2>1. f[n] \in DwordBlock
    BY <1>2
  <2>2. CASE n = 1
    BY <2>1, <2>2, DwordsType DEF IsRows
  <2>3. CASE n # 1
    <3> DEFINE r == n + 1
    <3>1. r \in 3..10 /\ r - 2 = n - 1 /\ r - 1 = n /\ (r % 2 = 1 => r \div 2 \in 1..4) /\ n - 1 # 0
      BY <2>3
    <3>2. f[r - 2] \in DwordBlock /\ f[r - 1] \in DwordBlock
      BY <1>2, <2>1, <3>1
    <3>3. f[r] = NextOf(f, r)
      BY <3>1 DEF IsRows
    <3> HIDE DEF r
    <3>4. (IF r % 2 = 1 THEN XorWord(Rot[Sub[f[r - 1][4]]], Rcon[r \div 2]) ELSE Sub[f[r - 1][4]]) \in Dwords
      BY <3>1, <3>2, AssistType
    <3>5. f[r] \in DwordBlock
      BY <3>2, <3>3, <3>4, NextKeyType DEF NextOf
    <3> QED BY <2>1, <3>5 DEF r
  <2> QED BY <2>2, <2>3
<1> HIDE DEF S
<1>3. \A k \in 0..9 : k \in S
  BY <1>1, <1>2, Induction
<1>4. ASSUME NEW r \in 1..10 PROVE f[r] \in DwordBlock
  <2>1. r - 1 \in 0..9 /\ (r - 1) + 1 = r
    OBVIOUS
  <2>2. r - 1 \in S
    BY <1>3, <2>1
  <2> QED BY <2>1, <2>2 DEF S
<1> QED BY <1>4

(* The key schedule is ten blocks. *)
LEMMA KeyType ==
  ASSUME NEW k0 \in Block, NEW k1 \in Block
  PROVE  KeySchedule(k0, k1) \in [1..10 -> Block]
<1>1. PICK f : IsRows(f, k0, k1)
  BY KeyRows
<1>2. \A r \in 1..10 : FromDwords(f[r]) \in Block
  BY <1>1, RowsType, DwordsType
<1> QED BY <1>1, <1>2 DEF IsRows

(* The shifts of sl_xor chain the words of a row.                          *)
LEMMA ShiftsChain ==
  ASSUME NEW x \in DwordBlock, NEW w \in Dwords
  PROVE  XorDwords(sl_xor(x), All(w)) = NextKey(x, w)
<1>1. x[1] \in Words /\ x[2] \in Words /\ x[3] \in Words /\ x[4] \in Words /\ w \in Words
  BY DwordsType, WordSizes
<1> DEFINE y == sl_xor(x)
<1>2. /\ slli(x)[1] = 0 /\ slli(x)[2] = x[1] /\ slli(x)[3] = x[2] /\ slli(x)[4] = x[3]
      /\ slli(slli(x))[1] = 0 /\ slli(slli(x))[2] = 0 /\ slli(slli(x))[3] = x[1] /\ slli(slli(x))[4] = x[2]
      /\ slli(slli(slli(x)))[1] = 0 /\ slli(slli(slli(x)))[2] = 0
      /\ slli(slli(slli(x)))[3] = 0 /\ slli(slli(slli(x)))[4] = x[1]
  BY DEF slli
<1>3. /\ y[1] = XorWord(XorWord(XorWord(x[1], 0), 0), 0)
      /\ y[2] = XorWord(XorWord(XorWord(x[2], x[1]), 0), 0)
      /\ y[3] = XorWord(XorWord(XorWord(x[3], x[2]), x[1]), 0)
      /\ y[4] = XorWord(XorWord(XorWord(x[4], x[3]), x[2]), x[1])
  BY <1>2 DEF sl_xor, XorDwords
<1>4. XorWord(x[2], x[1]) \in Words /\ XorWord(XorWord(x[3], x[2]), x[1]) \in Words
      /\ XorWord(x[3], x[2]) \in Words /\ XorWord(x[4], x[3]) \in Words /\ XorWord(XorWord(x[4], x[3]), x[2]) \in Words
  <2>1. XorWord(x[2], x[1]) \in Words /\ XorWord(x[3], x[2]) \in Words /\ XorWord(x[4], x[3]) \in Words
    BY <1>1, XorType
  <2> QED BY <1>1, <2>1, XorType
<1>5. /\ y[1] = x[1]
      /\ y[2] = XorWord(x[2], x[1])
      /\ y[3] = XorWord(XorWord(x[3], x[2]), x[1])
  BY <1>1, <1>3, <1>4, XorZero
<1> HIDE DEF y
<1> DEFINE w1 == XorWord(x[1], w)
           w2 == XorWord(x[2], w1)
           w3 == XorWord(x[3], w2)
           w4 == XorWord(x[4], w3)
<1>6. w1 \in Words /\ w2 \in Words
  <2>1. w1 \in Words
    BY <1>1, XorType
  <2> QED BY <1>1, <2>1, XorType
<1>7. XorWord(y[1], w) = w1 /\ XorWord(y[2], w) = w2
  <2>1. XorWord(XorWord(x[2], x[1]), w) = XorWord(x[2], XorWord(x[1], w))
    BY <1>1, XorAssociative
  <2> QED BY <1>5, <2>1
<1>8. XorWord(y[3], w) = w3
  <2>1. XorWord(XorWord(XorWord(x[3], x[2]), x[1]), w) = XorWord(XorWord(x[3], x[2]), w1)
    BY <1>1, <1>4, XorAssociative
  <2>2. XorWord(XorWord(x[3], x[2]), w1) = XorWord(x[3], XorWord(x[2], w1))
    BY <1>1, <1>6, XorAssociative
  <2> QED BY <1>5, <2>1, <2>2
<1>9. XorWord(y[4], w) = w4
  <2>1. XorWord(XorWord(XorWord(XorWord(x[4], x[3]), x[2]), x[1]), w) = XorWord(XorWord(XorWord(x[4], x[3]), x[2]), w1)
    BY <1>1, <1>4, XorAssociative
  <2>2. XorWord(XorWord(XorWord(x[4], x[3]), x[2]), w1) = XorWord(XorWord(x[4], x[3]), XorWord(x[2], w1))
    BY <1>1, <1>4, <1>6, XorAssociative
  <2>3. XorWord(XorWord(x[4], x[3]), w2) = XorWord(x[4], XorWord(x[3], w2))
    BY <1>1, <1>6, XorAssociative
  <2> QED BY <1>3, <2>1, <2>2, <2>3
<1>10. XorDwords(y, All(w)) = <<XorWord(y[1], w), XorWord(y[2], w), XorWord(y[3], w), XorWord(y[4], w)>>
  BY DEF XorDwords, All
<1>11. NextKey(x, w) = <<w1, w2, w3, w4>>
  BY DEF NextKey
<1> QED BY <1>7, <1>8, <1>9, <1>10, <1>11 DEF y
-----------------------------------------------------------------------------
(* aes_genkey and aes_rounds. *)

(* The pairs of keys that aes_genkey goes through.                         *)
IsPairs(f, k0, k1) ==
  f = [p \in 0..4 |-> IF p = 0 THEN <<ToDwords(k0), ToDwords(k1)>> ELSE aes_genkey_sub(f[p - 1], Rcon[p])]

(* They are the rows of the key schedule, two at a time.                   *)
LEMMA PairsFit ==
  ASSUME NEW k0 \in Block, NEW k1 \in Block, NEW f, IsRows(f, k0, k1), NEW p \in 1..4
  PROVE  aes_genkey_sub(<<f[2 * p - 1], f[2 * p]>>, Rcon[p]) = <<f[2 * p + 1], f[2 * p + 2]>>
<1> DEFINE r == 2 * p + 1
           x1 == f[2 * p - 1]
           x2 == f[2 * p]
           y1 == f[2 * p + 1]
           y2 == f[2 * p + 2]
           w == XorWord(Rot[Sub[x2[4]]], Rcon[p])
<1>1. x1 \in DwordBlock /\ x2 \in DwordBlock /\ y1 \in DwordBlock
  <2>1. 2 * p - 1 \in 1..10 /\ 2 * p \in 1..10 /\ 2 * p + 1 \in 1..10
    OBVIOUS
  <2> QED BY <2>1, RowsType
<1>2. y1 = NextKey(x1, w) /\ w \in Dwords
  <2>1. r \in 3..10 /\ r - 2 = 2 * p - 1 /\ r - 1 = 2 * p /\ r % 2 = 1 /\ r \div 2 = p
    OBVIOUS
  <2>2. f[r] = NextOf(f, r)
    BY <2>1 DEF IsRows
  <2>3. NextOf(f, r) = NextKey(x1, w)
    <3> HIDE DEF r
    <3> QED BY <2>1 DEF NextOf
  <2>4. w \in Dwords
    <3> HIDE DEF x2
    <3> QED BY <1>1, AssistType
  <2> QED BY <2>2, <2>3, <2>4
<1>3. y2 = NextKey(x2, Sub[y1[4]]) /\ Sub[y1[4]] \in Dwords
  <2> DEFINE s == 2 * p + 2
  <2>1. s \in 3..10 /\ s - 2 = 2 * p /\ s - 1 = 2 * p + 1 /\ s % 2 # 1
    OBVIOUS
  <2>2. f[s] = NextOf(f, s)
    BY <2>1 DEF IsRows
  <2>3. NextOf(f, s) = NextKey(x2, Sub[y1[4]])
    <3> HIDE DEF s
    <3> QED BY <2>1 DEF NextOf
  <2>4. Sub[y1[4]] \in Dwords
    <3> HIDE DEF y1
    <3> QED BY <1>1, AssistType
  <2> QED BY <2>2, <2>3, <2>4
<1> HIDE DEF x1, x2, y1, y2
<1>4. aeskeygenassist(x2, Rcon[p])[4] = w
  BY DEF aeskeygenassist
<1> HIDE DEF w
<1>5. XorDwords(sl_xor(x1), All(w)) = y1
  BY <1>1, <1>2, ShiftsChain
<1>6. aeskeygenassist(y1, 0)[3] = Sub[y1[4]]
  BY DEF aeskeygenassist
<1>7. XorDwords(sl_xor(x2), All(Sub[y1[4]])) = y2
  BY <1>1, <1>3, ShiftsChain
<1>8. aes_genkey_sub(<<x1, x2>>, Rcon[p]) = <<y1, y2>>
  BY <1>4, <1>5, <1>6, <1>7 DEF aes_genkey_sub
<1> QED BY <1>8 DEF x1, x2, y1, y2

(* The keys that aes_genkey makes (cryptonight_aesni.h:51-128) are those   *)
(* of the key schedule, whatever the S-box and the rotation are.           *)
THEOREM GenkeySchedules ==
  ASSUME NEW k0 \in Block, NEW k1 \in Block
  PROVE  aes_genkey(k0, k1) = KeySchedule(k0, k1)
<1>1. PICK f : IsRows(f, k0, k1)
  BY KeyRows
<1> DEFINE P == [p \in 0..4 |-> <<f[2 * p + 1], f[2 * p + 2]>>]
<1>2. P[0] = <<ToDwords(k0), ToDwords(k1)>> /\ \A p \in 1..4 : P[p] = aes_genkey_sub(P[p - 1], Rcon[p])
  <2>1. P[0] = <<ToDwords(k0), ToDwords(k1)>>
    <3>1. P[0] = <<f[1], f[2]>>
      OBVIOUS
    <3> QED BY <1>1, <3>1 DEF IsRows
  <2>2. ASSUME NEW p \in 1..4 PROVE P[p] = aes_genkey_sub(P[p - 1], Rcon[p])
    <3>1. P[p - 1] = <<f[2 * p - 1], f[2 * p]>>
      <4>1. p - 1 \in 0..4 /\ 2 * (p - 1) + 1 = 2 * p - 1 /\ 2 * (p - 1) + 2 = 2 * p
        OBVIOUS
      <4> QED BY <4>1
    <3>2. P[p] = <<f[2 * p + 1], f[2 * p + 2]>>
      OBVIOUS
    <3> HIDE DEF P
    <3> QED BY <1>1, <3>1, <3>2, PairsFit
  <2> QED BY <2>1, <2>2
<1> DEFINE g == CHOOSE g : IsPairs(g, k0, k1)
<1>3. IsPairs(g, k0, k1)
  <2>1. P = [p \in 0..4 |-> P[p]]
    OBVIOUS
  <2> HIDE DEF P
  <2>2. IsPairs(P, k0, k1)
    <3> DEFINE e(p) == IF p = 0 THEN <<ToDwords(k0), ToDwords(k1)>> ELSE aes_genkey_sub(P[p - 1], Rcon[p])
    <3>1. \A p \in 0..4 : P[p] = e(p)
      <4> TAKE p \in 0..4
      <4>1. p = 0 \/ p \in 1..4
        OBVIOUS
      <4> QED BY <1>2, <4>1
    <3> HIDE DEF e
    <3>2. P = [p \in 0..4 |-> e(p)]
      BY <2>1, <3>1
    <3> QED BY <3>2 DEF IsPairs, e
  <2> QED BY <2>2
<1>4. aes_genkey(k0, k1) = [k \in 1..10 |-> FromDwords(g[(k - 1) \div 2][1 + ((k - 1) % 2)])]
  BY Zenon DEF aes_genkey, g, IsPairs
<1> HIDE DEF g
<1>5. g[0] = <<ToDwords(k0), ToDwords(k1)>> /\ \A p \in 1..4 : g[p] = aes_genkey_sub(g[p - 1], Rcon[p])
  <2> DEFINE e(p) == IF p = 0 THEN <<ToDwords(k0), ToDwords(k1)>> ELSE aes_genkey_sub(g[p - 1], Rcon[p])
  <2>1. \A p \in 0..4 : g[p] = e(p)
    <3> HIDE DEF e
    <3>1. g = [p \in 0..4 |-> e(p)]
      BY <1>3 DEF IsPairs, e
    <3> QED BY <3>1
  <2> QED BY <2>1
<1>6. \A p \in 0..4 : g[p] = P[p]
  <2> DEFINE S == {p \in 0..4 : g[p] = P[p]}
  <2>1. 0 \in S
    BY <1>2, <1>5
  <2>2. \A p \in 1..4 : p - 1 \in S => p \in S
    <3> HIDE DEF P
    <3> QED BY <1>2, <1>5
  <2> HIDE DEF S
  <2>3. \A p \in 0..4 : p \in S
    BY <2>1, <2>2, Induction
  <2> QED BY <2>3 DEF S
<1>7. ASSUME NEW k \in 1..10 PROVE g[(k - 1) \div 2][1 + ((k - 1) % 2)] = f[k]
  <2> DEFINE p == (k - 1) \div 2
             b == (k - 1) % 2
  <2>1. p \in 0..4 /\ b \in {0, 1} /\ k = 2 * p + b + 1
    OBVIOUS
  <2> HIDE DEF p, b
  <2>2. g[p] = <<f[2 * p + 1], f[2 * p + 2]>>
    BY <1>6, <2>1
  <2>3. CASE b = 0
    BY <2>1, <2>2, <2>3 DEF p, b
  <2>4. CASE b = 1
    <3>1. 1 + b = 2 /\ k = 2 * p + 2
      BY <2>1, <2>4
    <3>2. g[p][1 + b] = f[k]
      BY <2>2, <3>1
    <3> QED BY <3>2 DEF p, b
  <2> QED BY <2>1, <2>3, <2>4
<1> QED BY <1>1, <1>4, <1>7 DEF IsRows
-----------------------------------------------------------------------------
(* Ten rounds of encryption. *)
IsEncryption(f, x, keys) == f = [r \in 0..10 |-> IF r = 0 THEN x ELSE aesenc(f[r - 1], keys[r])]
EncryptionSteps(f, x, keys) == f[0] = x /\ \A r \in 1..10 : f[r] = aesenc(f[r - 1], keys[r])

(* Encrypted is the last of ten steps from the block, one per key. *)
LEMMA EncryptionExists ==
  ASSUME NEW x \in Block, NEW keys \in [1..10 -> Block]
  PROVE  \E f \in [0..10 -> Block] : EncryptionSteps(f, x, keys) /\ f[10] = Encrypted(x, keys)
<1> DEFINE g == [p \in (1..10) \X Block |-> aesenc(p[2], keys[p[1]])]
<1>1. g \in [(1..10) \X Block -> Block]
  BY BlockFacts
<1>2. PICK a \in [0..10 -> Block] : Goes(a, 10, x, g)
  <2> HIDE DEF g
  <2>1. 10 \in Nat
    OBVIOUS
  <2> QED BY ONLY x \in Block, <1>1, <2>1, StepsExist
<1>3. EncryptionSteps(a, x, keys)
  <2>1. \A r \in 1..10 : a[r - 1] \in Block
    OBVIOUS
  <2>2. \A r \in 1..10 : g[<<r, a[r - 1]>>] = aesenc(a[r - 1], keys[r])
    BY <2>1
  <2> HIDE DEF g
  <2> QED BY <1>2, <2>2 DEF Goes, EncryptionSteps
<1> DEFINE f == CHOOSE f : IsEncryption(f, x, keys)
<1>4. IsEncryption(f, x, keys)
  <2>1. IsEncryption(a, x, keys)
    <3> DEFINE e(r) == IF r = 0 THEN x ELSE aesenc(a[r - 1], keys[r])
    <3>1. \A r \in 0..10 : a[r] = e(r)
      <4> TAKE r \in 0..10
      <4>1. r = 0 \/ r \in 1..10
        OBVIOUS
      <4> QED BY <1>3, <4>1 DEF EncryptionSteps
    <3> HIDE DEF e
    <3>2. a = [r \in 0..10 |-> e(r)]
      BY <3>1
    <3> QED BY <3>2 DEF IsEncryption, e
  <2> QED BY <2>1
<1>5. Encrypted(x, keys) = f[10]
  BY Zenon DEF Encrypted, f, IsEncryption
<1> HIDE DEF f
<1>6. EncryptionSteps(f, x, keys)
  <2> DEFINE e(r) == IF r = 0 THEN x ELSE aesenc(f[r - 1], keys[r])
  <2>1. \A r \in 0..10 : f[r] = e(r)
    <3> HIDE DEF e
    <3>1. f = [r \in 0..10 |-> e(r)]
      BY <1>4 DEF IsEncryption, e
    <3> QED BY <3>1
  <2> QED BY <2>1 DEF EncryptionSteps
<1>7. f[10] = a[10]
  <2> DEFINE S == {r \in 0..10 : f[r] = a[r]}
  <2>1. 0 \in S
    BY <1>3, <1>6 DEF EncryptionSteps
  <2>2. \A r \in 1..10 : r - 1 \in S => r \in S
    BY <1>3, <1>6 DEF EncryptionSteps
  <2> HIDE DEF S
  <2>3. \A r \in 0..10 : r \in S
    BY <2>1, <2>2, Induction
  <2>4. 10 \in S
    BY <2>3
  <2> QED BY <2>4 DEF S
<1> QED BY <1>3, <1>5, <1>7

(* An encrypted block is a block. *)
LEMMA EncryptedType ==
  ASSUME NEW x \in Block, NEW keys \in [1..10 -> Block]
  PROVE  Encrypted(x, keys) \in Block
BY EncryptionExists

(* The loop over the keys encrypts eight blocks at once.                   *)
LEMMA RoundsEncrypt ==
  ASSUME NEW text \in [1..8 -> Block], NEW keys \in [1..10 -> Block]
  PROVE  aes_rounds(text, keys) = [l \in 1..8 |-> Encrypted(text[l], keys)]
<1> DEFINE T == [1..8 -> Block]
           b == [l \in 1..8 |-> CHOOSE f \in [0..10 -> Block] :
                                  EncryptionSteps(f, text[l], keys) /\ f[10] = Encrypted(text[l], keys)]
           a == [r \in 0..10 |-> [l \in 1..8 |-> b[l][r]]]
           s == keys
           n == 10
<1>1. ASSUME NEW l \in 1..8
      PROVE  b[l] \in [0..10 -> Block] /\ EncryptionSteps(b[l], text[l], keys) /\ b[l][10] = Encrypted(text[l], keys)
  <2>1. text[l] \in Block
    OBVIOUS
  <2>2. \E f \in [0..10 -> Block] : EncryptionSteps(f, text[l], keys) /\ f[10] = Encrypted(text[l], keys)
    BY <2>1, EncryptionExists
  <2>3. b[l] = CHOOSE f \in [0..10 -> Block] : EncryptionSteps(f, text[l], keys) /\ f[10] = Encrypted(text[l], keys)
    OBVIOUS
  <2> HIDE DEF b
  <2> QED BY <2>2, <2>3
<1> HIDE DEF b
<1>2. a[0] = text
  <2>1. \A l \in 1..8 : b[l][0] = text[l]
    BY <1>1 DEF EncryptionSteps
  <2>2. a[0] = [l \in 1..8 |-> b[l][0]]
    OBVIOUS
  <2>3. text = [l \in 1..8 |-> text[l]]
    OBVIOUS
  <2> HIDE DEF a
  <2> QED BY <2>1, <2>2, <2>3
<1>3. a[10] = [l \in 1..8 |-> Encrypted(text[l], keys)]
  <2>1. a[10] = [l \in 1..8 |-> b[l][10]]
    OBVIOUS
  <2> HIDE DEF a
  <2> QED BY <1>1, <2>1
<1>4. a \in [0..n -> T]
  BY <1>1
<1>5. \A k \in 1..n : a[k] = aes_round(a[k - 1], s[k])
  <2> TAKE k \in 1..n
  <2>1. a[k] = [l \in 1..8 |-> b[l][k]]
    OBVIOUS
  <2>2. k - 1 \in 0..10 /\ a[k - 1] = [l \in 1..8 |-> b[l][k - 1]]
    OBVIOUS
  <2>3. \A l \in 1..8 : b[l][k] = aesenc(b[l][k - 1], keys[k])
    BY <1>1 DEF EncryptionSteps
  <2> HIDE DEF a
  <2> QED BY <2>1, <2>2, <2>3 DEF aes_round
<1>6. \A x \in T, k \in 1..n : aes_round(x, s[k]) \in T
  BY BlockFacts DEF aes_round
<1>7. IsSequence(s, n)
  BY DEF IsSequence
<1> HIDE DEF a, T
<1> DEFINE g == [p \in (1..n) \X T |-> aes_round(p[2], s[p[1]])]
           Solves(f) == f = [u \in SUBSET (1..n) |->
                               IF u = {} THEN a[0] ELSE aes_round(f[u \ {Max(u)}], s[Max(u)])]
           it == CHOOSE f : Solves(f)
<1>8. g \in [(1..n) \X T -> T]
  BY <1>6
<1>9. PICK f \in [SUBSET (1..n) -> T] : Folds(f, n, a[0], g)
  <2>1. a[0] \in T /\ n \in Nat
    BY <1>4
  <2> HIDE DEF g, n
  <2> QED BY ONLY <1>8, <2>1, FoldExists
<1>10. Solves(f)
  <2>1. ASSUME NEW u \in SUBSET (1..n), u # {}
        PROVE  g[<<Max(u), f[u \ {Max(u)}]>>] = aes_round(f[u \ {Max(u)}], s[Max(u)])
    <3>1. Max(u) \in 1..n
      <4>1. Max(u) \in u
        BY <2>1, Largest
      <4> QED BY <4>1
    <3>2. f[u \ {Max(u)}] \in T
      OBVIOUS
    <3> QED BY <3>1, <3>2
  <2> HIDE DEF g
  <2> QED BY <1>9, <2>1 DEF Folds
<1>11. Solves(it)
  <2> HIDE DEF Solves
  <2> QED BY <1>10
<1>12. it[1..n] = a[n]
  <2> HIDE DEF it
  <2>1. it[{}] = a[0]
    BY <1>11
  <2>2. ASSUME NEW k \in 1..n, it[1..(k - 1)] = a[k - 1]
        PROVE  it[1..k] = a[k]
    <3>1. 1..k \in SUBSET (1..n) /\ k \in Nat \ {0}
      OBVIOUS
    <3>2. Max(1..k) = k /\ (1..k) \ {Max(1..k)} = 1..(k - 1) /\ 1..k # {}
      BY <3>1, LargestOfRange
    <3>3. it[1..k] = aes_round(it[1..(k - 1)], s[k])
      BY <1>11, <3>1, <3>2
    <3> QED BY <1>5, <2>2, <3>3
  <2> HIDE DEF Solves
  <2> QED BY <2>1, <2>2, FoldSteps
<1>13. DOMAIN s = 1..n
  OBVIOUS
<1> HIDE DEF it
<1>14. FoldLeft(aes_round, a[0], s) = it[DOMAIN s]
  BY <1>13, Zenon DEF it, FoldLeft, MapThenFoldSet
<1> QED BY <1>2, <1>3, <1>12, <1>13, <1>14 DEF aes_rounds
-----------------------------------------------------------------------------
(* The chains of encrypted blocks. *)

(* The blocks of a state that meet those of a pad, one after the other. *)
ChainAt(f, n, h, pad, keys) ==
  IF n <= 8 THEN BlockOf(h, 3 + n) ELSE Encrypted(XorBlock(pad[n - 9], f[n - 8]), keys)
IsChain(f, m, h, pad, keys) == f = [n \in 1..m |-> ChainAt(f, n, h, pad, keys)]

(* There is a chain of any length. *)
LEMMA ChainExists ==
  ASSUME NEW h, NEW pad, NEW keys, NEW m \in Nat
  PROVE  \E f : IsChain(f, m, h, pad, keys)
<1> DEFINE S == {n \in 0..m : \E f : IsChain(f, n, h, pad, keys)}
<1>1. 0 \in S
  <2>1. IsChain([n \in 1..0 |-> 0], 0, h, pad, keys)
    BY DEF IsChain
  <2> QED BY <2>1
<1>2. ASSUME NEW n \in 1..m, n - 1 \in S PROVE n \in S
  <2>1. PICK f : IsChain(f, n - 1, h, pad, keys)
    BY <1>2
  <2> DEFINE F == [k \in 1..n |-> ChainAt(f, k, h, pad, keys)]
  <2>2. \A k \in 1..(n - 1) : F[k] = f[k]
    BY <2>1 DEF IsChain
  <2>3. \A k \in 1..n : ChainAt(f, k, h, pad, keys) = ChainAt(F, k, h, pad, keys)
    <3> TAKE k \in 1..n
    <3> HIDE DEF F
    <3>1. k > 8 => k - 8 \in 1..(n - 1)
      OBVIOUS
    <3> QED BY <2>2, <3>1 DEF ChainAt
  <2>4. F = [k \in 1..n |-> ChainAt(F, k, h, pad, keys)]
    BY <2>3
  <2> HIDE DEF F
  <2>5. IsChain(F, n, h, pad, keys)
    BY <2>4 DEF IsChain
  <2> QED BY <2>5
<1> HIDE DEF S
<1>3. \A k \in 0..m : k \in S
  BY <1>1, <1>2, Induction
<1>4. m \in S
  BY <1>3
<1> QED BY <1>4 DEF S

(* The pad is a number of times eight blocks. *)
LEMMA BlocksFacts ==
  /\ Blocks \in Nat /\ Blocks >= 8 /\ Blocks % 8 = 0
  /\ Pad = 0..(Blocks - 1)
BY ScratchpadAssumption DEF Pad

(* What Chained computes.                                                  *)
ChainSteps(t, h, pad, keys) ==
  /\ \A n \in 1..8 : t[n] = BlockOf(h, 3 + n)
  /\ \A n \in 9..(Blocks + 8) : t[n] = Encrypted(XorBlock(pad[n - 9], t[n - 8]), keys)

(* Chained starts with the blocks of the state and goes on with what the   *)
(* block eight before it becomes.                                          *)
LEMMA ChainedIs ==
  ASSUME NEW h, NEW pad, NEW keys
  PROVE  ChainSteps(Chained(h, pad, keys), h, pad, keys)
<1> DEFINE f == CHOOSE f : IsChain(f, Blocks + 8, h, pad, keys)
<1>1. IsChain(f, Blocks + 8, h, pad, keys)
  BY ChainExists, BlocksFacts
<1>2. Chained(h, pad, keys) = f
  BY Zenon DEF Chained, f, IsChain, ChainAt
<1> HIDE DEF f
<1>3. \A n \in 1..(Blocks + 8) : f[n] = ChainAt(f, n, h, pad, keys)
  BY <1>1 DEF IsChain
<1>4. ASSUME NEW n \in 1..8 PROVE f[n] = BlockOf(h, 3 + n)
  <2>1. n \in 1..(Blocks + 8) /\ n <= 8
    BY BlocksFacts
  <2> QED BY <1>3, <2>1 DEF ChainAt
<1>5. ASSUME NEW n \in 9..(Blocks + 8) PROVE f[n] = Encrypted(XorBlock(pad[n - 9], f[n - 8]), keys)
  <2>1. n \in 1..(Blocks + 8) /\ ~(n <= 8)
    BY BlocksFacts
  <2> QED BY <1>3, <2>1 DEF ChainAt
<1> QED BY <1>2, <1>4, <1>5 DEF ChainSteps

(* A block of the state is a block. *)
LEMMA StateBlocks ==
  ASSUME NEW h \in HashState, NEW j \in 0..11
  PROVE  BlockOf(h, j) \in Block
<1>1. 2 * j \in 0..24 /\ 2 * j + 1 \in 0..24
  OBVIOUS
<1> QED BY <1>1 DEF BlockOf, Block, HashState

(* All of a chain are blocks. *)
LEMMA ChainedType ==
  ASSUME NEW h \in HashState, NEW pad \in [Pad -> Block], NEW keys \in [1..10 -> Block]
  PROVE  \A n \in 1..(Blocks + 8) : Chained(h, pad, keys)[n] \in Block
<1> DEFINE t == Chained(h, pad, keys)
           S == {n \in 0..(Blocks + 8) : \A k \in 1..n : t[k] \in Block}
<1>0. ChainSteps(t, h, pad, keys)
  BY ChainedIs
<1> HIDE DEF t
<1>1. 0 \in S
  BY BlocksFacts
<1>2. ASSUME NEW n \in 1..(Blocks + 8), n - 1 \in S PROVE n \in S
  <2>1. t[n] \in Block
    <3>1. CASE n <= 8
      <4>1. n \in 1..8 /\ 3 + n \in 0..11
        BY <3>1
      <4> QED BY <1>0, <4>1, StateBlocks DEF ChainSteps
    <3>2. CASE n > 8
      <4>1. n \in 9..(Blocks + 8) /\ n - 9 \in Pad /\ n - 8 \in 1..(n - 1)
        BY <3>2, BlocksFacts
      <4>2. t[n - 8] \in Block /\ pad[n - 9] \in Block
        BY <1>2, <4>1
      <4> QED BY <1>0, <4>1, <4>2, BlockFacts, EncryptedType DEF ChainSteps
    <3> QED BY <3>1, <3>2
  <2>2. \A k \in 1..n : k \in 1..(n - 1) \/ k = n
    OBVIOUS
  <2> QED BY <1>2, <2>1, <2>2
<1> HIDE DEF S
<1>3. \A k \in 0..(Blocks + 8) : k \in S
  <2>1. Blocks + 8 \in Nat
    BY BlocksFacts
  <2> QED BY ONLY <1>1, <1>2, <2>1, Induction
<1>4. Blocks + 8 \in S
  BY <1>3, BlocksFacts
<1> QED BY <1>4 DEF S, t

Zeros == [j \in Pad |-> <<0, 0>>]
FillKeys(h) == KeySchedule(BlockOf(h, 0), BlockOf(h, 1))
FoldKeys(h) == KeySchedule(BlockOf(h, 2), BlockOf(h, 3))

(* The keys for filling and for folding, in the code and in the            *)
(* definition.                                                             *)
LEMMA StateKeys ==
  ASSUME NEW h \in HashState
  PROVE  /\ FillKeys(h) \in [1..10 -> Block] /\ FoldKeys(h) \in [1..10 -> Block]
         /\ FillKeys(h) = aes_genkey(BlockOf(h, 0), BlockOf(h, 1))
         /\ FoldKeys(h) = aes_genkey(BlockOf(h, 2), BlockOf(h, 3))
<1>1. BlockOf(h, 0) \in Block /\ BlockOf(h, 1) \in Block /\ BlockOf(h, 2) \in Block /\ BlockOf(h, 3) \in Block
  BY StateBlocks
<1> QED BY <1>1, KeyType, GenkeySchedules DEF FillKeys, FoldKeys

(* Zeros are blocks. *)
LEMMA ZeroBlock == <<0, 0>> \in Block /\ Zeros \in [Pad -> Block]
BY WordSizes DEF Zeros, Block, Words

(* The scratchpad of a state. *)
LEMMA FilledIs ==
  ASSUME NEW h \in HashState
  PROVE  /\ Filled(h) = [j \in Pad |-> Chained(h, Zeros, FillKeys(h))[j + 9]]
         /\ Filled(h) \in [Pad -> Block]
<1>1. Filled(h) = [j \in Pad |-> Chained(h, Zeros, FillKeys(h))[j + 9]]
  BY DEF Filled, Zeros, FillKeys
<1>2. \A j \in Pad : j + 9 \in 1..(Blocks + 8)
  BY BlocksFacts
<1>3. \A n \in 1..(Blocks + 8) : Chained(h, Zeros, FillKeys(h))[n] \in Block
  BY ChainedType, StateKeys, ZeroBlock
<1> QED BY <1>1, <1>2, <1>3

(* In a pad of zeros a block is the encryption of the one eight before it. *)
LEMMA FillSteps ==
  ASSUME NEW h \in HashState
  PROVE  \A n \in 9..(Blocks + 8) : Chained(h, Zeros, FillKeys(h))[n] =
             Encrypted(Chained(h, Zeros, FillKeys(h))[n - 8], FillKeys(h))
<1> TAKE n \in 9..(Blocks + 8)
<1> DEFINE t == Chained(h, Zeros, FillKeys(h))
<1>1. ChainSteps(t, h, Zeros, FillKeys(h))
  BY ChainedIs
<1>2. n - 8 \in 1..(Blocks + 8) /\ n - 9 \in Pad
  BY BlocksFacts
<1>3. t[n - 8] \in Block
  BY <1>2, ChainedType, StateKeys, ZeroBlock
<1> HIDE DEF t
<1>4. Zeros[n - 9] = <<0, 0>>
  BY <1>2 DEF Zeros
<1>5. XorBlock(<<0, 0>>, t[n - 8]) = t[n - 8]
  <2>1. t[n - 8] = <<t[n - 8][1], t[n - 8][2]>> /\ t[n - 8][1] \in Words /\ t[n - 8][2] \in Words
    BY <1>3, BlockFacts
  <2> QED BY <2>1, XorZero DEF XorBlock
<1>6. t[n] = Encrypted(XorBlock(Zeros[n - 9], t[n - 8]), FillKeys(h))
  BY <1>1 DEF ChainSteps
<1>7. t[n] = Encrypted(t[n - 8], FillKeys(h))
  BY <1>4, <1>5, <1>6
<1> QED BY <1>7 DEF t
-----------------------------------------------------------------------------
(* Types of the registers. *)
MixState == [a : Block, b0 : Block, b1 : Block, division : Words, root : Nat, pad : [Pad -> Block]]

(* The registers before the first round have their types. *)
LEMMA StartType ==
  ASSUME NEW h \in HashState
  PROVE  Start(h) \in MixState
<1>1. \A j \in 0..11 : BlockOf(h, j) \in Block
  BY StateBlocks
<1>2. XorBlock(BlockOf(h, 0), BlockOf(h, 2)) \in Block /\ XorBlock(BlockOf(h, 1), BlockOf(h, 3)) \in Block
      /\ XorBlock(BlockOf(h, 4), BlockOf(h, 5)) \in Block
  BY <1>1, BlockFacts
<1>3. h[12] \in Words /\ h[13] \in Words /\ h[13] \in Nat
  BY DEF HashState, Words
<1>4. Filled(h) \in [Pad -> Block]
  BY FilledIs
<1> QED BY <1>2, <1>3, <1>4 DEF Start, MixState

(* The corrected root is not negative. *)
LEMMA RootType ==
  ASSUME NEW n \in Words
  PROVE  int_sqrt33_1(n, "down") \in Nat
<1>1. n \in Nat /\ n < Modulus
  BY Sizes DEF Words
<1> DEFINE k == SqrtSd(Converted(n), "down")
<1>2. k \in One..(2 * One)
  BY <1>1, RootExists DEF SqrtSd
<1> HIDE DEF k
<1>3. Cut(k) \in Nat /\ Cut(k) >= 2 * Half
  <2> DEFINE q == k \div Spare
  <2>1. k \in Nat /\ k >= Spare * (2 * Half) /\ Half \in Nat /\ Spare \in Nat \ {0}
    <3>1. One = Spare * (2 * Half) /\ Half \in Nat /\ Spare \in Nat \ {0}
      BY PrecisionAssumption, Sizes DEF One
    <3> QED BY <1>2, <3>1, Sizes
  <2>2. q \in Nat /\ k < Spare * q + Spare
    BY <2>1, Division
  <2> HIDE DEF q
  <2>3. Spare * (2 * Half) < Spare * (q + 1)
    BY <2>1, <2>2
  <2>4. 2 * Half < q + 1
    BY <2>1, <2>2, <2>3, Cancel
  <2> QED BY <2>1, <2>2, <2>4 DEF Cut, q
<1>4. Corrected(k, n) \in Nat
  <2>1. Half \in Nat
    BY Sizes
  <2> QED BY <1>3, <2>1 DEF Corrected
<1> QED BY <1>4 DEF int_sqrt33_1, k

(* Both halves of a product of two words are words. *)
LEMMA ProductType ==
  ASSUME NEW a \in Words, NEW b \in Words
  PROVE  (a * b) \div Modulus \in Words /\ (a * b) % Modulus \in Words
<1>1. a \in Nat /\ b \in Nat /\ a < Modulus /\ b < Modulus /\ Modulus \in Nat \ {0}
  BY WordSizes DEF Words
<1>2. a * b \in Nat /\ a * b <= Modulus * b /\ (b > 0 => Modulus * b < Modulus * Modulus)
  <2>1. a * b <= Modulus * b
    BY <1>1, ProductOrder
  <2> QED BY <1>1, <2>1
<1> DEFINE x == a * b
           q == x \div Modulus
<1>3. x \in Nat /\ x < Modulus * Modulus
  BY <1>1, <1>2
<1> HIDE DEF x
<1>4. q \in Nat /\ Modulus * q <= x
  BY <1>1, <1>3, Division
<1>5. x % Modulus \in 0..(Modulus - 1)
  BY <1>1, <1>3
<1> HIDE DEF q
<1>6. Modulus * q < Modulus * Modulus
  BY <1>1, <1>3, <1>4
<1>7. q < Modulus
  BY <1>1, <1>4, <1>6, Cancel
<1> QED BY <1>1, <1>4, <1>5, <1>7 DEF Words, x, q
-----------------------------------------------------------------------------
(* Rounds. *)

(* The parts of a round.                                                   *)
Cipher(m) == aesenc(m.pad[Address(m.a[1])], m.a)
Pad1(m) == [Shuffled(m.pad, Address(m.a[1]), m) EXCEPT ![Address(m.a[1])] = XorBlock(m.b0, Cipher(m))]
Goal(m) == Address(Cipher(m)[1])
Factor(m) == XorWord(Pad1(m)[Goal(m)][1], XorWord(m.division, (m.root * Half) % Modulus))
Product(m) == <<(Cipher(m)[1] * Factor(m)) \div Modulus, (Cipher(m)[1] * Factor(m)) % Modulus>>
Pad2(m) == [Pad1(m) EXCEPT ![Near(Goal(m), 1)] = XorBlock(@, Product(m))]
Total(m) == AddBlock(m.a, XorBlock(Product(m), Pad1(m)[Near(Goal(m), 2)]))
Quotient(m) == Divided(Cipher(m)[2], Divisor(Cipher(m)[1], m.root))

(* A round, put together from its parts. *)
LEMMA RoundIs ==
  ASSUME NEW m
  PROVE  Round(m) =
           [b1 |-> m.b0, b0 |-> Cipher(m), division |-> Quotient(m),
            root |-> int_sqrt33_1(Add(Cipher(m)[1], Quotient(m)), "down"),
            a |-> XorBlock(Total(m), <<Factor(m), Pad1(m)[Goal(m)][2]>>),
            pad |-> [Shuffled(Pad2(m), Goal(m), m) EXCEPT ![Goal(m)] = Total(m)]]
BY DEF Round, Cipher, Pad1, Goal, Factor, Product, Pad2, Total, Quotient

(* The mask leads into the pad. *)
LEMMA AddressPad ==
  ASSUME NEW w \in Words
  PROVE  Address(w) \in Pad
<1> DEFINE q == w \div BlockBytes
<1>1. q \in Nat
  BY ScratchpadAssumption DEF Words
<1> HIDE DEF q
<1>2. q % Blocks \in 0..(Blocks - 1)
  BY <1>1, BlocksFacts
<1> QED BY <1>2 DEF Address, Pad, q

(* The types of the registers, one by one. *)
LEMMA MixTypes ==
  ASSUME NEW m \in MixState
  PROVE  /\ m.a \in Block /\ m.b0 \in Block /\ m.b1 \in Block
         /\ m.division \in Words /\ m.root \in Nat /\ m.pad \in [Pad -> Block]
         /\ m = [a |-> m.a, b0 |-> m.b0, b1 |-> m.b1, division |-> m.division, root |-> m.root, pad |-> m.pad]
BY DEF MixState

(* A shuffled pad is a pad. *)
LEMMA ShuffledType ==
  ASSUME NEW m \in MixState, NEW pad \in [Pad -> Block], NEW j \in Pad
  PROVE  Shuffled(pad, j, m) \in [Pad -> Block]
<1>1. Near(j, 1) \in Pad /\ Near(j, 2) \in Pad /\ Near(j, 3) \in Pad
  BY NearPad
<1>2. AddBlock(pad[Near(j, 3)], m.b1) \in Block /\ AddBlock(pad[Near(j, 1)], m.b0) \in Block
      /\ AddBlock(pad[Near(j, 2)], m.a) \in Block
  <2>1. pad[Near(j, 1)] \in Block /\ pad[Near(j, 2)] \in Block /\ pad[Near(j, 3)] \in Block
    BY <1>1
  <2> QED BY <2>1, MixTypes, BlockFacts
<1> QED BY <1>1, <1>2 DEF Shuffled

(* The types of the parts.                                                 *)
LEMMA PartTypes ==
  ASSUME NEW m \in MixState
  PROVE  /\ Cipher(m) \in Block /\ Address(m.a[1]) \in Pad /\ Pad1(m) \in [Pad -> Block]
         /\ Goal(m) \in Pad /\ Factor(m) \in Words /\ Product(m) \in Block
         /\ Pad2(m) \in [Pad -> Block] /\ Total(m) \in Block /\ Quotient(m) \in Words
         /\ Pad1(m)[Goal(m)] \in Block
<1>0. m.a[1] \in Words
  BY MixTypes, BlockFacts
<1>1. Address(m.a[1]) \in Pad
  BY <1>0, AddressPad
<1>2. Cipher(m) \in Block
  <2>1. m.pad[Address(m.a[1])] \in Block
    BY <1>1, MixTypes
  <2> QED BY <2>1, MixTypes, BlockFacts DEF Cipher
<1>3. Pad1(m) \in [Pad -> Block]
  <2>1. Shuffled(m.pad, Address(m.a[1]), m) \in [Pad -> Block]
    BY <1>1, MixTypes, ShuffledType
  <2>2. XorBlock(m.b0, Cipher(m)) \in Block
    BY <1>2, MixTypes, BlockFacts
  <2> QED BY <2>1, <2>2 DEF Pad1
<1>4. Cipher(m)[1] \in Words /\ Cipher(m)[2] \in Words
  BY <1>2, BlockFacts
<1>5. Goal(m) \in Pad
  BY <1>4, AddressPad DEF Goal
<1>6. Pad1(m)[Goal(m)] \in Block
  BY <1>3, <1>5
<1>7. Factor(m) \in Words
  <2>1. Pad1(m)[Goal(m)][1] \in Words
    BY <1>6, BlockFacts
  <2>2. (m.root * Half) % Modulus \in Words
    <3> DEFINE v == m.root * Half
    <3>1. v \in Nat
      BY MixTypes, WordSizes
    <3> HIDE DEF v
    <3>2. v % Modulus \in Words
      BY <3>1, WordSizes DEF Words
    <3> QED BY <3>2 DEF v
  <2>3. XorWord(m.division, (m.root * Half) % Modulus) \in Words
    BY <2>2, MixTypes, XorType
  <2> QED BY <2>1, <2>3, XorType DEF Factor
<1>8. Product(m) \in Block
  BY <1>4, <1>7, ProductType DEF Product, Block
<1>9. Near(Goal(m), 1) \in Pad /\ Near(Goal(m), 2) \in Pad
  BY <1>5, NearPad
<1>10. Pad2(m) \in [Pad -> Block]
  <2>1. Pad1(m)[Near(Goal(m), 1)] \in Block
    BY <1>3, <1>9
  <2>2. XorBlock(Pad1(m)[Near(Goal(m), 1)], Product(m)) \in Block
    BY <1>8, <2>1, BlockFacts
  <2> QED BY <1>3, <2>2 DEF Pad2
<1>11. Total(m) \in Block
  <2>1. Pad1(m)[Near(Goal(m), 2)] \in Block
    BY <1>3, <1>9
  <2>2. XorBlock(Product(m), Pad1(m)[Near(Goal(m), 2)]) \in Block
    BY <1>8, <2>1, BlockFacts
  <2> QED BY <2>2, MixTypes, BlockFacts DEF Total
<1>12. Quotient(m) \in Words
  <2> DEFINE d == Divisor(Cipher(m)[1], m.root)
             x == Cipher(m)[2]
  <2>1. d \in Nat \ {0} /\ x \in Nat
    <3>1. Cipher(m)[1] \in Nat /\ m.root \in Nat
      BY <1>2, BlockFacts, MixTypes
    <3>2. d \in Nat /\ (Half \div 2) + 1 <= d
      BY <3>1, DivisorRange
    <3> HIDE DEF d
    <3>3. Half \div 2 \in Nat
      BY WordSizes
    <3>4. x \in Nat
      BY <1>2, BlockFacts
    <3> QED BY <3>2, <3>3, <3>4
  <2> HIDE DEF d, x
  <2>2. x \div d \in Nat /\ x % d \in Nat
    BY <2>1
  <2> DEFINE q == x \div d
             r == x % d
  <2>3. q \in Nat /\ r \in Nat
    BY <2>2
  <2> HIDE DEF q, r
  <2>4. (q % Half) + r * Half \in Nat
    BY <2>3, WordSizes
  <2> DEFINE v == (q % Half) + r * Half
  <2>5. v \in Nat
    BY <2>4
  <2> HIDE DEF v
  <2>6. v % Modulus \in Words
    BY <2>5, WordSizes DEF Words
  <2> QED BY <2>6 DEF Quotient, Divided, v, q, r, d, x
<1> QED BY <1>1, <1>2, <1>3, <1>5, <1>6, <1>7, <1>8, <1>10, <1>11, <1>12

(* The sum of words is a word. *)
LEMMA SumType ==
  ASSUME NEW a \in Words, NEW b \in Words
  PROVE  Add(a, b) \in Words
BY WordSizes DEF Add, Words

(* A round keeps the types of the registers. *)
LEMMA RoundType ==
  ASSUME NEW m \in MixState
  PROVE  Round(m) \in MixState
<1>1. XorBlock(Total(m), <<Factor(m), Pad1(m)[Goal(m)][2]>>) \in Block
  <2>1. Pad1(m)[Goal(m)][2] \in Words
    BY PartTypes, BlockFacts
  <2>2. <<Factor(m), Pad1(m)[Goal(m)][2]>> \in Block
    BY <2>1, PartTypes DEF Block
  <2> QED BY <2>2, PartTypes, BlockFacts
<1>2. [Shuffled(Pad2(m), Goal(m), m) EXCEPT ![Goal(m)] = Total(m)] \in [Pad -> Block]
  <2>1. Shuffled(Pad2(m), Goal(m), m) \in [Pad -> Block]
    BY PartTypes, ShuffledType
  <2> QED BY <2>1, PartTypes
<1>3. int_sqrt33_1(Add(Cipher(m)[1], Quotient(m)), "down") \in Nat
  <2>1. Cipher(m)[1] \in Words
    BY PartTypes, BlockFacts
  <2> QED BY <2>1, PartTypes, SumType, RootType
<1> QED BY <1>1, <1>2, <1>3, RoundIs, PartTypes, MixTypes DEF MixState

(* So many rounds. *)
IsMix(f, n, h) == f = [r \in 0..n |-> IF r = 0 THEN Start(h) ELSE Round(f[r - 1])]
MixSteps(f, n, h) == f[0] = Start(h) /\ \A r \in 1..n : f[r] = Round(f[r - 1])

(* Mixed is the last of so many rounds from the start. *)
LEMMA MixExists ==
  ASSUME NEW h \in HashState, NEW n \in Nat
  PROVE  \E f : f \in [0..n -> MixState] /\ MixSteps(f, n, h) /\ f[n] = Mixed(h, n)
<1> DEFINE g == [p \in (1..n) \X MixState |-> Round(p[2])]
<1>1. g \in [(1..n) \X MixState -> MixState]
  BY RoundType
<1>2. PICK a \in [0..n -> MixState] : Goes(a, n, Start(h), g)
  <2>1. Start(h) \in MixState
    BY StartType
  <2> HIDE DEF g
  <2> QED BY ONLY n \in Nat, <1>1, <2>1, StepsExist
<1>3. MixSteps(a, n, h)
  <2>1. \A r \in 1..n : a[r - 1] \in MixState
    OBVIOUS
  <2>2. \A r \in 1..n : g[<<r, a[r - 1]>>] = Round(a[r - 1])
    BY <2>1
  <2> HIDE DEF g
  <2> QED BY <1>2, <2>2 DEF Goes, MixSteps
<1> DEFINE f == CHOOSE f : IsMix(f, n, h)
<1>4. IsMix(f, n, h)
  <2>1. IsMix(a, n, h)
    <3> DEFINE e(r) == IF r = 0 THEN Start(h) ELSE Round(a[r - 1])
    <3>1. \A r \in 0..n : a[r] = e(r)
      <4> TAKE r \in 0..n
      <4>1. r = 0 \/ r \in 1..n
        OBVIOUS
      <4> QED BY <1>3, <4>1 DEF MixSteps
    <3> HIDE DEF e
    <3>2. a = [r \in 0..n |-> e(r)]
      BY <3>1
    <3> QED BY <3>2 DEF IsMix, e
  <2> QED BY <2>1
<1>5. Mixed(h, n) = f[n]
  BY Zenon DEF Mixed, f, IsMix
<1> HIDE DEF f
<1>6. MixSteps(f, n, h)
  <2> DEFINE e(r) == IF r = 0 THEN Start(h) ELSE Round(f[r - 1])
  <2>1. \A r \in 0..n : f[r] = e(r)
    <3> HIDE DEF e
    <3>1. f = [r \in 0..n |-> e(r)]
      BY <1>4 DEF IsMix, e
    <3> QED BY <3>1
  <2> QED BY <2>1 DEF MixSteps
<1>7. f[n] = a[n]
  <2> DEFINE S == {r \in 0..n : f[r] = a[r]}
  <2>1. 0 \in S
    BY <1>3, <1>6 DEF MixSteps
  <2>2. \A r \in 1..n : r - 1 \in S => r \in S
    BY <1>3, <1>6 DEF MixSteps
  <2> HIDE DEF S
  <2>3. \A r \in 0..n : r \in S
    BY <2>1, <2>2, Induction
  <2>4. n \in S
    BY <2>3
  <2> QED BY <2>4 DEF S
<1> QED BY <1>3, <1>5, <1>7

(* Rounds from the same start lead to the same. *)
LEMMA MixesAgree ==
  ASSUME NEW h, NEW n \in Nat, NEW f, NEW g, MixSteps(f, n, h), MixSteps(g, n, h)
  PROVE  f[n] = g[n]
<1> DEFINE S == {r \in 0..n : f[r] = g[r]}
<1>1. 0 \in S
  BY DEF MixSteps
<1>2. \A r \in 1..n : r - 1 \in S => r \in S
  BY DEF MixSteps
<1> HIDE DEF S
<1>3. \A r \in 0..n : r \in S
  BY <1>1, <1>2, Induction
<1>4. n \in S
  BY <1>3
<1> QED BY <1>4 DEF S

(* Mixed starts at Start, and takes one Round more for one more round. *)
LEMMA MixedSteps ==
  ASSUME NEW h \in HashState, NEW n \in Nat
  PROVE  /\ Mixed(h, 0) = Start(h)
         /\ Mixed(h, n + 1) = Round(Mixed(h, n))
         /\ Mixed(h, n) \in MixState
<1>1. PICK f : f \in [0..n -> MixState] /\ MixSteps(f, n, h) /\ f[n] = Mixed(h, n)
  BY MixExists
<1>2. PICK g : MixSteps(g, n + 1, h) /\ g[n + 1] = Mixed(h, n + 1)
  <2>1. n + 1 \in Nat
    OBVIOUS
  <2> QED BY <2>1, MixExists
<1>3. g[n] = f[n]
  <2>1. MixSteps(g, n, h)
    BY <1>2 DEF MixSteps
  <2> QED BY <1>1, <2>1, MixesAgree
<1>4. Mixed(h, n + 1) = Round(Mixed(h, n))
  <2>1. n + 1 \in 1..(n + 1) /\ (n + 1) - 1 = n
    OBVIOUS
  <2>2. g[n + 1] = Round(g[(n + 1) - 1])
    BY <1>2, <2>1 DEF MixSteps
  <2> QED BY <1>1, <1>2, <1>3, <2>1, <2>2
<1>5. Mixed(h, 0) = Start(h)
  <2>1. 0 \in Nat
    OBVIOUS
  <2>2. PICK b : MixSteps(b, 0, h) /\ b[0] = Mixed(h, 0)
    BY <2>1, MixExists
  <2> QED BY <2>2 DEF MixSteps
<1>6. Mixed(h, n) \in MixState
  BY <1>1
<1> QED BY <1>4, <1>5, <1>6
-----------------------------------------------------------------------------
(* What the macros make of the context of a lane. *)

(* What a lane has reached. *)
IsContext(x) ==
  DOMAIN x = {"hash_state", "long_state", "text", "ax0", "bx0", "bx1", "cx", "idx0", "ptr0", "division_result",
              "sqrt_result", "cl", "ch", "al0", "ah0", "output"}

Fill(h) == Chained(h, Zeros, FillKeys(h))
Fold(h) == Chained(h, Mixed(h, Rounds).pad, FoldKeys(h))
Part(t, k) == [l \in 1..8 |-> t[k + l]]

Held(x, h) == IsContext(x) /\ x.hash_state = h

Exploding(x, h, k) ==
  /\ Held(x, h)
  /\ k > 0 => x.text = Part(Fill(h), k)
  /\ \A j \in 0..(k - 1) : x.long_state[j] = Fill(h)[j + 9]

Exploded(x, h) == Held(x, h) /\ x.long_state = Filled(h)

HasRegisters(x, m) ==
  /\ x.ax0 = m.a /\ x.bx0 = m.b0 /\ x.bx1 = m.b1
  /\ x.division_result = m.division /\ x.sqrt_result = m.root

AtStep1(x, h, m) ==
  Held(x, h) /\ HasRegisters(x, m) /\ x.idx0 = m.a[1] /\ x.long_state = m.pad

AtStep2(x, h, m) ==
  /\ Held(x, h) /\ HasRegisters(x, m)
  /\ x.ptr0 = Address(m.a[1]) /\ x.cx = Cipher(m)
  /\ x.long_state = Shuffled(m.pad, Address(m.a[1]), m)

AtStep3(x, h, m) ==
  /\ Held(x, h) /\ HasRegisters(x, m)
  /\ x.cx = Cipher(m) /\ x.idx0 = Cipher(m)[1] /\ x.ptr0 = Goal(m)
  /\ x.long_state = Pad1(m)

AtStep4(x, h, m) ==
  /\ Held(x, h)
  /\ x.cl = Factor(m) /\ x.ch = Pad1(m)[Goal(m)][2]
  /\ x.al0 = Total(m)[1] /\ x.ah0 = Total(m)[2]
  /\ x.division_result = Quotient(m)
  /\ x.sqrt_result = int_sqrt33_1(Add(Cipher(m)[1], Quotient(m)), "down")
  /\ x.bx1 = m.b0 /\ x.bx0 = Cipher(m) /\ x.cx = Cipher(m) /\ x.ptr0 = Goal(m)
  /\ x.long_state = [Shuffled(Pad2(m), Goal(m), m) EXCEPT ![Goal(m)] = <<Total(m)[1], Pad1(m)[Goal(m)][2]>>]

Imploding(x, h, k) ==
  /\ Held(x, h)
  /\ x.long_state = Mixed(h, Rounds).pad
  /\ k > 0 => x.text = Part(Fold(h), k)

Imploded(x, h) == IsContext(x) /\ x.hash_state = Folded(h, Mixed(h, Rounds).pad)

Finished(x, h) == IsContext(x) /\ x.output = Hashed(h, Mixed(h, Rounds).pad)
-----------------------------------------------------------------------------
(* The actions, each in what it makes of the context of a lane. *)
ExplodeText ==
  aes_rounds(IF i = 0 THEN Load(c.hash_state) ELSE c.text,
             aes_genkey(BlockOf(c.hash_state, 0), BlockOf(c.hash_state, 1)))
AfterExplode ==
  [c EXCEPT !.text = ExplodeText,
            !.long_state = [j \in Pad |-> IF j \in i..(i + 7) THEN ExplodeText[j - i + 1] ELSE @[j]]]

(* The eight blocks that are loaded from the state. *)
LEMMA LoadIs ==
  ASSUME NEW h \in HashState
  PROVE  /\ Load(h) = [l \in 1..8 |-> BlockOf(h, 3 + l)]
         /\ \A l \in 1..8 : BlockOf(h, 3 + l) \in Block
<1>1. \A l \in 1..8 : 3 + l \in 0..11
  OBVIOUS
<1> QED BY <1>1, StateBlocks DEF Load

(* The loops go to the end of the pad, and not beyond.                     *)
LEMMA EightMore ==
  ASSUME i \in Nat, i % 8 = 0, i < Blocks
  PROVE  i + 8 <= Blocks /\ (i + 8) % 8 = 0
<1>1. \A k \in Nat, m \in Nat : k % 8 = 0 /\ m % 8 = 0 /\ k < m => k + 8 <= m
  OBVIOUS
<1> QED BY <1>1, BlocksFacts

(* A pass of the loop over eight blocks computes the next eight of the     *)
(* chain.                                                                  *)
LEMMA ExplodeTextIs ==
  ASSUME NEW h \in HashState, i \in Nat, i % 8 = 0, i < Blocks, Exploding(c, h, i)
  PROVE  ExplodeText = Part(Fill(h), i + 8)
<1> DEFINE t == Fill(h)
           before == IF i = 0 THEN Load(c.hash_state) ELSE c.text
<1>1. c.hash_state = h
  BY DEF Exploding, Held
<1>2. ChainSteps(t, h, Zeros, FillKeys(h))
  BY ChainedIs DEF Fill
<1>3. \A l \in 1..8 : i + l \in 1..(Blocks + 8)
  BY BlocksFacts
<1>4. \A n \in 1..(Blocks + 8) : t[n] \in Block
  BY ChainedType, StateKeys, ZeroBlock DEF Fill
<1>5. \A l \in 1..8 : t[i + 8 + l] = Encrypted(t[i + l], FillKeys(h))
  <2> TAKE l \in 1..8
  <2>1. i + 8 <= Blocks
    BY EightMore
  <2>2. i + 8 + l \in 9..(Blocks + 8) /\ (i + 8 + l) - 8 = i + l
    BY <2>1, BlocksFacts
  <2> QED BY <2>2, FillSteps DEF Fill
<1> HIDE DEF t
<1>6. before = [l \in 1..8 |-> t[i + l]]
  <2>1. CASE i = 0
    <3>1. \A l \in 1..8 : t[i + l] = BlockOf(h, 3 + l)
      BY <1>2, <2>1 DEF ChainSteps
    <3> QED BY <1>1, <2>1, <3>1, LoadIs
  <2>2. CASE i # 0
    BY <2>2 DEF Exploding, Part, t
  <2> QED BY <2>1, <2>2
<1>7. before \in [1..8 -> Block]
  BY <1>3, <1>4, <1>6
<1>8. aes_rounds(before, FillKeys(h)) = [l \in 1..8 |-> Encrypted(before[l], FillKeys(h))]
  <2> HIDE DEF before
  <2> QED BY <1>7, RoundsEncrypt, StateKeys
<1>9. ExplodeText = aes_rounds(before, FillKeys(h))
  BY <1>1, StateKeys DEF ExplodeText
<1> HIDE DEF before
<1>10. [l \in 1..8 |-> Encrypted(before[l], FillKeys(h))] = [l \in 1..8 |-> t[i + 8 + l]]
  BY <1>5, <1>6
<1> QED BY <1>8, <1>9, <1>10 DEF Part, t

(* A pass of cn_explode_scratchpad stores them, and the last one completes *)
(* the scratchpad.                                                         *)
LEMMA ExplodePass ==
  ASSUME NEW h \in HashState, i \in Nat, i % 8 = 0, i < Blocks, Exploding(c, h, i)
  PROVE  /\ i + 8 < Blocks => Exploding(AfterExplode, h, i + 8)
         /\ ~(i + 8 < Blocks) => Exploded(AfterExplode, h)
<1> DEFINE pad == [j \in Pad |-> IF j \in i..(i + 7) THEN ExplodeText[j - i + 1] ELSE c.long_state[j]]
           y == AfterExplode
           t == Fill(h)
<1>1. Held(y, h) /\ y.text = ExplodeText /\ y.long_state = pad
  BY DEF AfterExplode, Exploding, Held, IsContext
<1>2. ExplodeText = Part(t, i + 8)
  BY ExplodeTextIs
<1>3. ASSUME NEW j \in Pad, j < i + 8 PROVE pad[j] = t[j + 9]
  <2>1. CASE j < i
    <3>1. j \in 0..(i - 1) /\ pad[j] = c.long_state[j]
      BY <2>1 DEF Pad
    <3> QED BY <3>1 DEF Exploding
  <2>2. CASE j >= i
    <3>1. j - i + 1 \in 1..8 /\ i + 8 + (j - i + 1) = j + 9 /\ j \in i..(i + 7)
      BY <1>3, <2>2, BlocksFacts
    <3>2. Part(t, i + 8)[j - i + 1] = t[i + 8 + (j - i + 1)]
      BY <3>1 DEF Part
    <3> QED BY <1>2, <3>1, <3>2
  <2> QED BY <2>1, <2>2, BlocksFacts
<1>4. CASE i + 8 < Blocks
  <2>1. \A j \in 0..((i + 8) - 1) : j \in Pad /\ j < i + 8
    BY <1>4, BlocksFacts
  <2> HIDE DEF pad, y
  <2>2. Exploding(y, h, i + 8)
    BY <1>1, <1>2, <1>3, <2>1 DEF Exploding
  <2> QED BY <1>4, <2>2 DEF y
<1>5. CASE ~(i + 8 < Blocks)
  <2>1. \A j \in Pad : j < i + 8
    BY <1>5, BlocksFacts
  <2>2. pad = [j \in Pad |-> pad[j]]
    OBVIOUS
  <2>3. Filled(h) = [j \in Pad |-> t[j + 9]]
    BY FilledIs DEF Fill
  <2> HIDE DEF pad, y, t
  <2>4. pad = Filled(h)
    BY <1>3, <2>1, <2>2, <2>3
  <2>5. Exploded(y, h)
    BY <1>1, <2>4 DEF Exploded
  <2> QED BY <1>5, <2>5 DEF y
<1> QED BY <1>4, <1>5

(* CN_INIT *)
AfterInit ==
  [c EXCEPT !.text = None,
            !.idx0 = XorWord(c.hash_state[0], c.hash_state[4]),
            !.ax0 = <<XorWord(c.hash_state[0], c.hash_state[4]), XorWord(c.hash_state[1], c.hash_state[5])>>,
            !.bx0 = <<XorWord(c.hash_state[2], c.hash_state[6]), XorWord(c.hash_state[3], c.hash_state[7])>>,
            !.bx1 = <<XorWord(c.hash_state[8], c.hash_state[10]), XorWord(c.hash_state[9], c.hash_state[11])>>,
            !.division_result = c.hash_state[12],
            !.sqrt_result = c.hash_state[13]]

(* CN_INIT makes the registers of the start. *)
LEMMA InitStarts ==
  ASSUME NEW h \in HashState, Exploded(c, h)
  PROVE  AtStep1(AfterInit, h, Start(h))
<1> DEFINE m == Start(h)
           y == AfterInit
<1>1. /\ m.a = <<XorWord(h[0], h[4]), XorWord(h[1], h[5])>>
      /\ m.b0 = <<XorWord(h[2], h[6]), XorWord(h[3], h[7])>>
      /\ m.b1 = <<XorWord(h[8], h[10]), XorWord(h[9], h[11])>>
      /\ m.division = h[12] /\ m.root = h[13] /\ m.pad = Filled(h)
  BY DEF Start, BlockOf, XorBlock
<1>2. /\ Held(y, h) /\ y.long_state = c.long_state
      /\ y.idx0 = XorWord(h[0], h[4])
      /\ y.ax0 = <<XorWord(h[0], h[4]), XorWord(h[1], h[5])>>
      /\ y.bx0 = <<XorWord(h[2], h[6]), XorWord(h[3], h[7])>>
      /\ y.bx1 = <<XorWord(h[8], h[10]), XorWord(h[9], h[11])>>
      /\ y.division_result = h[12] /\ y.sqrt_result = h[13]
  BY DEF AfterInit, Exploded, Held, IsContext
<1>3. c.long_state = Filled(h)
  BY DEF Exploded
<1> HIDE DEF m, y
<1> QED BY <1>1, <1>2, <1>3 DEF AtStep1, HasRegisters, m, y

(* CN_STEP1 *)
AfterStep1 ==
  [c EXCEPT !.ptr0 = Address(c.idx0),
            !.cx = aesenc(c.long_state[Address(c.idx0)], c.ax0),
            !.long_state = Shuffle(@, Address(c.idx0), @[Near(Address(c.idx0), 1)])]

(* CN_STEP1 encrypts the block of a round and shuffles its line. *)
LEMMA Step1Goes ==
  ASSUME NEW h, NEW m, AtStep1(c, h, m)
  PROVE  AtStep2(AfterStep1, h, m)
<1> DEFINE y == AfterStep1
           j == Address(m.a[1])
<1>1. Shuffle(m.pad, j, m.pad[Near(j, 1)]) = Shuffled(m.pad, j, m)
  BY DEF Shuffle, Shuffled, AtStep1, HasRegisters
<1>2. /\ Held(y, h) /\ y.ptr0 = Address(c.idx0) /\ y.cx = aesenc(c.long_state[Address(c.idx0)], c.ax0)
      /\ y.long_state = Shuffle(c.long_state, Address(c.idx0), c.long_state[Near(Address(c.idx0), 1)])
      /\ y.ax0 = c.ax0 /\ y.bx0 = c.bx0 /\ y.bx1 = c.bx1
      /\ y.division_result = c.division_result /\ y.sqrt_result = c.sqrt_result
  BY DEF AfterStep1, AtStep1, Held, IsContext
<1> HIDE DEF y
<1> QED BY <1>1, <1>2 DEF AtStep1, AtStep2, HasRegisters, Cipher, y

(* CN_STEP2 *)
AfterStep2 ==
  [c EXCEPT !.long_state[c.ptr0] = XorBlock(c.bx0, c.cx),
            !.idx0 = c.cx[1],
            !.ptr0 = Address(c.cx[1])]

(* CN_STEP2 stores the block and goes to the one that it leads to. *)
LEMMA Step2Goes ==
  ASSUME NEW h, NEW m, AtStep2(c, h, m)
  PROVE  AtStep3(AfterStep2, h, m)
<1> DEFINE y == AfterStep2
<1>1. /\ Held(y, h) /\ y.cx = c.cx /\ y.idx0 = c.cx[1] /\ y.ptr0 = Address(c.cx[1])
      /\ y.long_state = [c.long_state EXCEPT ![c.ptr0] = XorBlock(c.bx0, c.cx)]
      /\ y.ax0 = c.ax0 /\ y.bx0 = c.bx0 /\ y.bx1 = c.bx1
      /\ y.division_result = c.division_result /\ y.sqrt_result = c.sqrt_result
  BY DEF AfterStep2, AtStep2, Held, IsContext
<1> HIDE DEF y
<1> QED BY <1>1 DEF AtStep2, AtStep3, HasRegisters, Pad1, Goal, y

(* CN_STEP3 *)
Step3Factor ==
  XorWord(c.long_state[c.ptr0][1], XorWord(c.division_result, (c.sqrt_result * Half) % Modulus))
Step3Product == <<(c.idx0 * Step3Factor) \div Modulus, (c.idx0 * Step3Factor) % Modulus>>
Step3Chunk == XorBlock(c.long_state[Near(c.ptr0, 1)], Step3Product)
Step3Low == Add(c.ax0[1], XorWord((c.idx0 * Step3Factor) \div Modulus, c.long_state[Near(c.ptr0, 2)][1]))
Step3High == Add(c.ax0[2], XorWord((c.idx0 * Step3Factor) % Modulus, c.long_state[Near(c.ptr0, 2)][2]))
Step3Quotient == Divided(c.cx[2], Divisor(c.cx[1], c.sqrt_result))
AfterStep3 ==
  [c EXCEPT !.cl = Step3Factor, !.ch = c.long_state[c.ptr0][2], !.al0 = Step3Low, !.ah0 = Step3High,
            !.division_result = Step3Quotient,
            !.sqrt_result = int_sqrt33_1(Add(c.cx[1], Step3Quotient), "down"),
            !.bx1 = c.bx0, !.bx0 = c.cx,
            !.long_state = [Shuffle(@, c.ptr0, Step3Chunk) EXCEPT ![c.ptr0][1] = Step3Low]]

(* CN_STEP3 computes quotient, root, product and sum of the round,         *)
(* shuffles the second line and stores half of the sum.                    *)
LEMMA Step3Goes ==
  ASSUME NEW h, NEW m \in MixState, AtStep3(c, h, m)
  PROVE  AtStep4(AfterStep3, h, m)
<1> DEFINE y == AfterStep3
           k == Goal(m)
<1>1. /\ c.cx = Cipher(m) /\ c.idx0 = Cipher(m)[1] /\ c.ptr0 = k /\ c.long_state = Pad1(m)
      /\ c.ax0 = m.a /\ c.bx0 = m.b0 /\ c.bx1 = m.b1
      /\ c.division_result = m.division /\ c.sqrt_result = m.root
  BY DEF AtStep3, HasRegisters
<1>2. Step3Factor = Factor(m)
  BY <1>1 DEF Step3Factor, Factor
<1>3. Step3Product = Product(m) /\ Step3Quotient = Quotient(m)
  BY <1>1, <1>2 DEF Step3Product, Product, Step3Quotient, Quotient
<1>4. Step3Low = Total(m)[1] /\ Step3High = Total(m)[2]
  <2>1. /\ Step3Low = Add(m.a[1], XorWord(Product(m)[1], Pad1(m)[Near(k, 2)][1]))
        /\ Step3High = Add(m.a[2], XorWord(Product(m)[2], Pad1(m)[Near(k, 2)][2]))
    BY <1>1, <1>2 DEF Step3Low, Step3High, Product
  <2>2. /\ Total(m)[1] = Add(m.a[1], XorWord(Product(m)[1], Pad1(m)[Near(k, 2)][1]))
        /\ Total(m)[2] = Add(m.a[2], XorWord(Product(m)[2], Pad1(m)[Near(k, 2)][2]))
    BY DEF Total, AddBlock, XorBlock
  <2> QED BY <2>1, <2>2
<1>5. Shuffle(Pad1(m), k, Step3Chunk) = Shuffled(Pad2(m), k, m)
  <2> DEFINE l0 == Pad1(m)
             n1 == Near(k, 1)
             n2 == Near(k, 2)
             n3 == Near(k, 3)
  <2>1. l0 \in [Pad -> Block] /\ n1 \in Pad /\ n2 \in Pad /\ n3 \in Pad /\ n1 # n2 /\ n1 # n3 /\ n2 # n3
    BY PartTypes, NearPad
  <2>2. Step3Chunk = XorBlock(l0[n1], Product(m))
    BY <1>1, <1>3 DEF Step3Chunk
  <2>3. Shuffle(l0, k, Step3Chunk) =
          [l0 EXCEPT ![n1] = AddBlock(l0[n3], m.b1),
                     ![n2] = AddBlock(Step3Chunk, m.b0),
                     ![n3] = AddBlock(l0[n2], m.a)]
    BY <1>1 DEF Shuffle
  <2>4. Pad2(m) = [l0 EXCEPT ![n1] = XorBlock(l0[n1], Product(m))]
    BY DEF Pad2
  <2>5. Shuffled(Pad2(m), k, m) =
          [Pad2(m) EXCEPT ![n1] = AddBlock(Pad2(m)[n3], m.b1),
                          ![n2] = AddBlock(Pad2(m)[n1], m.b0),
                          ![n3] = AddBlock(Pad2(m)[n2], m.a)]
    BY DEF Shuffled
  <2> HIDE DEF l0, n1, n2, n3
  <2>6. Pad2(m)[n1] = Step3Chunk /\ Pad2(m)[n2] = l0[n2] /\ Pad2(m)[n3] = l0[n3]
    BY <2>1, <2>2, <2>4
  <2>7. Shuffled(Pad2(m), k, m) =
          [l0 EXCEPT ![n1] = AddBlock(l0[n3], m.b1),
                     ![n2] = AddBlock(Step3Chunk, m.b0),
                     ![n3] = AddBlock(l0[n2], m.a)]
    BY <2>1, <2>4, <2>5, <2>6
  <2> QED BY <2>3, <2>7 DEF l0
<1>6. [Shuffled(Pad2(m), k, m) EXCEPT ![k][1] = Total(m)[1]] =
        [Shuffled(Pad2(m), k, m) EXCEPT ![k] = <<Total(m)[1], Pad1(m)[k][2]>>]
  <2> DEFINE s == Shuffled(Pad2(m), k, m)
  <2>1. s[k] = Pad1(m)[k]
    <3>1. k \in Pad /\ Near(k, 1) # k /\ Near(k, 2) # k /\ Near(k, 3) # k /\ Pad1(m) \in [Pad -> Block]
      BY PartTypes, NearPad
    <3>2. Pad2(m)[k] = Pad1(m)[k] /\ DOMAIN Pad2(m) = Pad
      BY <3>1 DEF Pad2
    <3> QED BY <3>1, <3>2 DEF Shuffled
  <2>2. Pad1(m)[k] = <<Pad1(m)[k][1], Pad1(m)[k][2]>>
    BY PartTypes, BlockFacts
  <2>3. [Pad1(m)[k] EXCEPT ![1] = Total(m)[1]] = <<Total(m)[1], Pad1(m)[k][2]>>
    <3> DEFINE u == Pad1(m)[k][1]
               v == Pad1(m)[k][2]
               w == Total(m)[1]
    <3>1. [<<u, v>> EXCEPT ![1] = w] = <<w, v>>
      <4> HIDE DEF u, v, w
      <4> QED OBVIOUS
    <3>2. Pad1(m)[k] = <<u, v>>
      BY <2>2
    <3> QED BY <3>1, <3>2
  <2> HIDE DEF s
  <2>4. [s EXCEPT ![k] = [s[k] EXCEPT ![1] = Total(m)[1]]] = [s EXCEPT ![k] = <<Total(m)[1], Pad1(m)[k][2]>>]
    BY <2>1, <2>3
  <2> QED BY <2>4 DEF s
<1>7. /\ Held(y, h) /\ y.cl = Step3Factor /\ y.ch = c.long_state[c.ptr0][2]
      /\ y.al0 = Step3Low /\ y.ah0 = Step3High /\ y.division_result = Step3Quotient
      /\ y.sqrt_result = int_sqrt33_1(Add(c.cx[1], Step3Quotient), "down")
      /\ y.bx1 = c.bx0 /\ y.bx0 = c.cx /\ y.cx = c.cx /\ y.ptr0 = c.ptr0
      /\ y.long_state = [Shuffle(c.long_state, c.ptr0, Step3Chunk) EXCEPT ![c.ptr0][1] = Step3Low]
  BY DEF AfterStep3, AtStep3, Held, IsContext
<1> HIDE DEF y
<1> QED BY <1>1, <1>2, <1>3, <1>4, <1>5, <1>6, <1>7 DEF AtStep4, y

(* CN_STEP4 *)
AfterStep4 ==
  [c EXCEPT !.long_state[c.ptr0][2] = c.ah0,
            !.ax0 = <<XorWord(c.al0, c.cl), XorWord(c.ah0, c.ch)>>,
            !.idx0 = <<XorWord(c.al0, c.cl), XorWord(c.ah0, c.ch)>>[1]]

(* CN_STEP4 stores the other half, and leaves registers and scratchpad as  *)
(* after the round.                                                        *)
LEMMA Step4Goes ==
  ASSUME NEW h, NEW m \in MixState, AtStep4(c, h, m)
  PROVE  AtStep1(AfterStep4, h, Round(m))
<1> DEFINE y == AfterStep4
           k == Goal(m)
           s == Shuffled(Pad2(m), k, m)
           o == Total(m)
           v == Pad1(m)[k][2]
<1>1. s \in [Pad -> Block] /\ k \in Pad /\ o = <<o[1], o[2]>>
  BY PartTypes, ShuffledType, BlockFacts
<1>2. /\ Held(y, h) /\ y.long_state = [c.long_state EXCEPT ![c.ptr0][2] = c.ah0]
      /\ y.ax0 = <<XorWord(c.al0, c.cl), XorWord(c.ah0, c.ch)>>
      /\ y.idx0 = y.ax0[1]
      /\ y.bx0 = c.bx0 /\ y.bx1 = c.bx1
      /\ y.division_result = c.division_result /\ y.sqrt_result = c.sqrt_result
  BY DEF AfterStep4, AtStep4, Held, IsContext
<1>3. y.ax0 = Round(m).a
  <2>1. Round(m).a = XorBlock(o, <<Factor(m), v>>)
    BY RoundIs
  <2>2. c.al0 = o[1] /\ c.ah0 = o[2] /\ c.cl = Factor(m) /\ c.ch = v
    BY DEF AtStep4
  <2> HIDE DEF o, v
  <2>3. XorBlock(o, <<Factor(m), v>>) = <<XorWord(o[1], Factor(m)), XorWord(o[2], v)>>
    BY DEF XorBlock
  <2> QED BY <1>2, <2>1, <2>2, <2>3
<1>4. y.long_state = Round(m).pad
  <2>1. Round(m).pad = [s EXCEPT ![k] = o]
    BY RoundIs
  <2>2. c.long_state = [s EXCEPT ![k] = <<o[1], v>>] /\ c.ptr0 = k /\ c.ah0 = o[2]
    BY DEF AtStep4
  <2> HIDE DEF s, k, o, v
  <2>3. c.long_state[k] = <<o[1], v>>
    BY <1>1, <2>2
  <2>4. [<<o[1], v>> EXCEPT ![2] = o[2]] = <<o[1], o[2]>>
    <3> DEFINE p == o[1]
               q == o[2]
    <3>1. [<<p, v>> EXCEPT ![2] = q] = <<p, q>>
      <4> HIDE DEF p, q
      <4> QED OBVIOUS
    <3> QED BY <3>1
  <2>5. [c.long_state[k] EXCEPT ![2] = o[2]] = o
    BY <1>1, <2>3, <2>4
  <2>6. y.long_state = [c.long_state EXCEPT ![k] = o]
    BY <1>2, <2>2, <2>5
  <2> QED BY <1>1, <2>1, <2>2, <2>6
<1>5. y.bx0 = Round(m).b0 /\ y.bx1 = Round(m).b1 /\ y.division_result = Round(m).division
      /\ y.sqrt_result = Round(m).root
  <2>1. Round(m).b0 = Cipher(m) /\ Round(m).b1 = m.b0 /\ Round(m).division = Quotient(m)
        /\ Round(m).root = int_sqrt33_1(Add(Cipher(m)[1], Quotient(m)), "down")
    BY RoundIs
  <2> QED BY <1>2, <2>1 DEF AtStep4
<1> HIDE DEF y
<1> QED BY <1>2, <1>3, <1>4, <1>5 DEF AtStep1, HasRegisters, y

(* cn_implode_scratchpad *)
ImplodeText ==
  aes_rounds([l \in 1..8 |-> XorBlock(c.long_state[i + l - 1], (IF i = 0 THEN Load(c.hash_state) ELSE c.text)[l])],
             aes_genkey(BlockOf(c.hash_state, 2), BlockOf(c.hash_state, 3)))
AfterImplodePass == [c EXCEPT !.text = ImplodeText]
AfterImplode ==
  [c EXCEPT !.text = None,
            !.hash_state =
               [w \in 0..24 |-> IF w \in 8..23 THEN ImplodeText[(w \div 2) - 3][1 + (w % 2)] ELSE @[w]]]

(* A pass of the loop over eight blocks computes the next eight of the     *)
(* chain over the scratchpad.                                              *)
LEMMA ImplodeTextIs ==
  ASSUME NEW h \in HashState, i \in Nat, i % 8 = 0, i < Blocks, Rounds \in Nat, Imploding(c, h, i)
  PROVE  ImplodeText = Part(Fold(h), i + 8)
<1> DEFINE t == Fold(h)
           before == IF i = 0 THEN Load(c.hash_state) ELSE c.text
           pad == Mixed(h, Rounds).pad
           both == [l \in 1..8 |-> XorBlock(c.long_state[i + l - 1], before[l])]
<1>1. c.hash_state = h /\ c.long_state = pad
  BY DEF Imploding, Held
<1>2. pad \in [Pad -> Block]
  BY MixedSteps, MixTypes
<1>3. ChainSteps(t, h, pad, FoldKeys(h))
  BY ChainedIs DEF Fold
<1>4. \A n \in 1..(Blocks + 8) : t[n] \in Block
  BY <1>2, ChainedType, StateKeys DEF Fold
<1>5. \A l \in 1..8 : /\ i + l \in 1..(Blocks + 8) /\ i + l - 1 \in Pad
                      /\ i + 8 + l \in 9..(Blocks + 8)
                      /\ (i + 8 + l) - 8 = i + l /\ (i + 8 + l) - 9 = i + l - 1
  <2> TAKE l \in 1..8
  <2>1. i + 8 <= Blocks
    BY EightMore
  <2> QED BY <2>1, BlocksFacts
<1> HIDE DEF t, pad
<1>6. before = [l \in 1..8 |-> t[i + l]]
  <2>1. CASE i = 0
    <3>1. \A l \in 1..8 : t[i + l] = BlockOf(h, 3 + l)
      BY <1>3, <2>1 DEF ChainSteps
    <3> QED BY <1>1, <2>1, <3>1, LoadIs
  <2>2. CASE i # 0
    BY <2>2 DEF Imploding, Part, t
  <2> QED BY <2>1, <2>2
<1>7. both = [l \in 1..8 |-> XorBlock(pad[i + l - 1], t[i + l])]
  <2> HIDE DEF before
  <2> QED BY <1>1, <1>6
<1>8. both \in [1..8 -> Block]
  <2>1. \A l \in 1..8 : pad[i + l - 1] \in Block /\ t[i + l] \in Block
    BY <1>2, <1>4, <1>5
  <2>2. \A l \in 1..8 : XorBlock(pad[i + l - 1], t[i + l]) \in Block
    BY <2>1, BlockFacts
  <2> HIDE DEF both
  <2> QED BY <1>7, <2>2
<1>9. \A l \in 1..8 : t[i + 8 + l] = Encrypted(XorBlock(pad[i + l - 1], t[i + l]), FoldKeys(h))
  <2> TAKE l \in 1..8
  <2> DEFINE n == i + 8 + l
  <2>1. n \in 9..(Blocks + 8) /\ n - 8 = i + l /\ n - 9 = i + l - 1
    BY <1>5
  <2> HIDE DEF n
  <2>2. t[n] = Encrypted(XorBlock(pad[n - 9], t[n - 8]), FoldKeys(h))
    BY <1>3, <2>1 DEF ChainSteps
  <2> QED BY <2>1, <2>2 DEF n
<1>10. ImplodeText = aes_rounds(both, FoldKeys(h))
  BY <1>1, StateKeys DEF ImplodeText
<1> HIDE DEF both
<1>11. aes_rounds(both, FoldKeys(h)) = [l \in 1..8 |-> Encrypted(both[l], FoldKeys(h))]
  BY <1>8, RoundsEncrypt, StateKeys
<1>12. [l \in 1..8 |-> Encrypted(both[l], FoldKeys(h))] = [l \in 1..8 |-> t[i + 8 + l]]
  BY <1>7, <1>9
<1> QED BY <1>10, <1>11, <1>12 DEF Part, t

(* A pass of cn_implode_scratchpad keeps them, and the last one stores     *)
(* them in the state.                                                      *)
LEMMA ImplodePass ==
  ASSUME NEW h \in HashState, i \in Nat, i % 8 = 0, i < Blocks, Imploding(c, h, i)
  PROVE  /\ Imploding(AfterImplodePass, h, i + 8)
         /\ ~(i + 8 < Blocks) => Imploded(AfterImplode, h)
<1> DEFINE t == Fold(h)
           y == AfterImplodePass
           z == AfterImplode
<1>1. ImplodeText = Part(t, i + 8) /\ c.hash_state = h
  BY ImplodeTextIs, ScratchpadAssumption DEF Imploding, Held
<1>2. Imploding(y, h, i + 8)
  <2>1. Held(y, h) /\ y.text = ImplodeText /\ y.long_state = c.long_state
    BY DEF AfterImplodePass, Imploding, Held, IsContext
  <2> HIDE DEF y
  <2> QED BY <1>1, <2>1 DEF Imploding
<1>3. ASSUME ~(i + 8 < Blocks) PROVE Imploded(z, h)
  <2>1. i + 8 = Blocks
    BY <1>3, EightMore, BlocksFacts
  <2>2. IsContext(z) /\ z.hash_state = [w \in 0..24 |-> IF w \in 8..23 THEN ImplodeText[(w \div 2) - 3][1 + (w % 2)]
                                                                     ELSE h[w]]
    BY <1>1 DEF AfterImplode, Imploding, Held, IsContext
  <2>3. Folded(h, Mixed(h, Rounds).pad) =
          [w \in 0..24 |-> IF w \in 8..23 THEN t[Blocks + (w \div 2) - 3][1 + (w % 2)] ELSE h[w]]
    BY DEF Folded, Fold, FoldKeys
  <2>4. \A w \in 8..23 : ImplodeText[(w \div 2) - 3] = t[Blocks + (w \div 2) - 3]
    <3> TAKE w \in 8..23
    <3> DEFINE l == (w \div 2) - 3
    <3>1. l \in 1..8 /\ Blocks + (w \div 2) - 3 = Blocks + l
      BY BlocksFacts
    <3> HIDE DEF l
    <3>2. Part(t, i + 8)[l] = t[Blocks + l]
      <4> HIDE DEF t
      <4> QED BY <2>1, <3>1 DEF Part
    <3> QED BY <1>1, <3>1, <3>2 DEF l
  <2> HIDE DEF z, t
  <2>5. z.hash_state = Folded(h, Mixed(h, Rounds).pad)
    BY <2>2, <2>3, <2>4
  <2> QED BY <2>2, <2>5 DEF Imploded
<1> QED BY <1>2, <1>3

(* The rest of CN_FINALIZE. *)
AfterFinalize ==
  [c EXCEPT !.hash_state = keccakf(c.hash_state),
            !.output = <<extra_hashes[1 + (keccakf(c.hash_state)[0] % 4)], keccakf(c.hash_state)>>]

(* CN_FINALIZE makes the hash of the folded state. *)
LEMMA FinalizeEnds ==
  ASSUME NEW h, Imploded(c, h)
  PROVE  Finished(AfterFinalize, h)
<1>1. /\ IsContext(AfterFinalize)
      /\ AfterFinalize.output = <<extra_hashes[1 + (keccakf(c.hash_state)[0] % 4)], keccakf(c.hash_state)>>
  BY DEF AfterFinalize, Imploded, IsContext
<1>2. c.hash_state = Folded(h, Mixed(h, Rounds).pad)
  BY DEF Imploded
<1>3. Hashed(h, Mixed(h, Rounds).pad) = <<extra_hashes[1 + (keccakf(c.hash_state)[0] % 4)], keccakf(c.hash_state)>>
  BY <1>2 DEF Hashed
<1> QED BY <1>1, <1>3 DEF Finished
-----------------------------------------------------------------------------
(* The inductive invariant. *)

(* What a lane n with the Keccak state h has in its context x while the    *)
(* lane l is at p, in the pass k.                                          *)
Stage(p, l, k, n, x, h) ==
  /\ p = "explode" => /\ n < l => AtStep1(x, h, Mixed(h, 0))
                      /\ n = l => Exploding(x, h, k)
                      /\ n > l => Held(x, h)
  /\ p = "init"    => /\ n < l => AtStep1(x, h, Mixed(h, 0))
                      /\ n = l => Exploded(x, h)
                      /\ n > l => Held(x, h)
  /\ p = "step1"   => /\ n < l => AtStep2(x, h, Mixed(h, k))
                      /\ n >= l => AtStep1(x, h, Mixed(h, k))
  /\ p = "step2"   => /\ n < l => AtStep3(x, h, Mixed(h, k))
                      /\ n >= l => AtStep2(x, h, Mixed(h, k))
  /\ p = "step3"   => /\ n < l => AtStep4(x, h, Mixed(h, k))
                      /\ n >= l => AtStep3(x, h, Mixed(h, k))
  /\ p = "step4"   => /\ n < l => AtStep1(x, h, Mixed(h, k + 1))
                      /\ n >= l => AtStep4(x, h, Mixed(h, k))
  /\ p = "implode" => /\ n < l => Finished(x, h)
                      /\ n = l => Imploding(x, h, k)
                      /\ n > l => AtStep1(x, h, Mixed(h, Rounds))
  /\ p = "finalize" => /\ n < l => Finished(x, h)
                       /\ n = l => Imploded(x, h)
                       /\ n > l => AtStep1(x, h, Mixed(h, Rounds))
  /\ p = "done" => Finished(x, h)

Steps == {"step1", "step2", "step3", "step4"}

Control ==
  /\ pc \in {"explode", "init", "implode", "finalize", "done"} \cup Steps
  /\ lane \in Lanes
  /\ i \in Nat
  /\ seed \in [Lanes -> HashState]
  /\ DOMAIN cn = Lanes
  /\ pc \in {"explode", "implode"} => i < Blocks /\ i % 8 = 0
  /\ pc \in {"init", "finalize"} => i = 0
  /\ pc \in Steps => i < Rounds /\ rounding = "down"

Staged == \A n \in Lanes : Stage(pc, lane, i, n, cn[n], seed[n])

IInv == Control /\ Staged

(* The lanes, one after the other. *)
LEMMA LanesFacts ==
  ASSUME NEW l \in Lanes
  PROVE  /\ l \in Nat /\ N \in Nat \ {0} /\ l < N
         /\ l + 1 < N => l + 1 \in Lanes /\ (l + 1) % N = l + 1
         /\ ~(l + 1 < N) => l = N - 1 /\ (l + 1) % N = 0
         /\ 0 \in Lanes
BY LanesAssumption DEF Lanes

(* A lane starts to fold with what it has after the rounds. *)
LEMMA StartsImploding ==
  ASSUME NEW x, NEW h, AtStep1(x, h, Mixed(h, Rounds))
  PROVE  Imploding(x, h, 0)
BY DEF AtStep1, Imploding

(* A lane starts to fill its scratchpad with any memory. *)
LEMMA StartsExploding ==
  ASSUME NEW x, NEW h, Held(x, h)
  PROVE  Exploding(x, h, 0)
BY DEF Exploding

(* The first state is as IInv says, whatever the memory holds. *)
LEMMA InvInit == Init => IInv
<1> SUFFICES ASSUME Init PROVE IInv
  OBVIOUS
<1>1. pc = "explode" /\ lane = 0 /\ i = 0 /\ seed \in [Lanes -> HashState] /\ 0 \in Lanes
  <2>1. 0 \in Lanes
    BY LanesAssumption DEF Lanes
  <2> QED BY <2>1, LanesAssumption DEF Init
<1>2. PICK memory \in [Lanes -> Memories] :
       cn = [n \in Lanes |->
               [hash_state |-> seed[n], long_state |-> memory[n], text |-> None,
                ax0 |-> Zero, bx0 |-> Zero, bx1 |-> Zero, cx |-> Zero, idx0 |-> 0, ptr0 |-> 0,
                division_result |-> 0, sqrt_result |-> 0,
                cl |-> 0, ch |-> 0, al0 |-> 0, ah0 |-> 0, output |-> None]]
  BY DEF Init
<1>3. \A n \in Lanes : Held(cn[n], seed[n])
  BY <1>2 DEF Held, IsContext
<1>4. Control
  BY <1>1, <1>2, BlocksFacts DEF Control, Steps
<1>5. ASSUME NEW n \in Lanes PROVE Stage(pc, lane, i, n, cn[n], seed[n])
  <2>1. Held(cn[n], seed[n]) /\ ~(n < lane)
    BY <1>1, <1>3 DEF Lanes
  <2>2. Exploding(cn[n], seed[n], 0)
    BY <2>1, StartsExploding
  <2> QED BY <1>1, <2>1, <2>2 DEF Stage
<1> QED BY <1>4, <1>5 DEF IInv, Staged

(* One lane moves on. *)
LEMMA OneMoves ==
  ASSUME Control, NEW x, Becomes(x), seed' = seed
  PROVE  /\ DOMAIN cn' = Lanes /\ cn'[lane] = x
         /\ \A n \in Lanes : n # lane => cn'[n] = cn[n]
         /\ seed[lane] \in HashState
BY DEF Control, Becomes

(* A pass of cn_explode_scratchpad keeps IInv. *)
LEMMA InvExplode == IInv /\ Explode => IInv'
<1> SUFFICES ASSUME IInv, Explode PROVE IInv'
  OBVIOUS
<1> DEFINE h == seed[lane]
           y == AfterExplode
<1>1. /\ pc = "explode" /\ Becomes(y) /\ seed' = seed /\ lane' = lane
      /\ IF i + 8 < Blocks THEN i' = i + 8 /\ pc' = pc ELSE i' = 0 /\ pc' = "init"
  BY DEF Explode, AfterExplode, ExplodeText
<1>2. lane \in Lanes /\ i \in Nat /\ i % 8 = 0 /\ i < Blocks /\ h \in HashState /\ Control
  BY <1>1 DEF IInv, Control
<1>3. Exploding(c, h, i)
  BY <1>1, <1>2 DEF IInv, Staged, Stage, c
<1> HIDE DEF y
<1>4. /\ DOMAIN cn' = Lanes /\ cn'[lane] = y
      /\ \A n \in Lanes : n # lane => cn'[n] = cn[n]
  BY <1>1, <1>2, OneMoves
<1> HIDE DEF h
<1>5. /\ i + 8 < Blocks => Exploding(y, h, i + 8)
      /\ ~(i + 8 < Blocks) => Exploded(y, h)
  BY <1>2, <1>3, ExplodePass DEF y
<1>6. Control'
  <2>1. (i + 8) % 8 = 0
    BY <1>2, EightMore
  <2> QED BY <1>1, <1>2, <1>4, <2>1 DEF Control, Steps
<1>7. ASSUME NEW n \in Lanes PROVE Stage(pc, lane, i, n, cn[n], seed[n])'
  <2>1. CASE n = lane
    <3>1. cn'[n] = y /\ seed'[n] = h /\ ~(n < lane) /\ ~(n > lane)
      BY <1>1, <1>2, <1>4, <2>1 DEF h, Lanes
    <3> QED BY <1>1, <1>5, <2>1, <3>1 DEF Stage
  <2>2. CASE n # lane
    <3>1. cn'[n] = cn[n] /\ seed'[n] = seed[n]
      BY <1>1, <1>4, <2>2
    <3>2. Stage(pc, lane, i, n, cn[n], seed[n])
      BY DEF IInv, Staged
    <3> QED BY <1>1, <2>2, <3>1, <3>2 DEF Stage
  <2> QED BY <2>1, <2>2
<1> QED BY <1>6, <1>7 DEF IInv, Staged

(* CN_INIT keeps IInv. *)
LEMMA InvInitRegisters == IInv /\ InitRegisters => IInv'
<1> SUFFICES ASSUME IInv, InitRegisters PROVE IInv'
  OBVIOUS
<1> DEFINE h == seed[lane]
           y == AfterInit
<1>1. /\ pc = "init" /\ Becomes(y) /\ TurnTo("explode", IF Rounds = 0 THEN "implode" ELSE "step1")
      /\ i' = i /\ rounding' = "down"
  BY DEF InitRegisters, LoadRegisters, AfterInit
<1>2. lane \in Lanes /\ i \in Nat /\ h \in HashState /\ Control /\ i = 0
  BY <1>1 DEF IInv, Control, Steps
<1> HIDE DEF y
<1>3. /\ DOMAIN cn' = Lanes /\ cn'[lane] = y
      /\ \A n \in Lanes : n # lane => cn'[n] = cn[n]
  BY <1>1, <1>2, OneMoves DEF TurnTo
<1>4. Exploded(c, h)
  BY <1>1, <1>2 DEF IInv, Staged, Stage, c, Lanes
<1> HIDE DEF h
<1>5. AtStep1(y, h, Mixed(h, 0))
  BY <1>2, <1>4, InitStarts, MixedSteps DEF y
<1>6. Control'
  BY <1>1, <1>2, <1>3, LanesFacts, ScratchpadAssumption, BlocksFacts DEF Control, Steps, TurnTo
<1>7. ASSUME NEW n \in Lanes PROVE Stage(pc, lane, i, n, cn[n], seed[n])'
  <2>0. n \in 0..(N - 1) /\ lane \in 0..(N - 1) /\ N \in Nat /\ seed' = seed
    BY <1>1, <1>2, LanesFacts DEF Lanes, TurnTo
  <2>1. lane + 1 < N => lane' = lane + 1
    BY <1>1, <1>2, LanesFacts DEF TurnTo
  <2>2. ~(lane + 1 < N) => lane' = 0 /\ lane = N - 1
    BY <1>1, <1>2, LanesFacts DEF TurnTo
  <2>3. Stage(pc, lane, i, n, cn[n], seed[n])
    BY DEF IInv, Staged
  <2> DEFINE x == cn'[n]
             g == seed'[n]
  <2>4. CASE n = lane
    <3>1. x = y /\ g = h
      BY <1>3, <2>0, <2>4 DEF h
    <3>2. AtStep1(x, g, Mixed(g, 0))
      BY <1>5, <3>1
    <3> HIDE DEF x, g
    <3>3. Rounds = 0 => Imploding(x, g, 0)
      BY <3>2, StartsImploding
    <3> QED BY <1>1, <1>2, <2>0, <2>1, <2>2, <2>4, <3>2, <3>3 DEF Stage, TurnTo, x, g
  <2>5. CASE n # lane
    <3>1. x = cn[n] /\ g = seed[n]
      BY <1>3, <2>0, <2>5
    <3>2. n < lane => AtStep1(x, g, Mixed(g, 0))
      BY <1>1, <2>3, <3>1 DEF Stage
    <3>3. n > lane => Held(x, g)
      BY <1>1, <2>3, <3>1 DEF Stage
    <3> HIDE DEF x, g
    <3>4. n > lane => Exploding(x, g, 0)
      BY <3>3, StartsExploding
    <3>5. n < lane /\ Rounds = 0 => Imploding(x, g, 0)
      BY <3>2, StartsImploding
    <3> QED BY <1>1, <1>2, <2>0, <2>1, <2>2, <2>5, <3>2, <3>3, <3>4, <3>5 DEF Stage, TurnTo, x, g
  <2> QED BY <2>4, <2>5
<1> QED BY <1>6, <1>7 DEF IInv, Staged

(* CN_STEP1 keeps IInv. *)
LEMMA InvStep1 == IInv /\ Step1 => IInv'
<1> SUFFICES ASSUME IInv, Step1 PROVE IInv'
  OBVIOUS
<1> DEFINE h == seed[lane]
           y == AfterStep1
<1>1. pc = "step1" /\ Becomes(y) /\ TurnTo("step1", "step2") /\ i' = i /\ rounding' = rounding
  BY DEF Step1, AfterStep1
<1>2. lane \in Lanes /\ i \in Nat /\ h \in HashState /\ Control /\ i < Rounds
  BY <1>1 DEF IInv, Control, Steps
<1> HIDE DEF y
<1>3. /\ DOMAIN cn' = Lanes /\ cn'[lane] = y
      /\ \A n \in Lanes : n # lane => cn'[n] = cn[n]
  BY <1>1, <1>2, OneMoves DEF TurnTo
<1>4. AtStep1(c, h, Mixed(h, i))
  BY <1>1, <1>2 DEF IInv, Staged, Stage, c, Lanes
<1> HIDE DEF h
<1>5. AtStep2(y, h, Mixed(h, i))
  BY <1>2, <1>4, Step1Goes DEF y
<1>6. Control'
  BY <1>1, <1>2, <1>3, LanesFacts, ScratchpadAssumption, BlocksFacts DEF Control, Steps, TurnTo
<1>7. ASSUME NEW n \in Lanes PROVE Stage(pc, lane, i, n, cn[n], seed[n])'
  <2>0. n \in 0..(N - 1) /\ lane \in 0..(N - 1) /\ N \in Nat /\ seed' = seed
    BY <1>1, <1>2, LanesFacts DEF Lanes, TurnTo
  <2>1. lane + 1 < N => lane' = lane + 1
    BY <1>1, <1>2, LanesFacts DEF TurnTo
  <2>2. ~(lane + 1 < N) => lane' = 0 /\ lane = N - 1
    BY <1>1, <1>2, LanesFacts DEF TurnTo
  <2>3. Stage(pc, lane, i, n, cn[n], seed[n])
    BY DEF IInv, Staged
  <2>4. CASE n = lane
    <3>1. cn'[n] = y /\ seed'[n] = h
      BY <1>3, <2>0, <2>4 DEF h
    <3> QED BY <1>1, <1>5, <2>0, <2>1, <2>2, <2>4, <3>1 DEF Stage, TurnTo
  <2>5. CASE n # lane
    <3>1. cn'[n] = cn[n] /\ seed'[n] = seed[n]
      BY <1>3, <2>0, <2>5
    <3> QED BY <1>1, <2>0, <2>1, <2>2, <2>3, <2>5, <3>1 DEF Stage, TurnTo
  <2> QED BY <2>4, <2>5
<1> QED BY <1>6, <1>7 DEF IInv, Staged

(* CN_STEP2 keeps IInv. *)
LEMMA InvStep2 == IInv /\ Step2 => IInv'
<1> SUFFICES ASSUME IInv, Step2 PROVE IInv'
  OBVIOUS
<1> DEFINE h == seed[lane]
           y == AfterStep2
<1>1. pc = "step2" /\ Becomes(y) /\ TurnTo("step2", "step3") /\ i' = i /\ rounding' = rounding
  BY DEF Step2, AfterStep2
<1>2. lane \in Lanes /\ i \in Nat /\ h \in HashState /\ Control /\ i < Rounds
  BY <1>1 DEF IInv, Control, Steps
<1> HIDE DEF y
<1>3. /\ DOMAIN cn' = Lanes /\ cn'[lane] = y
      /\ \A n \in Lanes : n # lane => cn'[n] = cn[n]
  BY <1>1, <1>2, OneMoves DEF TurnTo
<1>4. AtStep2(c, h, Mixed(h, i))
  BY <1>1, <1>2 DEF IInv, Staged, Stage, c, Lanes
<1> HIDE DEF h
<1>5. AtStep3(y, h, Mixed(h, i))
  BY <1>2, <1>4, Step2Goes DEF y
<1>6. Control'
  BY <1>1, <1>2, <1>3, LanesFacts, ScratchpadAssumption, BlocksFacts DEF Control, Steps, TurnTo
<1>7. ASSUME NEW n \in Lanes PROVE Stage(pc, lane, i, n, cn[n], seed[n])'
  <2>0. n \in 0..(N - 1) /\ lane \in 0..(N - 1) /\ N \in Nat /\ seed' = seed
    BY <1>1, <1>2, LanesFacts DEF Lanes, TurnTo
  <2>1. lane + 1 < N => lane' = lane + 1
    BY <1>1, <1>2, LanesFacts DEF TurnTo
  <2>2. ~(lane + 1 < N) => lane' = 0 /\ lane = N - 1
    BY <1>1, <1>2, LanesFacts DEF TurnTo
  <2>3. Stage(pc, lane, i, n, cn[n], seed[n])
    BY DEF IInv, Staged
  <2>4. CASE n = lane
    <3>1. cn'[n] = y /\ seed'[n] = h
      BY <1>3, <2>0, <2>4 DEF h
    <3> QED BY <1>1, <1>5, <2>0, <2>1, <2>2, <2>4, <3>1 DEF Stage, TurnTo
  <2>5. CASE n # lane
    <3>1. cn'[n] = cn[n] /\ seed'[n] = seed[n]
      BY <1>3, <2>0, <2>5
    <3> QED BY <1>1, <2>0, <2>1, <2>2, <2>3, <2>5, <3>1 DEF Stage, TurnTo
  <2> QED BY <2>4, <2>5
<1> QED BY <1>6, <1>7 DEF IInv, Staged

(* CN_STEP3 keeps IInv. *)
LEMMA InvStep3 == IInv /\ Step3 => IInv'
<1> SUFFICES ASSUME IInv, Step3 PROVE IInv'
  OBVIOUS
<1> DEFINE h == seed[lane]
           y == AfterStep3
<1>0. pc = "step3" /\ rounding = "down"
  BY DEF Step3, IInv, Control, Steps
<1>1. pc = "step3" /\ Becomes(y) /\ TurnTo("step3", "step4") /\ i' = i /\ rounding' = rounding
  BY <1>0 DEF Step3, AfterStep3, Step3Factor, Step3Product, Step3Chunk, Step3Low, Step3High, Step3Quotient
<1>2. lane \in Lanes /\ i \in Nat /\ h \in HashState /\ Control /\ i < Rounds
  BY <1>1 DEF IInv, Control, Steps
<1> HIDE DEF y
<1>3. /\ DOMAIN cn' = Lanes /\ cn'[lane] = y
      /\ \A n \in Lanes : n # lane => cn'[n] = cn[n]
  BY <1>1, <1>2, OneMoves DEF TurnTo
<1>4. AtStep3(c, h, Mixed(h, i))
  BY <1>1, <1>2 DEF IInv, Staged, Stage, c, Lanes
<1> HIDE DEF h
<1>5. AtStep4(y, h, Mixed(h, i))
  BY <1>2, <1>4, Step3Goes, MixedSteps DEF y
<1>6. Control'
  BY <1>1, <1>2, <1>3, LanesFacts, ScratchpadAssumption, BlocksFacts DEF Control, Steps, TurnTo
<1>7. ASSUME NEW n \in Lanes PROVE Stage(pc, lane, i, n, cn[n], seed[n])'
  <2>0. n \in 0..(N - 1) /\ lane \in 0..(N - 1) /\ N \in Nat /\ seed' = seed
    BY <1>1, <1>2, LanesFacts DEF Lanes, TurnTo
  <2>1. lane + 1 < N => lane' = lane + 1
    BY <1>1, <1>2, LanesFacts DEF TurnTo
  <2>2. ~(lane + 1 < N) => lane' = 0 /\ lane = N - 1
    BY <1>1, <1>2, LanesFacts DEF TurnTo
  <2>3. Stage(pc, lane, i, n, cn[n], seed[n])
    BY DEF IInv, Staged
  <2>4. CASE n = lane
    <3>1. cn'[n] = y /\ seed'[n] = h
      BY <1>3, <2>0, <2>4 DEF h
    <3> QED BY <1>1, <1>5, <2>0, <2>1, <2>2, <2>4, <3>1 DEF Stage, TurnTo
  <2>5. CASE n # lane
    <3>1. cn'[n] = cn[n] /\ seed'[n] = seed[n]
      BY <1>3, <2>0, <2>5
    <3> QED BY <1>1, <2>0, <2>1, <2>2, <2>3, <2>5, <3>1 DEF Stage, TurnTo
  <2> QED BY <2>4, <2>5
<1> QED BY <1>6, <1>7 DEF IInv, Staged

(* CN_STEP4 keeps IInv. *)
LEMMA InvStep4 == IInv /\ Step4 => IInv'
<1> SUFFICES ASSUME IInv, Step4 PROVE IInv'
  OBVIOUS
<1> DEFINE h == seed[lane]
           y == AfterStep4
<1>1. /\ pc = "step4" /\ Becomes(y) /\ TurnTo("step4", IF i + 1 < Rounds THEN "step1" ELSE "implode")
      /\ i' = IF lane + 1 < N THEN i ELSE IF i + 1 < Rounds THEN i + 1 ELSE 0
      /\ rounding' = rounding
  BY DEF Step4, AfterStep4
<1>2. lane \in Lanes /\ i \in Nat /\ h \in HashState /\ Control /\ i < Rounds
  BY <1>1 DEF IInv, Control, Steps
<1> HIDE DEF y
<1>3. /\ DOMAIN cn' = Lanes /\ cn'[lane] = y
      /\ \A n \in Lanes : n # lane => cn'[n] = cn[n]
  BY <1>1, <1>2, OneMoves DEF TurnTo
<1>4. AtStep4(c, h, Mixed(h, i))
  BY <1>1, <1>2 DEF IInv, Staged, Stage, c, Lanes
<1> HIDE DEF h
<1>5. AtStep1(y, h, Mixed(h, i + 1))
  BY <1>2, <1>4, Step4Goes, MixedSteps DEF y
<1>6. Control'
  BY <1>1, <1>2, <1>3, LanesFacts, ScratchpadAssumption, BlocksFacts DEF Control, Steps, TurnTo
<1>7. ASSUME NEW n \in Lanes PROVE Stage(pc, lane, i, n, cn[n], seed[n])'
  <2>0. n \in 0..(N - 1) /\ lane \in 0..(N - 1) /\ N \in Nat /\ seed' = seed
    BY <1>1, <1>2, LanesFacts DEF Lanes, TurnTo
  <2>1. lane + 1 < N => lane' = lane + 1
    BY <1>1, <1>2, LanesFacts DEF TurnTo
  <2>2. ~(lane + 1 < N) => lane' = 0 /\ lane = N - 1
    BY <1>1, <1>2, LanesFacts DEF TurnTo
  <2>3. Stage(pc, lane, i, n, cn[n], seed[n])
    BY DEF IInv, Staged
  <2> DEFINE x == cn'[n]
             g == seed'[n]
  <2>4. n <= lane => AtStep1(x, g, Mixed(g, i + 1))
    <3>1. CASE n = lane
      <4>1. x = y /\ g = h
        BY <1>3, <2>0, <3>1 DEF h
      <4> QED BY <1>5, <4>1
    <3>2. CASE n # lane
      <4>1. x = cn[n] /\ g = seed[n]
        BY <1>3, <2>0, <3>2
      <4>2. n < lane => AtStep1(cn[n], seed[n], Mixed(seed[n], i + 1))
        BY <1>1, <2>3 DEF Stage
      <4> QED BY <2>0, <3>2, <4>1, <4>2
    <3> QED BY <3>1, <3>2
  <2>5. n > lane => AtStep4(x, g, Mixed(g, i))
    <3>1. n > lane => n # lane /\ AtStep4(cn[n], seed[n], Mixed(seed[n], i))
      BY <1>1, <2>0, <2>3 DEF Stage
    <3> QED BY <1>3, <2>0, <3>1
  <2> HIDE DEF x, g
  <2>6. i + 1 = Rounds /\ n <= lane => AtStep1(x, g, Mixed(g, Rounds)) /\ Imploding(x, g, 0)
    <3> HAVE i + 1 = Rounds /\ n <= lane
    <3>1. AtStep1(x, g, Mixed(g, Rounds))
      BY <2>4
    <3> QED BY <3>1, StartsImploding
  <2>7. i + 1 <= Rounds
    BY <1>2, ScratchpadAssumption
  <2>8. CASE lane + 1 < N
    BY <1>1, <2>0, <2>1, <2>4, <2>5, <2>8 DEF Stage, TurnTo, x, g
  <2>9. CASE ~(lane + 1 < N)
    <3>1. n <= lane /\ lane' = 0
      BY <2>0, <2>2, <2>9
    <3>2. CASE i + 1 < Rounds
      BY <1>1, <2>0, <2>4, <2>9, <3>1, <3>2 DEF Stage, TurnTo, x, g
    <3>3. CASE ~(i + 1 < Rounds)
      <4>1. i + 1 = Rounds
        BY <1>2, <2>7, <3>3, ScratchpadAssumption
      <4> QED BY <1>1, <2>0, <2>6, <2>9, <3>1, <3>3, <4>1 DEF Stage, TurnTo, x, g
    <3> QED BY <3>2, <3>3
  <2> QED BY <2>8, <2>9
<1> QED BY <1>6, <1>7 DEF IInv, Staged

(* CN_FINALIZE keeps IInv. *)
LEMMA InvFinalize == IInv /\ Finalize => IInv'
<1> SUFFICES ASSUME IInv, Finalize PROVE IInv'
  OBVIOUS
<1> DEFINE h == seed[lane]
           y == AfterFinalize
<1>1. pc = "finalize" /\ Becomes(y) /\ TurnTo("implode", "done") /\ i' = i
  BY DEF Finalize, AfterFinalize
<1>2. lane \in Lanes /\ i \in Nat /\ h \in HashState /\ Control /\ i = 0
  BY <1>1 DEF IInv, Control, Steps
<1> HIDE DEF y
<1>3. /\ DOMAIN cn' = Lanes /\ cn'[lane] = y
      /\ \A n \in Lanes : n # lane => cn'[n] = cn[n]
  BY <1>1, <1>2, OneMoves DEF TurnTo
<1>4. Imploded(c, h)
  BY <1>1, <1>2 DEF IInv, Staged, Stage, c, Lanes
<1> HIDE DEF h
<1>5. Finished(y, h)
  BY <1>2, <1>4, FinalizeEnds DEF y
<1>6. Control'
  BY <1>1, <1>2, <1>3, LanesFacts, ScratchpadAssumption, BlocksFacts DEF Control, Steps, TurnTo
<1>7. ASSUME NEW n \in Lanes PROVE Stage(pc, lane, i, n, cn[n], seed[n])'
  <2>0. n \in 0..(N - 1) /\ lane \in 0..(N - 1) /\ N \in Nat /\ seed' = seed
    BY <1>1, <1>2, LanesFacts DEF Lanes, TurnTo
  <2>1. lane + 1 < N => lane' = lane + 1
    BY <1>1, <1>2, LanesFacts DEF TurnTo
  <2>2. ~(lane + 1 < N) => lane' = 0 /\ lane = N - 1
    BY <1>1, <1>2, LanesFacts DEF TurnTo
  <2>3. Stage(pc, lane, i, n, cn[n], seed[n])
    BY DEF IInv, Staged
  <2> DEFINE x == cn'[n]
             g == seed'[n]
  <2>4. n <= lane => Finished(x, g)
    <3>1. CASE n = lane
      <4>1. x = y /\ g = h
        BY <1>3, <2>0, <3>1 DEF h
      <4> QED BY <1>5, <4>1
    <3>2. CASE n # lane
      <4>1. x = cn[n] /\ g = seed[n]
        BY <1>3, <2>0, <3>2
      <4>2. n < lane => Finished(cn[n], seed[n])
        BY <1>1, <2>3 DEF Stage
      <4> QED BY <2>0, <3>2, <4>1, <4>2
    <3> QED BY <3>1, <3>2
  <2>5. n > lane => AtStep1(x, g, Mixed(g, Rounds))
    <3>1. n > lane => n # lane /\ AtStep1(cn[n], seed[n], Mixed(seed[n], Rounds))
      BY <1>1, <2>0, <2>3 DEF Stage
    <3> QED BY <1>3, <2>0, <3>1
  <2> HIDE DEF x, g
  <2>6. n > lane => Imploding(x, g, 0)
    BY <2>5, StartsImploding
  <2>7. CASE lane + 1 < N
    BY <1>1, <1>2, <2>0, <2>1, <2>4, <2>5, <2>6, <2>7 DEF Stage, TurnTo, x, g
  <2>8. CASE ~(lane + 1 < N)
    BY <1>1, <2>0, <2>2, <2>4, <2>8 DEF Stage, TurnTo, x, g
  <2> QED BY <2>7, <2>8
<1> QED BY <1>6, <1>7 DEF IInv, Staged

(* A pass of cn_implode_scratchpad keeps IInv. *)
LEMMA InvImplode == IInv /\ Implode => IInv'
<1> SUFFICES ASSUME IInv, Implode PROVE IInv'
  OBVIOUS
<1> DEFINE h == seed[lane]
           y == IF i + 8 < Blocks THEN AfterImplodePass ELSE AfterImplode
<1>1. /\ pc = "implode" /\ Becomes(y) /\ seed' = seed /\ lane' = lane
      /\ IF i + 8 < Blocks THEN i' = i + 8 /\ pc' = pc ELSE i' = 0 /\ pc' = "finalize"
  BY DEF Implode, AfterImplodePass, AfterImplode, ImplodeText
<1>2. lane \in Lanes /\ i \in Nat /\ i % 8 = 0 /\ i < Blocks /\ h \in HashState /\ Control
  BY <1>1 DEF IInv, Control
<1>3. Imploding(c, h, i)
  BY <1>1, <1>2 DEF IInv, Staged, Stage, c
<1> HIDE DEF y
<1>4. /\ DOMAIN cn' = Lanes /\ cn'[lane] = y
      /\ \A n \in Lanes : n # lane => cn'[n] = cn[n]
  BY <1>1, <1>2, OneMoves
<1> HIDE DEF h
<1>5. /\ i + 8 < Blocks => Imploding(y, h, i + 8)
      /\ ~(i + 8 < Blocks) => Imploded(y, h)
  BY <1>2, <1>3, ImplodePass DEF y
<1>6. Control'
  <2>1. (i + 8) % 8 = 0
    BY <1>2, EightMore
  <2> QED BY <1>1, <1>2, <1>4, <2>1 DEF Control, Steps
<1>7. ASSUME NEW n \in Lanes PROVE Stage(pc, lane, i, n, cn[n], seed[n])'
  <2>1. CASE n = lane
    <3>1. cn'[n] = y /\ seed'[n] = h /\ ~(n < lane) /\ ~(n > lane)
      BY <1>1, <1>2, <1>4, <2>1 DEF h, Lanes
    <3> QED BY <1>1, <1>5, <2>1, <3>1 DEF Stage
  <2>2. CASE n # lane
    <3>1. cn'[n] = cn[n] /\ seed'[n] = seed[n]
      BY <1>1, <1>4, <2>2
    <3>2. Stage(pc, lane, i, n, cn[n], seed[n])
      BY DEF IInv, Staged
    <3> QED BY <1>1, <2>2, <3>1, <3>2 DEF Stage
  <2> QED BY <2>1, <2>2
<1> QED BY <1>6, <1>7 DEF IInv, Staged

(* Every lane of Cryptonight_hash (cryptonight_aesni.h:793-939) is where   *)
(* the definition of the hash has been after so many rounds and macros:    *)
(* those that had their turn one macro further than those that wait.       *)
THEOREM InvHolds == Spec => []IInv
<1>1. IInv /\ [Next]_vars => IInv'
  <2> SUFFICES ASSUME IInv, [Next]_vars PROVE IInv'
    OBVIOUS
  <2>1. CASE Explode
    BY <2>1, InvExplode
  <2>2. CASE InitRegisters
    BY <2>2, InvInitRegisters
  <2>3. CASE Step1
    BY <2>3, InvStep1
  <2>4. CASE Step2
    BY <2>4, InvStep2
  <2>5. CASE Step3
    BY <2>5, InvStep3
  <2>6. CASE Step4
    BY <2>6, InvStep4
  <2>7. CASE Implode
    BY <2>7, InvImplode
  <2>8. CASE Finalize
    BY <2>8, InvFinalize
  <2>9. CASE UNCHANGED vars
    BY <2>9 DEF vars, IInv, Control, Staged
  <2> QED BY <2>1, <2>2, <2>3, <2>4, <2>5, <2>6, <2>7, <2>8, <2>9 DEF Next
<1> QED BY InvInit, <1>1, PTL DEF Spec

(* At the head of the main loop (cryptonight_aesni.h:775-791) the          *)
(* registers and the scratchpad of every lane are those of the definition  *)
(* after so many rounds, for every number of lanes, size of the            *)
(* scratchpad, cipher and precision.                                       *)
THEOREM MixesAsDefinedHolds == Spec => []MixesAsDefined
<1>1. IInv => MixesAsDefined
  <2> SUFFICES ASSUME IInv, pc = "step1", lane = 0, NEW n \in Lanes
               PROVE  Mixed(seed[n], i) =
                        [pad |-> cn[n].long_state, a |-> cn[n].ax0, b0 |-> cn[n].bx0, b1 |-> cn[n].bx1,
                         division |-> cn[n].division_result, root |-> cn[n].sqrt_result]
    BY DEF MixesAsDefined
  <2>1. n \in Nat /\ seed[n] \in HashState /\ i \in Nat
    BY LanesFacts DEF IInv, Control
  <2> DEFINE m == Mixed(seed[n], i)
  <2>2. AtStep1(cn[n], seed[n], m)
    BY <2>1 DEF IInv, Staged, Stage
  <2>3. m \in MixState
    BY <2>1, MixedSteps
  <2> HIDE DEF m
  <2>4. m = [pad |-> m.pad, a |-> m.a, b0 |-> m.b0, b1 |-> m.b1, division |-> m.division, root |-> m.root]
    BY <2>3 DEF MixState
  <2> QED BY <2>2, <2>4 DEF AtStep1, HasRegisters, m
<1> QED BY InvHolds, <1>1, PTL

(* Cryptonight_hash computes the hash that is defined of the Keccak state  *)
(* of each lane, whatever the memory of the scratchpads held before        *)
(* (cryptonight_aesni.h:793-939).                                          *)
THEOREM HashesAsDefinedHolds == Spec => []HashesAsDefined
<1>1. IInv => HashesAsDefined
  BY DEF IInv, Staged, Stage, Finished, HashesAsDefined, IsSlowHash
<1> QED BY InvHolds, <1>1, PTL

(* The root of every round that any state leads to is exact unless it is   *)
(* the root of one of the largest words (int_sqrt33_1_double_precision,    *)
(* cryptonight_aesni.h:427-448).                                           *)
THEOREM RootIsExactHolds == Spec => []RootIsExact
<1>1. IInv => RootIsExact
  <2> SUFFICES ASSUME IInv, pc = "step4"
               PROVE  LET n == Add(c.cx[1], c.division_result)
                      IN  /\ n + 2 * Half <= Modulus => IsExact(c.sqrt_result, n)
                          /\ IsExact(c.sqrt_result, n) \/ IsExact(c.sqrt_result - 1, n)
    BY DEF RootIsExact
  <2>1. lane \in Lanes /\ lane >= lane /\ seed[lane] \in HashState /\ i \in Nat
    BY LanesFacts DEF IInv, Control
  <2> DEFINE m == Mixed(seed[lane], i)
             n == Add(c.cx[1], c.division_result)
  <2>2. AtStep4(c, seed[lane], m)
    BY <2>1 DEF IInv, Staged, Stage, c
  <2>3. m \in MixState
    BY <2>1, MixedSteps
  <2> HIDE DEF m
  <2>4. n \in Words /\ c.sqrt_result = int_sqrt33_1(n, "down")
    <3>1. Cipher(m)[1] \in Words /\ Quotient(m) \in Words
      BY <2>3, PartTypes, BlockFacts
    <3>2. n = Add(Cipher(m)[1], Quotient(m)) /\ c.sqrt_result = int_sqrt33_1(Add(Cipher(m)[1], Quotient(m)), "down")
      BY <2>2 DEF AtStep4
    <3> HIDE DEF n
    <3> QED BY <3>1, <3>2, SumType
  <2> HIDE DEF n
  <2>5. /\ n + 2 * Half <= Modulus => IsExact(int_sqrt33_1(n, "down"), n)
        /\ IsExact(int_sqrt33_1(n, "down"), n) \/ IsExact(int_sqrt33_1(n, "down") - 1, n)
    BY <2>4, SqrtExactBelow DEF Words
  <2> QED BY <2>4, <2>5 DEF n
<1> QED BY InvHolds, <1>1, PTL

(* The quotient of every round fits beside its remainder but for one bit   *)
(* (CN_MONERO_V8_DIV, cryptonight_aesni.h:582-593).  In words of four bits *)
(* the bound of the comment there is not met.                              *)
THEOREM DivisionFitsHolds == ASSUME Half > 4 PROVE Spec => []DivisionFits
<1>1. IInv => DivisionFits
  <2> SUFFICES ASSUME IInv, pc = "step3"
               PROVE  LET d == Divisor(c.cx[1], c.sqrt_result)
                      IN  /\ c.cx[2] \div d <= 2 * Half - 4
                          /\ Divided(c.cx[2], d) \div Half = c.cx[2] % d
    BY DEF DivisionFits
  <2>1. lane \in Lanes /\ lane >= lane /\ seed[lane] \in HashState /\ i \in Nat
    BY LanesFacts DEF IInv, Control
  <2> DEFINE m == Mixed(seed[lane], i)
  <2>2. AtStep3(c, seed[lane], m)
    BY <2>1 DEF IInv, Staged, Stage, c
  <2>3. m \in MixState
    BY <2>1, MixedSteps
  <2> HIDE DEF m
  <2>4. c.cx[2] \in Words /\ c.cx[1] \in Nat /\ c.sqrt_result \in Nat
    <3>1. c.cx = Cipher(m) /\ c.sqrt_result = m.root
      BY <2>2 DEF AtStep3, HasRegisters
    <3> QED BY <2>3, <3>1, PartTypes, BlockFacts, MixTypes
  <2> QED BY <2>4, DivisionPacks
<1> QED BY InvHolds, <1>1, PTL
=============================================================================
