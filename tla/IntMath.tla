------------------------------ MODULE IntMath ------------------------------
(***************************************************************************)
(* The integer mathematics of cryptonight_monero_v8 (cryptonight_aesni.h): *)
(* CN_MONERO_V8_DIV, a division by a divisor that is neither small nor     *)
(* even, and int_sqrt33_1_double_precision, which finds                    *)
(* 2 * sqrt(Modulus + n) - 2 * Half, rounded down, for a word n, with one  *)
(* square root in floating point and one multiplication that corrects it.  *)
(*                                                                         *)
(* In the code a word has 64 bits: Lost = 2^12, Spare = 2^19, and so       *)
(* Half = 2^32, Modulus = 2^64 and One = 2^52.                             *)
(***************************************************************************)
EXTENDS Integers

CONSTANTS
  Lost,       \* the words that are converted to the same double (n0 >> 12)
  Spare       \* the doubles that are cut to the same result (r >>= 19)

ASSUME PrecisionAssumption == Lost \in Nat \ {0} /\ Spare \in Nat \ {0}
ASSUME EvenAssumption == (Spare * Lost) % 2 = 0

Half == 2 * Spare * Lost
Modulus == Half * Half
One == 2 * Spare * Half         \* 1.0, in units of the last place of the doubles in [1, 2)

Words == 0..(Modulus - 1)

IsRoot(k, m) == k * k <= m /\ m < (k + 1) * (k + 1)

(* The double 1 + n / 2^64, cut off to the precision there is. *)
Converted(n) == One + n \div Lost

(* The square root of a double in [1, 2), in a rounding mode: "down" is    *)
(* FE_DOWNWARD, "nearest" the one a thread starts with.                    *)
SqrtSd(x, mode) ==
  CHOOSE k \in One..(2 * One) :
    IF mode = "down" THEN IsRoot(k, x * One)
                     ELSE k * k - k < x * One /\ x * One <= k * k + k

(* r and s as the code cuts them from the root, without the bits of the    *)
(* exponent: these are shifted out of every use of the result.             *)
Cut(k) == k \div Spare
CutToHalf(k) == k \div (2 * Spare)

(* x2, a word: the product loses what exceeds one. *)
Square(k) == (CutToHalf(k) * (Cut(k) - CutToHalf(k) + 1)) % Modulus

CorrectedLate(k, n) == Cut(k) + (IF Square(k) <= n THEN 1 ELSE 0) - 2 * Half      \* Mutant: the borrow of a comparison with <=
UncorrectedRoot(k, n) == Cut(k) - 2 * Half                                        \* Mutant: no correction
Corrected(k, n) == Cut(k) + (IF Square(k) < n THEN 1 ELSE 0) - 2 * Half

int_sqrt33_1(n, mode) == Corrected(SqrtSd(Converted(n), mode), n)

(* What the result should be. *)
IsExact(r, n) == IsRoot(2 * Half + r, 4 * (Modulus + n))
-----------------------------------------------------------------------------
(* d: the low half of a word, with its first and its last bit set.         *)
EvenDivisor(cx, root) == (Half \div 2) + ((cx + 2 * root) % (Half \div 2))     \* Mutant: the last bit is not set
SmallDivisor(cx, root) == LET x == (cx + 2 * root) % Half IN (x + 1) - (x % 2)  \* Mutant: the first bit is not set
Divisor(cx, root) ==
  LET x == (Half \div 2) + ((cx + 2 * root) % (Half \div 2))
  IN  (x + 1) - (x % 2)

(* The quotient without its highest bit, and above it the remainder.       *)
Divided(dividend, d) == (((dividend \div d) % Half) + (dividend % d) * Half) % Modulus
=============================================================================
