-------------------------- MODULE WadRayMathProofs --------------------------
(***************************************************************************)
(* What the rounding of rayMul and rayDiv guarantees.  The protocol keeps  *)
(* scaled balances and compares unscaled ones; these lemmas are the reason *)
(* the two agree when a position is closed.  The lemmas at the end are     *)
(* about sums over finite sets, which the proofs about the pool's health   *)
(* and about the market need.                                              *)
(***************************************************************************)
EXTENDS WadRayMath, FiniteSetsExt, FiniteSetTheorems, TLAPS

(* Euclidean division: the quotient is the only q with q*b <= a < (q+1)*b. *)
LEMMA DivBounds ==
    ASSUME NEW a \in Nat, NEW b \in Nat \ {0}
    PROVE  /\ a \div b \in Nat
           /\ (a \div b) * b <= a
           /\ a < (a \div b) * b + b
  BY SMT

LEMMA DivUnique ==
    ASSUME NEW a \in Nat, NEW b \in Nat \ {0}, NEW q \in Nat,
           q * b <= a, a < q * b + b
    PROVE  a \div b = q
  BY SMT

(* Products of naturals, the only non-linear facts the lemmas below need.  *)
LEMMA ProductNat ==
    ASSUME NEW a \in Nat, NEW b \in Nat
    PROVE  a * b \in Nat
  BY SMT

LEMMA ProductMonotone ==
    ASSUME NEW a \in Nat, NEW b \in Nat, NEW c \in Nat, a <= b
    PROVE  a * c <= b * c
  BY SMT

LEMMA QuotientMonotone ==
    ASSUME NEW a \in Nat, NEW c \in Nat, NEW b \in Nat \ {0}, a <= c
    PROVE  a \div b <= c \div b
<1> DEFINE p == a \div b
           q == c \div b
<1>1. p \in Nat /\ p * b <= a
  BY DivBounds
<1>2. q \in Nat /\ c < q * b + b
  BY DivBounds
<1>3. SUFFICES ASSUME q + 1 <= p PROVE FALSE
  BY <1>1, <1>2
<1> HIDE DEF p, q
<1>4. (q + 1) * b <= p * b
  BY <1>1, <1>2, <1>3, ProductMonotone
<1>5. (q + 1) * b = q * b + b
  BY <1>2
<1>6. q * b \in Nat /\ p * b \in Nat
  BY <1>1, <1>2
<1> QED
  BY <1>1, <1>2, <1>4, <1>5, <1>6

(* The results of the two operations are naturals.                         *)
LEMMA RayMulNat ==
    ASSUME NEW a \in Nat, NEW b \in Nat
    PROVE  rayMul(a, b) \in Nat
<1>1. HALF_RAY \in Nat
  BY ScaleAssumption DEF HALF_RAY
<1>2. a * b + HALF_RAY \in Nat
  BY <1>1, ProductNat
<1> QED
  BY <1>2, DivBounds, ScaleAssumption DEF rayMul

LEMMA RayDivNat ==
    ASSUME NEW a \in Nat, NEW b \in Nat \ {0}
    PROVE  rayDiv(a, b) \in Nat
<1>1. a * RAY \in Nat
  BY ProductNat, ScaleAssumption
<1>2. b \div 2 \in Nat
  OBVIOUS
<1>3. a * RAY + b \div 2 \in Nat
  BY <1>1, <1>2
<1>4. (a * RAY + b \div 2) \div b \in Nat
  BY <1>3, DivBounds
<1> QED
  BY <1>4 DEF rayDiv

(* A scaled amount survives the round trip through its unscaled value at   *)
(* any index that has not fallen below one ray.  This is why burning the   *)
(* whole unscaled debt burns the whole scaled debt, and nothing is left    *)
(* behind a borrowing flag that was cleared.                               *)
LEMMA RoundTrip ==
    ASSUME NEW s \in Nat, NEW index \in Nat, index >= RAY
    PROVE  rayDiv(rayMul(s, index), index) = s
<1> DEFINE p == s * index
           m == rayMul(s, index)
           q == m * RAY
<1>1. /\ HALF_RAY \in Nat
      /\ RAY = 2 * HALF_RAY
      /\ RAY \in Nat \ {0}
      /\ index \in Nat \ {0}
  BY ScaleAssumption DEF HALF_RAY
<1>2. p \in Nat
  BY ProductNat
<1>3. m \in Nat /\ q <= p + HALF_RAY /\ p + HALF_RAY < q + RAY
  <2> HIDE DEF p
  <2>1. p + HALF_RAY \in Nat
    BY <1>1, <1>2
  <2>2. m = (p + HALF_RAY) \div RAY
    BY DEF rayMul, p
  <2> HIDE DEF m
  <2> QED
    BY <2>1, <2>2, <1>1, DivBounds
<1>4. q \in Nat
  BY <1>1, <1>3, ProductNat
<1>5. CASE index = RAY
  <2>1. q = p
    <3>1. m = s
      <4>1. s * RAY <= p + HALF_RAY /\ p + HALF_RAY < s * RAY + RAY
        BY <1>1, <1>2, <1>5
      <4> QED
        BY <4>1, <1>1, <1>2, DivUnique DEF rayMul
    <3> QED
      BY <3>1, <1>5
  <2>2. s * index <= q + index \div 2 /\ q + index \div 2 < s * index + index
    BY <2>1, <1>1, <1>2
  <2>3. q + index \div 2 \in Nat
    BY <1>1, <1>4
  <2> HIDE DEF q
  <2>4. (q + index \div 2) \div index = s
    BY <2>2, <2>3, <1>1, DivUnique
  <2> QED
    BY <2>4 DEF rayDiv, q
<1>6. CASE index > RAY
  <2>1. /\ index \div 2 \in Nat
        /\ HALF_RAY <= index \div 2
        /\ HALF_RAY + index \div 2 < index
    BY <1>1, <1>6
  <2> HIDE DEF m
  <2>2. p <= q + index \div 2 /\ q + index \div 2 < p + index
    <3> HIDE DEF p, q
    <3> QED
      BY <2>1, <1>1, <1>2, <1>3, <1>4
  <2>3. q + index \div 2 \in Nat
    BY <2>1, <1>4
  <2> HIDE DEF q
  <2>4. (q + index \div 2) \div index = s
    BY <2>2, <2>3, <1>1, DivUnique
  <2> QED
    BY <2>4 DEF rayDiv, q, m
<1> QED
  BY <1>5, <1>6, <1>1

(* Any amount up to the unscaled balance can be burned from the scaled     *)
(* balance: the subtraction in _burnScaled and in the aToken transfer      *)
(* cannot underflow for an amount the callers let through.                 *)
LEMMA BurnWithinBalance ==
    ASSUME NEW s \in Nat, NEW index \in Nat, index >= RAY,
           NEW amount \in Nat, amount <= rayMul(s, index)
    PROVE  rayDiv(amount, index) <= s
<1>1. RAY \in Nat /\ index \in Nat \ {0}
  BY ScaleAssumption
<1>2. rayMul(s, index) \in Nat
  BY RayMulNat
<1>3. amount * RAY <= rayMul(s, index) * RAY
  BY <1>1, <1>2, ProductMonotone
<1>4. /\ amount * RAY + index \div 2 \in Nat
      /\ rayMul(s, index) * RAY + index \div 2 \in Nat
      /\ amount * RAY + index \div 2 <= rayMul(s, index) * RAY + index \div 2
  <2>1. amount * RAY \in Nat /\ rayMul(s, index) * RAY \in Nat
    BY <1>1, <1>2, ProductNat
  <2>2. index \div 2 \in Nat
    OBVIOUS
  <2> QED
    BY <2>1, <2>2, <1>3
<1>5. rayDiv(amount, index) <= rayDiv(rayMul(s, index), index)
  BY <1>1, <1>4, QuotientMonotone DEF rayDiv
<1> QED
  BY <1>5, RoundTrip

(* A naught stays naught under both operations, and only a naught is       *)
(* reported as one.                                                        *)
LEMMA RayMulZero ==
    ASSUME NEW s \in Nat, NEW index \in Nat, index >= RAY
    PROVE  rayMul(s, index) = 0 <=> s = 0
<1>1. RAY \in Nat \ {0} /\ HALF_RAY \in Nat /\ HALF_RAY < RAY
  BY ScaleAssumption DEF HALF_RAY
<1>2. ASSUME s = 0 PROVE rayMul(s, index) = 0
  <2>1. s * index = 0
    BY <1>2
  <2>2. 0 * RAY <= HALF_RAY /\ HALF_RAY < 0 * RAY + RAY
    BY <1>1
  <2>3. HALF_RAY \div RAY = 0
    BY <1>1, <2>2, DivUnique
  <2> QED
    BY <1>1, <2>1, <2>3 DEF rayMul
<1>3. ASSUME rayMul(s, index) = 0 PROVE s = 0
  <2>1. rayDiv(0, index) = s
    BY <1>3, RoundTrip
  <2>2. index \div 2 \in Nat /\ index \div 2 < 0 * index + index /\ 0 * index <= index \div 2
    BY <1>1
  <2>3. (index \div 2) \div index = 0
    BY <1>1, <2>2, DivUnique
  <2>4. rayDiv(0, index) = 0
    BY <1>1, <2>3 DEF rayDiv
  <2> QED
    BY <2>1, <2>4
<1> QED
  BY <1>2, <1>3

(* A larger index makes an amount larger.                                  *)
LEMMA RayMulMonotone ==
    ASSUME NEW s \in Nat, NEW i \in Nat, NEW j \in Nat, i <= j
    PROVE  rayMul(s, i) <= rayMul(s, j)
<1>1. HALF_RAY \in Nat /\ RAY \in Nat \ {0}
  BY ScaleAssumption DEF HALF_RAY
<1>2. i * s <= j * s /\ i * s \in Nat /\ j * s \in Nat
  BY ProductMonotone, ProductNat
<1>3. s * i = i * s /\ s * j = j * s
  OBVIOUS
<1>4. s * i + HALF_RAY \in Nat /\ s * j + HALF_RAY \in Nat
      /\ s * i + HALF_RAY <= s * j + HALF_RAY
  BY <1>1, <1>2, <1>3
<1> QED
  BY <1>1, <1>4, QuotientMonotone DEF rayMul

LEMMA RayMulMonotoneLeft ==
    ASSUME NEW s \in Nat, NEW t \in Nat, NEW i \in Nat, s <= t
    PROVE  rayMul(s, i) <= rayMul(t, i)
<1>1. rayMul(s, i) = rayMul(i, s) /\ rayMul(t, i) = rayMul(i, t)
  BY DEF rayMul
<1> QED
  BY <1>1, RayMulMonotone

(* One ray and more never shrinks what it multiplies.                      *)
LEMMA RayMulGrows ==
    ASSUME NEW x \in Nat, NEW i \in Nat
    PROVE  i <= rayMul(x + RAY, i)
<1>1. HALF_RAY \in Nat /\ HALF_RAY < RAY /\ RAY \in Nat \ {0}
  BY ScaleAssumption DEF HALF_RAY
<1>2. RAY * i <= (x + RAY) * i /\ RAY * i \in Nat /\ (x + RAY) * i \in Nat
  BY <1>1, ProductMonotone, ProductNat
<1>3. i * RAY = RAY * i
  BY <1>1
<1>4. (RAY * i + HALF_RAY) \div RAY = i
  <2>1. RAY * i + HALF_RAY \in Nat /\ i * RAY <= RAY * i + HALF_RAY
        /\ RAY * i + HALF_RAY < i * RAY + RAY
    BY <1>1, <1>2, <1>3
  <2> QED
    BY <1>1, <2>1, DivUnique
<1>5. RAY * i + HALF_RAY \in Nat /\ (x + RAY) * i + HALF_RAY \in Nat
      /\ RAY * i + HALF_RAY <= (x + RAY) * i + HALF_RAY
  BY <1>1, <1>2
<1>6. (RAY * i + HALF_RAY) \div RAY <= ((x + RAY) * i + HALF_RAY) \div RAY
  BY <1>1, <1>5, QuotientMonotone
<1> QED
  BY <1>4, <1>6 DEF rayMul

(* From one ray on, a larger amount is worth strictly more.                *)
LEMMA RayMulStrict ==
    ASSUME NEW s \in Nat, NEW t \in Nat, NEW i \in Nat, RAY <= i, s < t
    PROVE  rayMul(s, i) < rayMul(t, i)
<1>1. HALF_RAY \in Nat /\ RAY \in Nat \ {0}
  BY ScaleAssumption DEF HALF_RAY
<1>2. s * i \in Nat /\ (s + 1) * i \in Nat /\ t * i \in Nat /\ (s + 1) * i <= t * i
  BY ProductMonotone, ProductNat
<1>3. (s + 1) * i = s * i + i
  OBVIOUS
<1> DEFINE x == s * i + HALF_RAY
           y == t * i + HALF_RAY
<1>4. x \in Nat /\ y \in Nat /\ x + RAY <= y
  BY <1>1, <1>2, <1>3
<1> HIDE DEF x, y
<1>5. (x + RAY) \div RAY = x \div RAY + 1
  <2>1. /\ x \div RAY \in Nat /\ (x \div RAY) * RAY <= x
        /\ x < (x \div RAY) * RAY + RAY
    BY <1>1, <1>4, DivBounds
  <2>2. (x \div RAY + 1) * RAY = (x \div RAY) * RAY + RAY
    BY <1>1, <2>1
  <2> QED
    BY <1>1, <1>4, <2>1, <2>2, DivUnique
<1>6. (x + RAY) \div RAY <= y \div RAY
  BY <1>1, <1>4, QuotientMonotone
<1>7. x \div RAY \in Nat /\ y \div RAY \in Nat
  BY <1>1, <1>4, DivBounds
<1> QED
  BY <1>5, <1>6, <1>7 DEF rayMul, x, y

(* Percentages of naturals are naturals.                                   *)
LEMMA PercentMulNat ==
    ASSUME NEW a \in Nat, NEW b \in Nat
    PROVE  percentMul(a, b) \in Nat
<1>1. HALF_PERCENTAGE_FACTOR \in Nat /\ PERCENTAGE_FACTOR \in Nat \ {0}
  BY ScaleAssumption DEF HALF_PERCENTAGE_FACTOR
<1>2. a * b + HALF_PERCENTAGE_FACTOR \in Nat
  BY <1>1, ProductNat
<1> QED
  BY <1>1, <1>2, DivBounds DEF percentMul

LEMMA PercentDivNat ==
    ASSUME NEW a \in Nat, NEW b \in Nat \ {0}
    PROVE  percentDiv(a, b) \in Nat
<1>1. a * PERCENTAGE_FACTOR \in Nat
  BY ProductNat, ScaleAssumption
<1>2. b \div 2 \in Nat
  OBVIOUS
<1>3. a * PERCENTAGE_FACTOR + b \div 2 \in Nat
  BY <1>1, <1>2
<1>4. (a * PERCENTAGE_FACTOR + b \div 2) \div b \in Nat
  BY <1>3, DivBounds
<1> QED
  BY <1>4 DEF percentDiv

(* Dividing and multiplying back misses by at most half an index, either   *)
(* way: the price of keeping scaled balances.                              *)
LEMMA RayDivRounds ==
    ASSUME NEW x \in Nat, NEW index \in Nat \ {0}
    PROVE  /\ rayDiv(x, index) * index - x * RAY <= index \div 2
           /\ x * RAY - rayDiv(x, index) * index <= index \div 2
<1> DEFINE n == x * RAY + index \div 2
           q == n \div index
<1>1. x * RAY \in Nat
  BY ProductNat, ScaleAssumption
<1>2. index \div 2 \in Nat /\ index <= 2 * (index \div 2) + 1
  OBVIOUS
<1>3. n \in Nat
  BY <1>1, <1>2
<1>4. q \in Nat /\ q * index <= n /\ n < q * index + index
  <2> HIDE DEF n
  <2> QED
    BY <1>3, DivBounds
<1>5. rayDiv(x, index) = q
  BY DEF rayDiv
<1>6. q * index \in Nat
  <2> HIDE DEF q
  <2> QED
    BY <1>4, ProductNat
<1>7. n = x * RAY + index \div 2
  OBVIOUS
<1> HIDE DEF n, q
<1>8. /\ q * index - x * RAY <= index \div 2
      /\ x * RAY - q * index <= index \div 2
  BY <1>1, <1>2, <1>3, <1>4, <1>6, <1>7
<1> QED
  BY <1>5, <1>8

(* The same of multiplying: by at most half a ray, and less downwards.     *)
LEMMA RayMulRounds ==
    ASSUME NEW a \in Nat, NEW b \in Nat
    PROVE  /\ rayMul(a, b) * RAY <= a * b + HALF_RAY
           /\ a * b + 1 <= rayMul(a, b) * RAY + HALF_RAY
<1> DEFINE n == a * b + HALF_RAY
           q == n \div RAY
<1>1. HALF_RAY \in Nat /\ RAY = 2 * HALF_RAY /\ RAY \in Nat \ {0}
  BY ScaleAssumption DEF HALF_RAY
<1>2. a * b \in Nat
  BY ProductNat
<1>3. n \in Nat
  BY <1>1, <1>2
<1>4. q \in Nat /\ q * RAY <= n /\ n < q * RAY + RAY
  <2> HIDE DEF n
  <2> QED
    BY <1>1, <1>3, DivBounds
<1>5. rayMul(a, b) = q
  BY DEF rayMul
<1>6. q * RAY \in Nat
  <2> HIDE DEF q
  <2> QED
    BY <1>1, <1>4, ProductNat
<1>7. n = a * b + HALF_RAY
  OBVIOUS
<1> HIDE DEF n, q
<1>8. /\ q * RAY <= a * b + HALF_RAY
      /\ a * b + 1 <= q * RAY + HALF_RAY
  BY <1>1, <1>2, <1>3, <1>4, <1>6, <1>7
<1> QED
  BY <1>5, <1>8

(* A percentage of no more than the whole takes no more than the amount.   *)
LEMMA PercentMulBounded ==
    ASSUME NEW a \in Nat, NEW p \in 0..PERCENTAGE_FACTOR
    PROVE  percentMul(a, p) \in Nat /\ percentMul(a, p) <= a
<1> DEFINE n == a * p + HALF_PERCENTAGE_FACTOR
           q == n \div PERCENTAGE_FACTOR
<1>1. /\ PERCENTAGE_FACTOR \in Nat \ {0} /\ HALF_PERCENTAGE_FACTOR \in Nat
      /\ PERCENTAGE_FACTOR = 2 * HALF_PERCENTAGE_FACTOR /\ p \in Nat
  BY ScaleAssumption DEF HALF_PERCENTAGE_FACTOR
<1>2. a * p \in Nat /\ a * PERCENTAGE_FACTOR \in Nat /\ a * p <= a * PERCENTAGE_FACTOR
  <2>1. p <= PERCENTAGE_FACTOR
    OBVIOUS
  <2>2. p * a <= PERCENTAGE_FACTOR * a
    BY <1>1, <2>1, ProductMonotone
  <2> QED
    BY <1>1, <2>2, ProductNat
<1>3. n \in Nat /\ n < a * PERCENTAGE_FACTOR + PERCENTAGE_FACTOR
  BY <1>1, <1>2
<1>4. q \in Nat /\ q * PERCENTAGE_FACTOR <= n
  <2> HIDE DEF n
  <2> QED
    BY <1>1, <1>3, DivBounds
<1>5. percentMul(a, p) = q
  BY DEF percentMul
<1> HIDE DEF n, q
<1>6. q <= a
  <2> SUFFICES ASSUME a + 1 <= q PROVE FALSE
    BY <1>4
  <2>1. (a + 1) * PERCENTAGE_FACTOR <= q * PERCENTAGE_FACTOR
    BY <1>1, <1>4, ProductMonotone
  <2>2. (a + 1) * PERCENTAGE_FACTOR = a * PERCENTAGE_FACTOR + PERCENTAGE_FACTOR
    BY <1>1
  <2>3. q * PERCENTAGE_FACTOR \in Nat
    BY <1>1, <1>4, ProductNat
  <2> QED
    BY <1>1, <1>2, <1>3, <1>4, <2>1, <2>2, <2>3
<1> QED
  BY <1>4, <1>5, <1>6

LEMMA RayDivOfNothing ==
    ASSUME NEW b \in Nat \ {0}
    PROVE  rayDiv(0, b) = 0
<1>1. 0 * RAY = 0
  BY ScaleAssumption
<1>2. (b \div 2) \div b = 0
  <2>1. b \div 2 \in Nat /\ b \div 2 < b
    OBVIOUS
  <2> QED
    BY <2>1, DivUnique
<1> QED
  BY <1>1, <1>2 DEF rayDiv

(* Sharing an income out by raising an index: shares S and T, worth        *)
(* "total" at index i, gain no more than the income s and half of what     *)
(* they hold, whichever way the new index j was rounded.                   *)
SharedWithin(S, T, i, j, s, f, total) ==
    /\ (f * RAY) \div total \in Nat
    /\ (S + T) * (j - i)
         <= s * RAY + total \div 2 + (f * RAY) \div total + 1 + (S + T) \div 2

LEMMA IncomeShared ==
    ASSUME NEW S \in Nat, NEW T \in Nat, NEW i \in Nat, NEW s \in Nat, NEW f \in Nat, s <= f,
           NEW total \in Nat \ {0}, total = rayMul(S, i) + rayMul(T, i),
           NEW j \in Nat, j = rayMul(rayDiv(s, total) + RAY, i), i <= j
    PROVE  SharedWithin(S, T, i, j, s, f, total)
<1> DEFINE a == rayDiv(s, total)
           M == S + T
           k == (f * RAY) \div total
           H == HALF_RAY
           g == j - i
<1>1. RAY \in Nat \ {0} /\ H \in Nat \ {0} /\ RAY = 2 * H
  BY ScaleAssumption DEF HALF_RAY
<1>2. a \in Nat /\ M \in Nat /\ g \in Nat
  BY RayDivNat
<1>3. M * i <= total * RAY + RAY
  <2>1. /\ S * i + 1 <= rayMul(S, i) * RAY + H
        /\ T * i + 1 <= rayMul(T, i) * RAY + H
    BY RayMulRounds
  <2>2. rayMul(S, i) \in Nat /\ rayMul(T, i) \in Nat
    BY RayMulNat
  <2>3. /\ total * RAY = rayMul(S, i) * RAY + rayMul(T, i) * RAY
        /\ M * i = S * i + T * i
    BY <1>1, <2>2
  <2>4. /\ S * i \in Nat /\ T * i \in Nat /\ rayMul(S, i) * RAY \in Nat
        /\ rayMul(T, i) * RAY \in Nat
    BY <1>1, <2>2, ProductNat
  <2> HIDE DEF H, M
  <2> QED
    BY <1>1, <2>1, <2>3, <2>4
<1>4. g * RAY <= a * i + H
  <2>1. j * RAY <= (a + RAY) * i + H
    <3>1. a + RAY \in Nat
      BY <1>1, <1>2
    <3> QED
      BY <3>1, RayMulRounds
  <2> HIDE DEF a, H
  <2>2. (a + RAY) * i = a * i + RAY * i /\ g * RAY = j * RAY - i * RAY /\ RAY * i = i * RAY
    BY <1>1, <1>2
  <2>3. a * i \in Nat /\ i * RAY \in Nat /\ j * RAY \in Nat
    BY <1>1, <1>2, ProductNat
  <2> HIDE DEF g
  <2> QED
    BY <1>1, <2>1, <2>2, <2>3
<1>5. a * total <= s * RAY + total \div 2
  <2>1. a * total - s * RAY <= total \div 2
    BY RayDivRounds
  <2>2. a * total \in Nat /\ s * RAY \in Nat /\ total \div 2 \in Nat
    BY <1>1, <1>2, ProductNat
  <2> HIDE DEF a
  <2> QED
    BY <2>1, <2>2
<1>6. k \in Nat /\ a <= k + 1
  <2>1. f * RAY \in Nat /\ s * RAY <= f * RAY /\ s * RAY \in Nat
    BY <1>1, ProductNat, ProductMonotone
  <2>2. k \in Nat /\ f * RAY < k * total + total
    BY <2>1, DivBounds
  <2>3. k * total \in Nat /\ a * total \in Nat /\ total \div 2 \in Nat /\ total \div 2 <= total
    <3> HIDE DEF k, a
    <3> QED
      BY <1>2, <2>2, ProductNat
  <2> HIDE DEF k, a
  <2>4. a * total < k * total + total + total
    BY <1>5, <2>1, <2>2, <2>3
  <2>5. SUFFICES ASSUME k + 2 <= a PROVE FALSE
    BY <1>2, <2>2
  <2>6. (k + 2) * total <= a * total
    BY <1>2, <2>2, <2>5, ProductMonotone
  <2>7. (k + 2) * total = k * total + total + total
    BY <2>2
  <2> QED
    BY <2>3, <2>4, <2>6, <2>7
<1> HIDE DEF a, M, k, H, g
<1>7. M * g <= a * (total + 1) + M \div 2
  <2>1. (g * RAY) * M <= (a * i + H) * M
    <3>1. g * RAY \in Nat /\ a * i + H \in Nat
      BY <1>1, <1>2, ProductNat
    <3> QED
      BY <1>2, <1>4, <3>1, ProductMonotone
  <2>2. (M * i) * a <= (total * RAY + RAY) * a
    <3>1. M * i \in Nat /\ total * RAY + RAY \in Nat
      BY <1>1, <1>2, ProductNat
    <3> QED
      BY <1>2, <1>3, <3>1, ProductMonotone
  <2>3. /\ (a * i + H) * M = (M * i) * a + H * M
        /\ (total * RAY + RAY) * a = H * (2 * (a * (total + 1)))
        /\ (g * RAY) * M = H * (2 * (M * g))
    BY <1>1, <1>2
  <2>4. /\ M * g \in Nat /\ a * (total + 1) \in Nat /\ H * M \in Nat /\ (M * i) * a \in Nat
    BY <1>1, <1>2, ProductNat
  <2> DEFINE left == 2 * (M * g)
             right == 2 * (a * (total + 1)) + M
  <2>5. H * right = H * (2 * (a * (total + 1))) + H * M
    BY <1>1, <1>2, <2>4
  <2>6. left \in Nat /\ right \in Nat
    BY <1>2, <2>4
  <2>7. H * left <= H * right
    <3>1. /\ H * (2 * (M * g)) \in Nat /\ H * (2 * (a * (total + 1))) \in Nat
      BY <1>1, <2>4, ProductNat
    <3> QED
      BY <2>1, <2>2, <2>3, <2>4, <2>5, <3>1
  <2>8. left <= right
    <3> HIDE DEF left, right
    <3>1. SUFFICES ASSUME right + 1 <= left PROVE FALSE
      BY <2>6
    <3>2. (right + 1) * H <= left * H
      BY <1>1, <2>6, <3>1, ProductMonotone
    <3>3. (right + 1) * H = H * right + H /\ left * H = H * left
      BY <1>1, <2>6
    <3>4. H * right \in Nat /\ H * left \in Nat
      BY <1>1, <2>6, ProductNat
    <3> QED
      BY <1>1, <2>7, <3>2, <3>3, <3>4
  <2> QED
    BY <1>2, <2>4, <2>8
<1>8. a * (total + 1) = a * total + a
  BY <1>2
<1>9. /\ a * total \in Nat /\ s * RAY \in Nat /\ total \div 2 \in Nat /\ M \div 2 \in Nat
      /\ M * g \in Nat
  BY <1>1, <1>2, ProductNat
<1>10. M * g <= s * RAY + total \div 2 + k + 1 + M \div 2
  BY <1>2, <1>5, <1>6, <1>7, <1>8, <1>9
<1> QED
  BY <1>6, <1>10 DEF M, g, k, SharedWithin

-----------------------------------------------------------------------------
(* The units a group of holders has.  Counting them gives a sum to the     *)
(* theorems about finite sets.                                             *)
UnitsOf(h, holders) == UNION {{a} \X (1..h[a]) : a \in holders}
Counted(h, holders) == Cardinality(UnitsOf(h, holders))

LEMMA UnitsOfFinite ==
    ASSUME NEW S, IsFiniteSet(S), NEW h \in [S -> Nat], NEW H \in SUBSET S
    PROVE  IsFiniteSet(UnitsOf(h, H))
<1> DEFINE T == {{a} \X (1..h[a]) : a \in H}
           f == [a \in H |-> {a} \X (1..h[a])]
<1>1. IsFiniteSet(H)
  BY FS_Subset
<1>2. f \in Surjection(H, T)
  BY DEF Surjection
<1>3. IsFiniteSet(T)
  <2> HIDE DEF f, T
  <2> QED
    BY <1>1, <1>2, FS_Surjection
<1>4. ASSUME NEW a \in H PROVE IsFiniteSet({a} \X (1..h[a]))
  <2>1. h[a] \in Int /\ 1 \in Int
    OBVIOUS
  <2>2. IsFiniteSet(1..h[a])
    BY <2>1, FS_Interval
  <2> QED
    BY <2>2, FS_Singleton, FS_Product
<1>5. \A U \in T : IsFiniteSet(U)
  BY <1>4
<1> HIDE DEF T
<1>6. IsFiniteSet(UNION T)
  BY <1>3, <1>5, FS_UNION
<1> QED
  BY <1>6 DEF T, UnitsOf

(* One holder's units are as many as its weight, and nobody else's.        *)
LEMMA CountedSplit ==
    ASSUME NEW S, IsFiniteSet(S), NEW h \in [S -> Nat], NEW H \in SUBSET S, NEW a \in H
    PROVE  /\ Counted(h, H \ {a}) \in Nat
           /\ Counted(h, H) = h[a] + Counted(h, H \ {a})
<1> DEFINE mine == {a} \X (1..h[a])
           rest == UnitsOf(h, H \ {a})
<1>1. IsFiniteSet(rest)
  BY UnitsOfFinite
<1>2. h[a] \in Nat
  OBVIOUS
<1>3. IsFiniteSet(1..h[a]) /\ Cardinality(1..h[a]) = h[a]
  <2>1. /\ IsFiniteSet(1..h[a])
        /\ Cardinality(1..h[a]) = IF 1 > h[a] THEN 0 ELSE h[a] - 1 + 1
    BY <1>2, FS_Interval
  <2> QED
    BY <1>2, <2>1
<1>4. IsFiniteSet({a}) /\ Cardinality({a}) = 1
  BY FS_Singleton
<1>5. IsFiniteSet(mine) /\ Cardinality(mine) = h[a]
  <2>1. IsFiniteSet(mine) /\ Cardinality(mine) = Cardinality({a}) * Cardinality(1..h[a])
    BY <1>3, <1>4, FS_Product
  <2> QED
    BY <1>2, <1>3, <1>4, <2>1
<1>6. UnitsOf(h, H) = rest \cup mine
  BY DEF UnitsOf
<1>7. rest \cap mine = {}
  BY DEF UnitsOf
<1> HIDE DEF mine, rest
<1>8. Cardinality(rest) \in Nat
  BY <1>1, FS_CardinalityType
<1>9. Cardinality(rest \cup mine) = h[a] + Cardinality(rest)
  <2>1. Cardinality(rest \cup mine)
            = Cardinality(rest) + Cardinality(mine) - Cardinality(rest \cap mine)
    BY <1>1, <1>5, FS_Union
  <2>2. Cardinality(rest \cap mine) = 0
    BY <1>7, FS_EmptySet
  <2> QED
    BY <1>2, <1>5, <1>8, <2>1, <2>2
<1> QED
  BY <1>6, <1>8, <1>9 DEF rest, Counted

LEMMA CountedNothing ==
    ASSUME NEW h
    PROVE  Counted(h, {}) = 0
<1>1. UnitsOf(h, {}) = {}
  BY DEF UnitsOf
<1> QED
  BY <1>1, FS_EmptySet DEF Counted

LEMMA CountedSame ==
    ASSUME NEW h, NEW k, NEW H, \A a \in H : h[a] = k[a]
    PROVE  Counted(h, H) = Counted(k, H)
<1>1. \A a \in H : {a} \X (1..h[a]) = {a} \X (1..k[a])
  OBVIOUS
<1> QED
  BY <1>1 DEF UnitsOf, Counted

LEMMA CountedNat ==
    ASSUME NEW S, IsFiniteSet(S), NEW h \in [S -> Nat]
    PROVE  Counted(h, S) \in Nat
<1>1. IsFiniteSet(UnitsOf(h, S))
  BY UnitsOfFinite
<1> QED
  BY <1>1, FS_CardinalityType DEF Counted

(* A sum moves as the one summand that does.                               *)
LEMMA CountedMoves ==
    ASSUME NEW S, IsFiniteSet(S), NEW h \in [S -> Nat], NEW k \in [S -> Nat], NEW a \in S,
           \A d \in S \ {a} : k[d] = h[d]
    PROVE  Counted(k, S) = Counted(h, S) + k[a] - h[a]
<1>1. Counted(h, S \ {a}) = Counted(k, S \ {a})
  BY CountedSame
<1>2. /\ Counted(h, S \ {a}) \in Nat
      /\ Counted(h, S) = h[a] + Counted(h, S \ {a})
      /\ Counted(k, S) = k[a] + Counted(k, S \ {a})
  BY CountedSplit
<1>3. h[a] \in Nat /\ k[a] \in Nat
  OBVIOUS
<1> QED
  BY <1>1, <1>2, <1>3

(* Summands within a multiple of others sum up within it.                  *)
LEMMA CountedBounded ==
    ASSUME NEW S, IsFiniteSet(S), NEW h \in [S -> Nat], NEW k \in [S -> Nat], NEW c \in Nat,
           \A a \in S : k[a] <= c * h[a]
    PROVE  Counted(k, S) <= c * Counted(h, S)
<1> DEFINE D == {s \in SUBSET S : ~(Counted(k, s) <= c * Counted(h, s))}
           R == StrictSubsetOrdering(S)
<1>1. IsWellFoundedOn(R, SUBSET S)
  BY FS_StrictSubsetOrderingWellFounded, FS_FiniteSubsetsOfFinite
<1>2. ASSUME D # {} PROVE FALSE
  <2>1. D \subseteq SUBSET S
    OBVIOUS
  <2>2. \E s \in D : \A t \in D : ~(<<t, s>> \in R)
    <3> HIDE DEF D, R
    <3> QED
      BY <1>1, <1>2, <2>1, WFMin
  <2>3. PICK s \in D : \A t \in D : ~(<<t, s>> \in R)
    BY <2>2
  <2>4. CASE s = {}
    <3>1. Counted(h, s) = 0 /\ Counted(k, s) = 0
      BY <2>4, CountedNothing
    <3> QED
      BY <2>3, <3>1
  <2>5. CASE s # {}
    <3>1. PICK x \in s : TRUE
      BY <2>5
    <3> DEFINE t == s \ {x}
    <3>2. t \in SUBSET S /\ <<t, s>> \in R
      BY <2>3, <3>1 DEF StrictSubsetOrdering
    <3>3. Counted(k, t) <= c * Counted(h, t)
      BY <2>3, <3>2
    <3>4. /\ Counted(h, t) \in Nat /\ Counted(h, s) = h[x] + Counted(h, t)
          /\ Counted(k, t) \in Nat /\ Counted(k, s) = k[x] + Counted(k, t)
      BY <2>3, <3>1, CountedSplit
    <3>5. h[x] \in Nat /\ k[x] \in Nat /\ k[x] <= c * h[x]
      BY <2>3, <3>1
    <3>6. c * (h[x] + Counted(h, t)) = c * h[x] + c * Counted(h, t)
          /\ c * h[x] \in Nat /\ c * Counted(h, t) \in Nat
      <4> HIDE DEF t
      <4> QED
        BY <3>4, <3>5, ProductNat
    <3>7. Counted(k, s) <= c * Counted(h, s)
      BY <3>3, <3>4, <3>5, <3>6
    <3> QED
      BY <2>3, <3>7
  <2> QED
    BY <2>4, <2>5
<1>3. S \in SUBSET S /\ D = {}
  BY <1>2
<1> QED
  BY <1>3

LEMMA CountedMonotone ==
    ASSUME NEW S, IsFiniteSet(S), NEW h \in [S -> Nat], NEW k \in [S -> Nat],
           \A a \in S : k[a] <= h[a]
    PROVE  Counted(k, S) <= Counted(h, S)
<1>1. \A a \in S : k[a] <= 1 * h[a]
  OBVIOUS
<1>2. Counted(k, S) <= 1 * Counted(h, S)
  BY <1>1, CountedBounded
<1> QED
  BY <1>2, CountedNat

(* The recursion of a sum has one solution: at the smallest set where two  *)
(* differed, they would differ by the same summand.                        *)
Summing(g, h, S) ==
    g = [s \in SUBSET S |->
            IF s = {} THEN 0 ELSE h[CHOOSE x \in s : TRUE] + g[s \ {CHOOSE x \in s : TRUE}]]

LEMMA CountingSums ==
    ASSUME NEW S, IsFiniteSet(S), NEW h \in [S -> Nat],
           NEW g, g = [s \in SUBSET S |-> Counted(h, s)]
    PROVE  Summing(g, h, S)
<1> DEFINE pick(s) == CHOOSE x \in s : TRUE
           summand(s) == IF s = {} THEN 0 ELSE h[pick(s)] + g[s \ {pick(s)}]
<1>1. ASSUME NEW s \in SUBSET S PROVE g[s] = summand(s)
  <2>1. CASE s = {}
    BY <2>1, CountedNothing
  <2>2. CASE s # {}
    <3>1. pick(s) \in s
      BY <2>2
    <3> HIDE DEF pick
    <3>2. s \ {pick(s)} \in SUBSET S
      OBVIOUS
    <3>3. Counted(h, s) = h[pick(s)] + Counted(h, s \ {pick(s)})
      BY <3>1, CountedSplit
    <3>4. g[s] = Counted(h, s) /\ g[s \ {pick(s)}] = Counted(h, s \ {pick(s)})
      BY <3>2
    <3> QED
      BY <2>2, <3>3, <3>4
  <2> QED
    BY <2>1, <2>2
<1>2. g = [s \in SUBSET S |-> g[s]]
  OBVIOUS
<1> HIDE DEF summand
<1>3. g = [s \in SUBSET S |-> summand(s)]
  BY <1>1, <1>2
<1> QED
  BY <1>3 DEF summand, Summing

LEMMA SumsCount ==
    ASSUME NEW S, IsFiniteSet(S), NEW h \in [S -> Nat], NEW g, Summing(g, h, S)
    PROVE  g[S] = Counted(h, S)
<1> DEFINE D == {s \in SUBSET S : g[s] # Counted(h, s)}
           R == StrictSubsetOrdering(S)
<1>1. IsWellFoundedOn(R, SUBSET S)
  BY FS_StrictSubsetOrderingWellFounded, FS_FiniteSubsetsOfFinite
<1>2. ASSUME D # {} PROVE FALSE
  <2>1. D \subseteq SUBSET S
    OBVIOUS
  <2>2. \E s \in D : \A t \in D : ~(<<t, s>> \in R)
    <3> HIDE DEF D, R
    <3> QED
      BY <1>1, <1>2, <2>1, WFMin
  <2>3. PICK s \in D : \A t \in D : ~(<<t, s>> \in R)
    BY <2>2
  <2>4. CASE s = {}
    <3>1. g[s] = 0
      BY <2>3, <2>4 DEF Summing
    <3> QED
      BY <2>3, <2>4, <3>1, CountedNothing
  <2>5. CASE s # {}
    <3> DEFINE x == CHOOSE y \in s : TRUE
               t == s \ {x}
    <3>1. x \in s
      BY <2>5
    <3>2. g[s] = h[x] + g[t]
      BY <2>3, <2>5 DEF Summing
    <3> HIDE DEF x
    <3>3. t \in SUBSET S /\ <<t, s>> \in R
      BY <2>3, <3>1 DEF StrictSubsetOrdering
    <3>4. g[t] = Counted(h, t)
      BY <2>3, <3>3
    <3>5. Counted(h, s) = h[x] + Counted(h, t)
      BY <2>3, <3>1, CountedSplit
    <3> QED
      BY <2>3, <3>2, <3>4, <3>5
  <2> QED
    BY <2>4, <2>5
<1> QED
  BY <1>2

(* A sum over a part of a set is a sum over all of it that counts nothing  *)
(* elsewhere.                                                              *)
LEMMA SumOverPart ==
    ASSUME NEW S, IsFiniteSet(S), NEW C \in SUBSET S, NEW h \in [S -> Nat],
           \A a \in S \ C : h[a] = 0
    PROVE  /\ \E g : Summing(g, h, C)
           /\ \A g : Summing(g, h, C) => g[C] = Counted(h, S)
<1> DEFINE k == [a \in C |-> h[a]]
<1>1. IsFiniteSet(C) /\ k \in [C -> Nat]
  BY FS_Subset
<1>2. \A s \in SUBSET C : s # {} =>
          k[CHOOSE x \in s : TRUE] = h[CHOOSE x \in s : TRUE]
  <2> SUFFICES ASSUME NEW s \in SUBSET C, s # {}
               PROVE  k[CHOOSE x \in s : TRUE] = h[CHOOSE x \in s : TRUE]
    OBVIOUS
  <2>1. (CHOOSE x \in s : TRUE) \in C
    OBVIOUS
  <2> QED
    BY <2>1
<1>3. Counted(k, C) = Counted(h, C)
  BY CountedSame
<1> HIDE DEF k
<1>4. ASSUME NEW g PROVE Summing(g, h, C) <=> Summing(g, k, C)
  <2> DEFINE pick(s) == CHOOSE x \in s : TRUE
             F(f) == [s \in SUBSET C |-> IF s = {} THEN 0 ELSE f[pick(s)] + g[s \ {pick(s)}]]
  <2>1. F(h) = F(k)
    BY <1>2
  <2>2. (Summing(g, h, C) <=> g = F(h)) /\ (Summing(g, k, C) <=> g = F(k))
    BY DEF Summing
  <2> HIDE DEF F
  <2> QED
    BY <2>1, <2>2
<1>5. \E g : Summing(g, h, C)
  <2> DEFINE g == [s \in SUBSET C |-> Counted(k, s)]
  <2>1. Summing(g, k, C)
    BY <1>1, CountingSums
  <2> HIDE DEF g
  <2> QED
    BY <1>4, <2>1
<1>6. ASSUME NEW g, Summing(g, h, C) PROVE g[C] = Counted(h, S)
  <2>1. g[C] = Counted(k, C)
    BY <1>1, <1>4, <1>6, SumsCount
  <2>2. UnitsOf(h, C) = UnitsOf(h, S)
    <3>1. \A a \in S \ C : {a} \X (1..h[a]) = {}
      OBVIOUS
    <3> QED
      BY <3>1 DEF UnitsOf
  <2> QED
    BY <1>3, <2>1, <2>2 DEF Counted
<1> QED
  BY <1>5, <1>6

LEMMA SumCounts ==
    ASSUME NEW S, IsFiniteSet(S), NEW h \in [S -> Nat]
    PROVE  SumFunction(h) = Counted(h, S)
<1> DEFINE sum == CHOOSE g : Summing(g, h, S)
<1>1. \E g : Summing(g, h, S)
  <2> DEFINE g == [s \in SUBSET S |-> Counted(h, s)]
  <2>1. Summing(g, h, S)
    BY CountingSums
  <2> QED
    BY <2>1
<1>2. Summing(sum, h, S)
  BY <1>1
<1>3. SumFunction(h) = sum[S]
  <2>1. DOMAIN h = S
    OBVIOUS
  <2>2. SumFunctionOnSet(h, S) = sum[S]
    BY Zenon DEF SumFunctionOnSet, FoldFunctionOnSet, MapThenFoldSet, Summing
  <2> QED
    BY <2>1, <2>2 DEF SumFunction
<1> HIDE DEF sum
<1> QED
  BY <1>2, <1>3, SumsCount

(* A sum is a natural, and moves as one of its summands does.              *)
LEMMA SumNat ==
    ASSUME NEW S, IsFiniteSet(S), NEW h \in [S -> Nat]
    PROVE  SumFunction(h) \in Nat
  BY SumCounts, CountedNat

LEMMA SumMoves ==
    ASSUME NEW S, IsFiniteSet(S), NEW h \in [S -> Nat], NEW k \in [S -> Nat], NEW a \in S,
           \A d \in S \ {a} : k[d] = h[d]
    PROVE  SumFunction(k) = SumFunction(h) + k[a] - h[a]
  BY SumCounts, CountedMoves

LEMMA SumOfNothing ==
    ASSUME NEW S, IsFiniteSet(S), NEW h \in [S -> Nat], \A a \in S : h[a] = 0
    PROVE  SumFunction(h) = 0
<1>1. UnitsOf(h, S) = {}
  BY DEF UnitsOf
<1> QED
  BY <1>1, SumCounts, FS_EmptySet DEF Counted

-----------------------------------------------------------------------------
(* What rounding costs a position.                                         *)

LEMMA RoundingNat ==
    ASSUME NEW index \in Nat, RAY <= index
    PROVE  Rounding(index) \in Nat /\ index <= (Rounding(index) + 1) * RAY
<1> DEFINE k == (index - 1) \div RAY
<1>1. RAY \in Nat \ {0} /\ index - 1 \in Nat
  BY ScaleAssumption
<1>2. k \in Nat /\ index - 1 < k * RAY + RAY /\ k * RAY \in Nat
  <2>1. k \in Nat /\ index - 1 < k * RAY + RAY
    BY <1>1, DivBounds
  <2> HIDE DEF k
  <2> QED
    BY <1>1, <2>1, ProductNat
<1> HIDE DEF k
<1>3. (k + 1) * RAY = k * RAY + RAY
  BY <1>1, <1>2
<1>4. index <= (k + 1) * RAY
  BY <1>1, <1>2, <1>3
<1> QED
  BY <1>2, <1>4 DEF Rounding, k

(* At an index of one ray an amount is its own scaled amount.              *)
LEMMA AtOneRay ==
    ASSUME NEW x \in Nat
    PROVE  rayMul(x, RAY) = x /\ rayDiv(x, RAY) = x
<1>1. /\ RAY \in Nat \ {0} /\ HALF_RAY \in Nat /\ HALF_RAY < RAY /\ RAY \div 2 = HALF_RAY
      /\ x * RAY \in Nat
  BY ScaleAssumption, ProductNat DEF HALF_RAY
<1>2. (x * RAY + HALF_RAY) \div RAY = x
  <2>1. /\ x * RAY + HALF_RAY \in Nat /\ x * RAY <= x * RAY + HALF_RAY
        /\ x * RAY + HALF_RAY < x * RAY + RAY
    BY <1>1
  <2> QED
    BY <1>1, <2>1, DivUnique
<1> QED
  BY <1>1, <1>2 DEF rayMul, rayDiv

(* Writing an amount to a scaled balance is off by no more than Rounding.  *)
LEMMA WriteRounds ==
    ASSUME NEW s \in Nat, NEW x \in Nat, NEW index \in Nat, RAY <= index
    PROVE  LET written == rayMul(s + rayDiv(x, index), index)
           IN  /\ written <= rayMul(s, index) + x + Rounding(index)
               /\ rayMul(s, index) + x <= written + Rounding(index)
<1> DEFINE q == rayDiv(x, index)
           a == rayMul(s, index)
           b == rayMul(s + q, index)
           k == Rounding(index)
<1>1. /\ RAY \in Nat \ {0} /\ HALF_RAY \in Nat \ {0} /\ RAY = 2 * HALF_RAY
      /\ index \in Nat \ {0}
  BY ScaleAssumption DEF HALF_RAY
<1>2. q \in Nat /\ a \in Nat /\ b \in Nat /\ k \in Nat /\ index <= (k + 1) * RAY
  <2>1. q \in Nat /\ k \in Nat /\ index <= (k + 1) * RAY
    BY <1>1, RayDivNat, RoundingNat
  <2> HIDE DEF q, k
  <2>2. s + q \in Nat
    BY <2>1
  <2> QED
    BY <2>1, <2>2, RayMulNat
<1>3. CASE k = 0
  <2>1. index = RAY
    <3>1. (k + 1) * RAY = RAY
      BY <1>1, <1>3
    <3> QED
      BY <1>1, <1>2, <3>1
  <2>2. q = x
    BY <2>1, AtOneRay
  <2>3. a = s
    BY <2>1, AtOneRay
  <2>4. b = s + x
    <3> HIDE DEF q
    <3> QED
      BY <2>1, <2>2, AtOneRay
  <2> HIDE DEF q, a, b, k
  <2>5. b <= a + x + k /\ a + x <= b + k
    BY <1>3, <2>3, <2>4
  <2> QED
    BY <2>5 DEF q, a, b, k
<1>4. CASE k # 0
  <2>1. /\ q * index - x * RAY <= index \div 2
        /\ x * RAY - q * index <= index \div 2
    BY <1>1, RayDivRounds
  <2> HIDE DEF q
  <2>2. /\ a * RAY <= s * index + HALF_RAY
        /\ s * index + 1 <= a * RAY + HALF_RAY
        /\ b * RAY <= (s + q) * index + HALF_RAY
        /\ (s + q) * index + 1 <= b * RAY + HALF_RAY
    <3>1. s + q \in Nat
      BY <1>2
    <3> QED
      BY <3>1, RayMulRounds
  <2> HIDE DEF a, b, k
  <2>3. (s + q) * index = s * index + q * index
        /\ s * index \in Nat /\ q * index \in Nat /\ x * RAY \in Nat
        /\ a * RAY \in Nat /\ b * RAY \in Nat
    BY <1>1, <1>2, ProductNat
  <2>4. index \div 2 <= (k + 1) * HALF_RAY /\ (k + 1) * HALF_RAY \in Nat
        /\ (k + 1) * RAY = 2 * ((k + 1) * HALF_RAY)
    <3>1. (k + 1) * RAY = 2 * ((k + 1) * HALF_RAY)
      BY <1>1, <1>2
    <3>2. (k + 1) * HALF_RAY \in Nat
      BY <1>1, <1>2, ProductNat
    <3> QED
      BY <1>1, <1>2, <3>1, <3>2
  <2>5. 2 * HALF_RAY <= (k + 1) * HALF_RAY
    <3>1. 2 <= k + 1 /\ k + 1 \in Nat
      BY <1>2, <1>4
    <3> QED
      BY <1>1, <3>1, ProductMonotone
  <2>6. b * RAY - a * RAY - x * RAY < (k + 1) * RAY
    BY <1>1, <2>1, <2>2, <2>3, <2>4, <2>5
  <2>7. a * RAY + x * RAY - b * RAY < (k + 1) * RAY
    BY <1>1, <2>1, <2>2, <2>3, <2>4, <2>5
  <2>8. b <= a + x + k
    <3> SUFFICES ASSUME a + x + (k + 1) <= b PROVE FALSE
      BY <1>2
    <3>1. (a + x + (k + 1)) * RAY <= b * RAY
      BY <1>1, <1>2, ProductMonotone
    <3>2. (a + x + (k + 1)) * RAY = a * RAY + x * RAY + (k + 1) * RAY
      BY <1>1, <1>2
    <3> QED
      BY <1>1, <1>2, <2>3, <2>4, <2>6, <3>1, <3>2
  <2>9. a + x <= b + k
    <3> SUFFICES ASSUME b + (k + 1) <= a + x PROVE FALSE
      BY <1>2
    <3>1. (b + (k + 1)) * RAY <= (a + x) * RAY
      BY <1>1, <1>2, ProductMonotone
    <3>2. (b + (k + 1)) * RAY = b * RAY + (k + 1) * RAY
          /\ (a + x) * RAY = a * RAY + x * RAY
      BY <1>1, <1>2
    <3> QED
      BY <1>1, <1>2, <2>3, <2>4, <2>7, <3>1, <3>2
  <2> QED
    BY <2>8, <2>9 DEF q, a, b, k
<1> QED
  BY <1>3, <1>4

(* Products of a common factor compare as what they multiply.              *)
LEMMA ProductCancels ==
    ASSUME NEW a \in Nat, NEW b \in Nat, NEW c \in Nat \ {0}, a * c < (b + 1) * c
    PROVE  a <= b
<1> SUFFICES ASSUME b + 1 <= a PROVE FALSE
  OBVIOUS
<1>1. (b + 1) * c <= a * c
  BY ProductMonotone
<1>2. (b + 1) * c \in Nat /\ a * c \in Nat
  BY ProductNat
<1> QED
  BY <1>1, <1>2

(* Two floors, and what they may miss together.                            *)
LEMMA FloorsFit ==
    ASSUME NEW X \in Nat, NEW Y \in Nat, NEW X2 \in Nat, NEW Y2 \in Nat, NEW K \in Nat,
           NEW u \in Nat \ {0}, X + Y <= X2 + Y2 + K
    PROVE  X \div u + Y \div u <= X2 \div u + Y2 \div u + (K + 2 * (u - 1)) \div u
<1> DEFINE M == K + 2 * (u - 1)
           x == X \div u
           y == Y \div u
           x2 == X2 \div u
           y2 == Y2 \div u
           m == M \div u
<1>1. M \in Nat
  OBVIOUS
<1>2. /\ x \in Nat /\ x * u <= X
      /\ y \in Nat /\ y * u <= Y
      /\ x2 \in Nat /\ X2 < x2 * u + u
      /\ y2 \in Nat /\ Y2 < y2 * u + u
  BY DivBounds
<1>3. m \in Nat /\ M < m * u + u
  <2> HIDE DEF M
  <2> QED
    BY <1>1, DivBounds
<1>4. M = K + 2 * (u - 1)
  OBVIOUS
<1> HIDE DEF M, x, y, x2, y2, m
<1>5. /\ x * u \in Nat /\ y * u \in Nat /\ x2 * u \in Nat /\ y2 * u \in Nat /\ m * u \in Nat
  BY <1>2, <1>3, ProductNat
<1>6. (x + y) * u = x * u + y * u
      /\ (x2 + y2 + m + 1) * u = x2 * u + y2 * u + m * u + u
  BY <1>2, <1>3
<1>7. (x + y) * u < (x2 + y2 + m + 1) * u
  BY <1>1, <1>2, <1>3, <1>4, <1>5, <1>6
<1>8. x + y <= x2 + y2 + m
  BY <1>2, <1>3, <1>7, ProductCancels
<1> QED
  BY <1>8 DEF x, y, x2, y2, m, M

(* A health factor of one or more, rounded, covers the debt up to half a   *)
(* unit of its scale.                                                      *)
LEMMA HealthBound ==
    ASSUME NEW P \in Nat, NEW D \in Nat \ {0}, WAD <= wadDiv(P, D)
    PROVE  D <= P + D \div (2 * WAD)
<1> DEFINE n == P * WAD + D \div 2
           q == n \div D
           k == D \div (2 * WAD)
<1>1. WAD \in Nat \ {0} /\ 2 * WAD \in Nat \ {0}
  BY ScaleAssumption
<1>2. P * WAD \in Nat /\ n \in Nat
  <2>1. P * WAD \in Nat
    BY <1>1, ProductNat
  <2> QED
    BY <2>1
<1>3. q \in Nat /\ q * D <= n
  <2> HIDE DEF n
  <2> QED
    BY <1>2, DivBounds
<1>4. k \in Nat /\ D < k * (2 * WAD) + 2 * WAD
  BY <1>1, DivBounds
<1>5. WAD <= q /\ n = P * WAD + D \div 2
  BY DEF wadDiv
<1> HIDE DEF n, q, k
<1>6. WAD * D <= q * D /\ WAD * D \in Nat /\ q * D \in Nat
  BY <1>1, <1>3, <1>5, ProductMonotone, ProductNat
<1>7. WAD * D <= P * WAD + D \div 2
  BY <1>2, <1>3, <1>5, <1>6
<1>8. SUFFICES ASSUME P < D PROVE D - P <= k
  BY <1>4 DEF k
<1>9. (D - P) * (2 * WAD) < (k + 1) * (2 * WAD)
  <2>1. (D - P) * (2 * WAD) = 2 * (WAD * D) - 2 * (P * WAD)
    BY <1>1
  <2>2. (k + 1) * (2 * WAD) = k * (2 * WAD) + 2 * WAD
    BY <1>1, <1>4
  <2>3. k * (2 * WAD) \in Nat
    BY <1>1, <1>4, ProductNat
  <2> QED
    BY <1>1, <1>2, <1>4, <1>6, <1>7, <2>1, <2>2, <2>3
<1>10. D - P \in Nat
  BY <1>8
<1> QED
  BY <1>1, <1>4, <1>9, <1>10, ProductCancels

(* What a threshold covers, from the weighted value of a collateral: the   *)
(* average is floored, so one unit more of it covers all there is.         *)
AverageOf(total, weighted) == IF total = 0 THEN 0 ELSE weighted \div total

LEMMA CoverLoses ==
    ASSUME NEW T \in Nat, NEW W \in Nat, NEW T2 \in Nat, NEW W2 \in Nat, NEW L \in Nat,
           W <= W2 + L * PERCENTAGE_FACTOR, T2 = 0 => W2 = 0
    PROVE  /\ AverageOf(T, W) \in Nat /\ AverageOf(T2, W2) \in Nat
           /\ percentMul(T, AverageOf(T, W))
                <= percentMul(T2, AverageOf(T2, W2) + 1) + L
<1> DEFINE a == AverageOf(T, W)
           a2 == AverageOf(T2, W2)
           n == T * a + HALF_PERCENTAGE_FACTOR
           n2 == T2 * (a2 + 1) + HALF_PERCENTAGE_FACTOR
           q == n \div PERCENTAGE_FACTOR
           q2 == n2 \div PERCENTAGE_FACTOR
<1>1. PERCENTAGE_FACTOR \in Nat \ {0} /\ HALF_PERCENTAGE_FACTOR \in Nat
  BY ScaleAssumption DEF HALF_PERCENTAGE_FACTOR
<1>2. a \in Nat /\ a * T <= W
  <2>1. CASE T = 0
    BY <2>1 DEF AverageOf
  <2>2. CASE T # 0
    BY <2>2, DivBounds DEF AverageOf
  <2> QED
    BY <2>1, <2>2
<1>3. a2 \in Nat /\ W2 <= a2 * T2 + T2
  <2>1. CASE T2 = 0
    BY <2>1 DEF AverageOf
  <2>2. CASE T2 # 0
    <3>1. W2 \div T2 \in Nat /\ W2 < (W2 \div T2) * T2 + T2
      BY <2>2, DivBounds
    <3> DEFINE w == W2 \div T2
    <3>2. w \in Nat /\ w * T2 \in Nat
      <4> HIDE DEF w
      <4> QED
        BY <3>1, ProductNat DEF w
    <3>3. a2 = w
      BY <2>2 DEF AverageOf
    <3> HIDE DEF w
    <3> QED
      BY <3>1, <3>2, <3>3 DEF w
  <2> QED
    BY <2>1, <2>2
<1> HIDE DEF a, a2
<1>4. T * a = a * T /\ T2 * (a2 + 1) = a2 * T2 + T2 /\ a * T \in Nat /\ a2 * T2 \in Nat
      /\ L * PERCENTAGE_FACTOR \in Nat
  BY <1>1, <1>2, <1>3, ProductNat
<1>5. n \in Nat /\ n2 \in Nat /\ n <= n2 + L * PERCENTAGE_FACTOR
  BY <1>1, <1>2, <1>3, <1>4
<1>6. percentMul(T, a) = q /\ percentMul(T2, a2 + 1) = q2
  BY DEF percentMul
<1> HIDE DEF n, n2
<1>7. q \in Nat /\ q * PERCENTAGE_FACTOR <= n
      /\ q2 \in Nat /\ n2 < q2 * PERCENTAGE_FACTOR + PERCENTAGE_FACTOR
  BY <1>1, <1>5, DivBounds
<1> HIDE DEF q, q2
<1>8. q * PERCENTAGE_FACTOR < (q2 + L + 1) * PERCENTAGE_FACTOR
  <2>1. (q2 + L + 1) * PERCENTAGE_FACTOR
          = q2 * PERCENTAGE_FACTOR + L * PERCENTAGE_FACTOR + PERCENTAGE_FACTOR
    BY <1>1, <1>7
  <2>2. q2 * PERCENTAGE_FACTOR \in Nat /\ q * PERCENTAGE_FACTOR \in Nat
    BY <1>1, <1>7, ProductNat
  <2> QED
    BY <1>1, <1>4, <1>5, <1>7, <2>1, <2>2
<1>9. q <= q2 + L
  BY <1>1, <1>7, <1>8, ProductCancels
<1> QED
  BY <1>2, <1>3, <1>6, <1>9 DEF a, a2

LEMMA PercentMulMonotone ==
    ASSUME NEW a \in Nat, NEW p \in Nat, NEW q \in Nat, p <= q
    PROVE  percentMul(a, p) <= percentMul(a, q)
<1>1. HALF_PERCENTAGE_FACTOR \in Nat /\ PERCENTAGE_FACTOR \in Nat \ {0}
  BY ScaleAssumption DEF HALF_PERCENTAGE_FACTOR
<1>2. p * a <= q * a /\ p * a \in Nat /\ q * a \in Nat
  BY ProductMonotone, ProductNat
<1>3. /\ a * p + HALF_PERCENTAGE_FACTOR \in Nat /\ a * q + HALF_PERCENTAGE_FACTOR \in Nat
      /\ a * p + HALF_PERCENTAGE_FACTOR <= a * q + HALF_PERCENTAGE_FACTOR
  BY <1>1, <1>2
<1> QED
  BY <1>1, <1>3, QuotientMonotone DEF percentMul

(* What a loan to value admits, it covers.                                 *)
LEMMA PercentDivCovers ==
    ASSUME NEW v \in Nat, NEW T \in Nat, NEW p \in 1..PERCENTAGE_FACTOR,
           percentDiv(v, p) <= T
    PROVE  v <= percentMul(T, p)
<1> DEFINE n == v * PERCENTAGE_FACTOR + p \div 2
           q == n \div p
           m == T * p + HALF_PERCENTAGE_FACTOR
           c == m \div PERCENTAGE_FACTOR
<1>1. /\ PERCENTAGE_FACTOR \in Nat \ {0} /\ HALF_PERCENTAGE_FACTOR \in Nat
      /\ PERCENTAGE_FACTOR = 2 * HALF_PERCENTAGE_FACTOR
      /\ p \in Nat \ {0} /\ p <= PERCENTAGE_FACTOR
  BY ScaleAssumption DEF HALF_PERCENTAGE_FACTOR
<1>2. v * PERCENTAGE_FACTOR \in Nat /\ T * p \in Nat
  BY <1>1, ProductNat
<1>3. n \in Nat /\ m \in Nat
  BY <1>1, <1>2
<1>4. percentDiv(v, p) = q /\ percentMul(T, p) = c
  BY DEF percentDiv, percentMul
<1>5. n = v * PERCENTAGE_FACTOR + p \div 2 /\ m = T * p + HALF_PERCENTAGE_FACTOR
  OBVIOUS
<1> HIDE DEF n, m
<1>6. q \in Nat /\ n < q * p + p /\ c \in Nat /\ m < c * PERCENTAGE_FACTOR + PERCENTAGE_FACTOR
  BY <1>1, <1>3, DivBounds
<1>7. q <= T
  BY <1>4
<1> HIDE DEF q, c
<1>8. q * p <= T * p /\ q * p \in Nat
  BY <1>1, <1>6, <1>7, ProductMonotone, ProductNat
<1>9. v * PERCENTAGE_FACTOR <= m
  BY <1>1, <1>2, <1>3, <1>5, <1>6, <1>8
<1>10. v * PERCENTAGE_FACTOR < (c + 1) * PERCENTAGE_FACTOR
  <2>1. (c + 1) * PERCENTAGE_FACTOR = c * PERCENTAGE_FACTOR + PERCENTAGE_FACTOR
    BY <1>1, <1>6
  <2>2. c * PERCENTAGE_FACTOR \in Nat
    BY <1>1, <1>6, ProductNat
  <2> QED
    BY <1>1, <1>2, <1>3, <1>6, <1>9, <2>1, <2>2
<1>11. v <= c
  BY <1>1, <1>6, <1>10, ProductCancels
<1> QED
  BY <1>4, <1>11

=============================================================================
