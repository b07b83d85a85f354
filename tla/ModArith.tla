------------------------------ MODULE ModArith ------------------------------
(* Remainders of natural numbers, as the ring buffers of the emulator use   *)
(* them: e & (SIZE - 1) is e % SIZE, and a counter may wrap around.          *)
EXTENDS Integers, TLAPS

\* A remainder is smaller than the divisor.
LEMMA ModBound ==
    ASSUME NEW S \in Nat \ {0}, NEW a \in Int
    PROVE  a % S \in 0 .. S - 1
  OBVIOUS

\* Division with remainder.
LEMMA ModDiv ==
    ASSUME NEW S \in Nat \ {0}, NEW a \in Nat
    PROVE  a = S * (a \div S) + (a % S) /\ a \div S \in Nat
  OBVIOUS

\* Two numbers closer than S have different remainders.
LEMMA ModNear ==
    ASSUME NEW S \in Nat \ {0}, NEW a \in Nat, NEW b \in Nat, a < b, b - a < S
    PROVE  a % S # b % S
  <1> DEFINE p == a \div S
             q == b \div S
  <1>1. a = S * p + (a % S) /\ p \in Nat
    BY ModDiv
  <1>2. b = S * q + (b % S) /\ q \in Nat
    BY ModDiv
  <1>3. SUFFICES ASSUME a % S = b % S PROVE FALSE
    OBVIOUS
  <1>4. b - a = S * (q - p)
    BY <1>1, <1>2, <1>3
  <1>5. CASE q - p >= 1
    <2>1. S * (q - p) >= S
      BY <1>5, <1>1, <1>2
    <2> QED
      BY <2>1, <1>4
  <1>6. CASE q - p <= 0
    <2>1. S * (q - p) <= 0
      BY <1>6, <1>1, <1>2
    <2> QED
      BY <2>1, <1>4
  <1> QED
    BY <1>1, <1>2, <1>5, <1>6

\* The remainder is unique.
LEMMA ModUnique ==
    ASSUME NEW S \in Nat \ {0}, NEW q \in Nat, NEW r \in 0 .. S - 1
    PROVE  (S * q + r) % S = r
  <1> DEFINE x == S * q + r
             p == x \div S
  <1>0. x \in Nat
    OBVIOUS
  <1>2. x = S * q + r
    OBVIOUS
  <1> HIDE DEF x
  <1>1. x = S * p + (x % S) /\ p \in Nat /\ x % S \in 0 .. S - 1
    <2>1. x % S \in 0 .. S - 1
      BY <1>0, ModBound
    <2> QED
      BY <2>1, <1>0, ModDiv
  <1> HIDE DEF p
  <1>3. S * (q - p) = (x % S) - r
    BY <1>1, <1>2
  <1>4. CASE q - p >= 1
    <2>1. S * (q - p) >= S
      BY <1>4, <1>1
    <2> QED
      BY <2>1, <1>3, <1>1
  <1>5. CASE q - p <= -1
    <2>1. S * (q - p) <= -S
      BY <1>5, <1>1
    <2> QED
      BY <2>1, <1>3, <1>1
  <1>6. CASE q - p = 0
    BY <1>6, <1>3, <1>1 DEF x
  <1> QED
    BY <1>4, <1>5, <1>6, <1>1

\* A number below the divisor is its own remainder.
LEMMA ModSmall ==
    ASSUME NEW S \in Nat \ {0}, NEW a \in 0 .. S - 1
    PROVE  a % S = a
  <1>1. 0 \in Nat /\ S * 0 + a = a
    OBVIOUS
  <1> QED
    BY <1>1, ModUnique

\* Adding a multiple of S leaves the remainder alone: the counters may wrap.
LEMMA ModShift ==
    ASSUME NEW S \in Nat \ {0}, NEW W \in Nat, W % S = 0, NEW a \in Nat
    PROVE  (a + W) % S = a % S
  <1> DEFINE p == a \div S
             q == W \div S
  <1>1. a = S * p + (a % S) /\ p \in Nat /\ a % S \in 0 .. S - 1
    <2>1. a % S \in 0 .. S - 1
      BY ModBound
    <2> QED
      BY <2>1, ModDiv
  <1>2. W = S * q /\ q \in Nat
    BY ModDiv
  <1>3. a + W = S * (p + q) + (a % S) /\ p + q \in Nat
    BY <1>1, <1>2
  <1> HIDE DEF p, q
  <1>4. (S * (p + q) + (a % S)) % S = a % S
    BY <1>1, <1>3, ModUnique
  <1> QED
    BY <1>3, <1>4

=============================================================================
