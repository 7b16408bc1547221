----------------------------- MODULE NatLemmas -----------------------------
(***************************************************************************)
(* Facts about natural numbers that the proofs of several components use:  *)
(* the least element of a set, induction with the hypothesis given as a    *)
(* set, quotients and remainders by a number that is not fixed, and loops  *)
(* written as recursive functions.                                         *)
(***************************************************************************)
EXTENDS Integers, WellFoundedInduction, TLAPS

\* A set of naturals that is not empty has a least element.
LEMMA LeastElement ==
  ASSUME NEW T \in SUBSET Nat, T # {}
  PROVE  \E m \in T : \A k \in T : m <= k
<1> DEFINE R == OpToRel(<, Nat)
<1>1. IsWellFoundedOn(R, Nat)
  BY NatLessThanWellFounded
<1>2. \A x, y \in Nat : y < x => <<y, x>> \in R
  BY DEF OpToRel
<1> HIDE DEF R
<1>3. PICK x \in T : \A y \in T : ~ (<<y, x>> \in R)
  BY <1>1, WFMin
<1>4. ASSUME NEW k \in T PROVE x <= k
  <2>1. x \in Nat /\ k \in Nat
    OBVIOUS
  <2>2. ~(k < x)
    BY <2>1, <1>2, <1>3
  <2>3. QED BY <2>1, <2>2
<1>5. QED BY <1>4

\* And it is what CHOOSE takes.
LEMMA LeastChosen ==
  ASSUME NEW T \in SUBSET Nat, T # {}
  PROVE  LET m == CHOOSE k \in T : \A j \in T : k <= j
         IN  m \in T /\ \A j \in T : m <= j
<1>1. \E k \in T : \A j \in T : k <= j
  BY LeastElement
<1>2. QED BY <1>1

\* Induction over the naturals, for the members of a set.
LEMMA SetInduction ==
  ASSUME NEW S, 0 \in S, \A n \in Nat : n \in S => n + 1 \in S
  PROVE  \A n \in Nat : n \in S
<1> SUFFICES ASSUME NEW n \in Nat, n \notin S PROVE FALSE
  OBVIOUS
<1> DEFINE T == {k \in Nat : k \notin S}
<1>1. PICK m \in T : \A k \in T : m <= k
  BY LeastElement
<1>2. m # 0 /\ m - 1 \in Nat /\ m - 1 \in S
  BY <1>1
<1>3. QED BY <1>1, <1>2

\* A number below the modulus is its own remainder.
LEMMA ModSmall ==
  ASSUME NEW n \in Nat, NEW m \in Nat, n < m
  PROVE  n % m = n
BY SMT

\* A remainder is smaller than the modulus.
LEMMA ModRange ==
  ASSUME NEW n \in Int, NEW m \in Nat \ {0}
  PROVE  n % m \in 0..(m - 1)
BY SMT

\* One step round a ring of m places.
LEMMA ModNext ==
  ASSUME NEW m \in Nat \ {0}, NEW i \in 0..(m - 1)
  PROVE  (i + 1) % m = IF i + 1 = m THEN 0 ELSE i + 1
BY SMT

\* Quotient and remainder give the number back.
LEMMA DivMod ==
  ASSUME NEW n \in Nat, NEW m \in Nat \ {0}
  PROVE  n \div m \in Nat /\ n = (m * (n \div m)) + (n % m)
BY SMT

\* The remainder of a number given by quotient and remainder.
LEMMA ModUnique ==
  ASSUME NEW m \in Nat \ {0}, NEW q \in Int, NEW r \in 0..(m - 1), m * q + r >= 0
  PROVE  (m * q + r) % m = r
BY SMT

\* Adding a multiple of the modulus does not change the remainder.
LEMMA ModAdd ==
  ASSUME NEW n \in Nat, NEW q \in Nat, NEW m \in Nat \ {0}
  PROVE  (m * q + n) % m = n % m
<1> DEFINE p == n \div m
           r == n % m
<1>1. p \in Nat /\ r \in 0..(m - 1) /\ n = m * p + r
  <2>1. n \in Int
    OBVIOUS
  <2>2. r \in 0..(m - 1)
    BY <2>1, ModRange
  <2>3. p \in Nat /\ n = m * p + r
    BY DivMod
  <2>4. QED BY <2>2, <2>3
<1> HIDE DEF p
<1>2. m * q + n = m * (q + p) + r
  <2> HIDE DEF r
  <2>1. QED BY <1>1, SMT
<1>3. m * (q + p) + r >= 0
  <2> HIDE DEF r
  <2>1. m * (q + p) >= 0
    BY <1>1, SMT
  <2>2. QED BY <1>1, <2>1, SMT
<1>4. (m * (q + p) + r) % m = r
  <2> HIDE DEF r
  <2>1. QED BY <1>1, <1>3, ModUnique
<1>5. QED BY <1>2, <1>4

\* Reducing a summand first makes no difference.
LEMMA ModSum ==
  ASSUME NEW a \in Nat, NEW b \in Nat, NEW m \in Nat \ {0}
  PROVE  ((a % m) + b) % m = (a + b) % m
<1> DEFINE p == a \div m
           r == a % m
<1>1. p \in Nat /\ r \in Nat /\ a = m * p + r
  BY DivMod, ModRange
<1> HIDE DEF p, r
<1>2. a + b = m * p + (r + b)
  BY <1>1, SMT
<1>3. (m * p + (r + b)) % m = (r + b) % m
  <2>1. r + b \in Nat
    BY <1>1
  <2>2. QED BY <1>1, <2>1, ModAdd
<1>4. QED BY <1>2, <1>3 DEF r

\* The quotient and the remainder are the only such numbers.
LEMMA DivUnique ==
  ASSUME NEW m \in Nat \ {0}, NEW q \in Nat, NEW r \in 0..(m - 1), NEW n, n = m * q + r
  PROVE  n \div m = q /\ n % m = r
BY SMT

\* A factor is cancelled.
LEMMA LessTimes ==
  ASSUME NEW m \in Nat, NEW x \in Nat, NEW y \in Nat, m * x < m * y
  PROVE  x < y
BY SMT

\* Quotient and remainder as a pair.
LEMMA Splits ==
  ASSUME NEW n \in Nat, NEW m \in Nat \ {0}
  PROVE  \E q \in Nat, r \in 0..(m - 1) : n = m * q + r
<1>1. n \div m \in Nat /\ n = (m * (n \div m)) + (n % m)
  BY DivMod
<1>2. n % m \in 0..(m - 1)
  BY ModRange
<1>3. QED BY <1>1, <1>2

\* One more digit below.
LEMMA MoreDigits ==
  ASSUME NEW m \in Nat, NEW M \in Nat, NEW x \in Nat, x < M, NEW r \in 0..(m - 1)
  PROVE  m * x + r \in 0..(m * M - 1)
<1>1. m * x \in Nat /\ m * M \in Nat
  BY SMT
<1>2. m * (M - 1 - x) \in Nat /\ m * M = m * x + m + m * (M - 1 - x)
  BY SMT
<1>3. QED BY <1>1, <1>2, SMT

\* A remainder of a negative number.
LEMMA ModBelow ==
  ASSUME NEW m \in Nat \ {0}, NEW n \in Int, 0 - m <= n, n < 0
  PROVE  n % m = n + m
BY SMT

\* A property of all smaller numbers passes to the next.
LEMMA StrongInduction ==
  ASSUME NEW S, NEW v \in Nat,
         \A n \in 0..v : (\A j \in 0..(n - 1) : j \in S) => n \in S
  PROVE  \A n \in 0..v : n \in S
<1> DEFINE T == {k \in Nat : k <= v => \A n \in 0..k : n \in S}
<1>1. 0 \in T
  BY SMT
<1>2. ASSUME NEW k \in Nat, k \in T PROVE k + 1 \in T
  <2> SUFFICES ASSUME k + 1 <= v PROVE \A n \in 0..(k + 1) : n \in S
    OBVIOUS
  <2>1. \A n \in 0..k : n \in S
    BY <1>2
  <2>2. k + 1 \in 0..v /\ 0..((k + 1) - 1) = 0..k
    OBVIOUS
  <2>3. k + 1 \in S
    BY <2>1, <2>2
  <2>4. \A n \in 0..(k + 1) : n \in 0..k \/ n = k + 1
    OBVIOUS
  <2>5. QED BY <2>1, <2>3, <2>4
<1>3. \A k \in Nat : k \in T
  <2> HIDE DEF T
  <2>1. QED BY <1>1, <1>2, SetInduction
<1>4. QED BY <1>3

\* A quotient is smaller.
LEMMA DivLess ==
  ASSUME NEW n \in Nat \ {0}, NEW m \in Nat, m > 1
  PROVE  /\ n \div m \in 0..(n - 1) /\ (n % m) \in 0..(m - 1)
         /\ n = (n \div m) * m + (n % m)
<1>1. n \div m \in Nat /\ n = (m * (n \div m)) + (n % m)
  BY DivMod
<1>2. n % m \in 0..(m - 1)
  BY ModRange
<1>3. PICK q \in Nat, r \in 0..(m - 1) : q = n \div m /\ r = n % m
  BY <1>1, <1>2
<1>4. n = m * q + r
  BY <1>1, <1>3
<1>5. q < n
  <2>1. CASE q = 0
    BY <2>1
  <2>2. CASE q > 0
    <3>1. (m - 2) * q \in Nat /\ m * q = 2 * q + (m - 2) * q
      BY SMT
    <3>2. QED BY <1>4, <2>2, <3>1, SMT
  <2>3. QED BY <2>1, <2>2
<1>6. m * q = q * m
  BY SMT
<1>7. QED BY <1>2, <1>3, <1>4, <1>5, <1>6

----------------------------------------------------------------------------
(* Loops as recursive functions: one that counts up to a place to stop,    *)
(* and returns what it finds there or the number of its rounds.            *)

\* The first place to stop at or after i.
FirstStop(Stop, i, N) ==
  CHOOSE k \in {k \in i..N : k \in Stop} : \A j \in {k1 \in i..N : k1 \in Stop} : k <= j

LEMMA FirstStopIs ==
  ASSUME NEW N \in Nat, NEW Stop, N \in Stop, NEW i \in 0..N
  PROVE  LET k == FirstStop(Stop, i, N)
         IN  /\ k \in i..N /\ k \in Stop
             /\ \A j \in i..(k - 1) : j \notin Stop
             /\ i \in Stop => k = i
             /\ i \notin Stop => i + 1 \in 0..N /\ k = FirstStop(Stop, i + 1, N)
<1> DEFINE T(n) == {k \in n..N : k \in Stop}
<1>1. \A n \in 0..N : T(n) \in SUBSET Nat /\ N \in T(n)
  OBVIOUS
<1>2. ASSUME NEW n \in 0..N
      PROVE  FirstStop(Stop, n, N) \in T(n) /\ \A j \in T(n) : FirstStop(Stop, n, N) <= j
  <2> DEFINE Q == T(n)
  <2>1. Q \in SUBSET Nat /\ Q # {}
    BY <1>1
  <2>2. FirstStop(Stop, n, N) = CHOOSE k \in Q : \A j \in Q : k <= j
    BY DEF FirstStop
  <2> HIDE DEF Q
  <2>3. FirstStop(Stop, n, N) \in Q /\ \A j \in Q : FirstStop(Stop, n, N) <= j
    BY <2>1, <2>2, LeastChosen
  <2>4. QED BY <2>3 DEF Q
<1> DEFINE k == FirstStop(Stop, i, N)
<1>3. k \in T(i) /\ \A j \in T(i) : k <= j
  BY <1>2
<1> HIDE DEF k
<1>4. ASSUME i \in Stop PROVE k = i
  BY <1>3, <1>4
<1>5. ASSUME i \notin Stop PROVE i + 1 \in 0..N /\ k = FirstStop(Stop, i + 1, N)
  <2>1. i + 1 \in 0..N
    BY <1>5
  <2>2. T(i) = T(i + 1)
    BY <1>5
  <2> DEFINE j == FirstStop(Stop, i + 1, N)
  <2>3. j \in T(i + 1) /\ \A n \in T(i + 1) : j <= n
    BY <1>2, <2>1
  <2> HIDE DEF j
  <2>4. k \in Int /\ j \in Int /\ k <= j /\ j <= k
    BY <1>3, <2>2, <2>3
  <2>5. QED BY <2>1, <2>4 DEF j
<1>6. ASSUME NEW j \in i..(k - 1) PROVE j \notin Stop
  BY <1>3
<1>7. QED BY <1>3, <1>4, <1>5, <1>6 DEF k

\* The loop that returns what it finds is defined,
LEMMA SearchDefined ==
  ASSUME NEW N \in Nat, NEW Stop, N \in Stop, NEW r
  PROVE  \E f : f = [i \in 0..N |-> IF i \in Stop THEN r[i] ELSE f[i + 1]]
<1> DEFINE w == [i \in 0..N |-> r[FirstStop(Stop, i, N)]]
<1>1. ASSUME NEW i \in 0..N
      PROVE  w[i] = IF i \in Stop THEN r[i] ELSE w[i + 1]
  BY FirstStopIs
<1>2. w = [i \in 0..N |-> w[i]]
  OBVIOUS
<1> HIDE DEF w
<1>3. w = [i \in 0..N |-> IF i \in Stop THEN r[i] ELSE w[i + 1]]
  BY <1>1, <1>2
<1>4. QED BY <1>3

\* and finds the first place to stop.
LEMMA SearchFinds ==
  ASSUME NEW N \in Nat, NEW Stop, NEW r, NEW f,
         f = [i \in 0..N |-> IF i \in Stop THEN r[i] ELSE f[i + 1]],
         NEW i \in 0..N, NEW k \in i..N, k \in Stop, \A j \in i..(k - 1) : j \notin Stop
  PROVE  f[i] = r[k]
<1> DEFINE S == {n \in Nat : n <= k - i => f[k - n] = r[k]}
<1>0. \A j \in 0..N : f[j] = IF j \in Stop THEN r[j] ELSE f[j + 1]
  OBVIOUS
<1>1. 0 \in S
  BY <1>0
<1>2. ASSUME NEW n \in Nat, n \in S PROVE n + 1 \in S
  <2> SUFFICES ASSUME n + 1 <= k - i PROVE f[k - (n + 1)] = r[k]
    OBVIOUS
  <2>1. k - (n + 1) \in i..(k - 1) /\ k - (n + 1) \in 0..N /\ (k - (n + 1)) + 1 = k - n
    OBVIOUS
  <2>2. f[k - (n + 1)] = f[k - n]
    BY <1>0, <2>1
  <2>3. f[k - n] = r[k]
    BY <1>2
  <2>4. QED BY <2>2, <2>3
<1> HIDE DEF S
<1>3. \A n \in Nat : n \in S
  BY <1>1, <1>2, SetInduction
<1>4. k - i \in Nat /\ k - (k - i) = i /\ k - i <= k - i
  OBVIOUS
<1>5. f[k - (k - i)] = r[k]
  BY <1>3, <1>4, Zenon DEF S
<1>6. QED BY <1>4, <1>5, Zenon

\* The loop that counts its rounds is defined,
LEMMA CountDefined ==
  ASSUME NEW N \in Nat, NEW Stop, N \in Stop
  PROVE  \E f : f = [i \in 0..N |-> IF i \in Stop THEN 0 ELSE 1 + f[i + 1]]
<1> DEFINE w == [i \in 0..N |-> FirstStop(Stop, i, N) - i]
<1>1. ASSUME NEW i \in 0..N
      PROVE  w[i] = IF i \in Stop THEN 0 ELSE 1 + w[i + 1]
  <2>1. FirstStop(Stop, i, N) \in i..N
    BY FirstStopIs
  <2>2. CASE i \in Stop
    BY <2>1, <2>2, FirstStopIs
  <2>3. CASE i \notin Stop
    <3>1. i + 1 \in 0..N /\ FirstStop(Stop, i, N) = FirstStop(Stop, i + 1, N)
      BY <2>3, FirstStopIs
    <3>2. QED BY <2>1, <2>3, <3>1
  <2>4. QED BY <2>2, <2>3
<1>2. w = [i \in 0..N |-> w[i]]
  OBVIOUS
<1> HIDE DEF w
<1>3. w = [i \in 0..N |-> IF i \in Stop THEN 0 ELSE 1 + w[i + 1]]
  BY <1>1, <1>2
<1>4. QED BY <1>3

\* and returns the distance to the first place to stop.
LEMMA CountFinds ==
  ASSUME NEW N \in Nat, NEW Stop, NEW f,
         f = [i \in 0..N |-> IF i \in Stop THEN 0 ELSE 1 + f[i + 1]],
         NEW i \in 0..N, NEW k \in i..N, k \in Stop, \A j \in i..(k - 1) : j \notin Stop
  PROVE  f[i] = k - i
<1> DEFINE S == {n \in Nat : n <= k - i => f[k - n] = n}
<1>0. \A j \in 0..N : f[j] = IF j \in Stop THEN 0 ELSE 1 + f[j + 1]
  OBVIOUS
<1>1. 0 \in S
  BY <1>0
<1>2. ASSUME NEW n \in Nat, n \in S PROVE n + 1 \in S
  <2> SUFFICES ASSUME n + 1 <= k - i PROVE f[k - (n + 1)] = n + 1
    OBVIOUS
  <2>1. k - (n + 1) \in i..(k - 1) /\ k - (n + 1) \in 0..N /\ (k - (n + 1)) + 1 = k - n
    OBVIOUS
  <2>2. f[k - (n + 1)] = 1 + f[k - n]
    BY <1>0, <2>1
  <2>3. f[k - n] = n
    BY <1>2
  <2>4. QED BY <2>2, <2>3
<1> HIDE DEF S
<1>3. \A n \in Nat : n \in S
  BY <1>1, <1>2, SetInduction
<1>4. k - i \in Nat /\ k - (k - i) = i
  OBVIOUS
<1>5. QED BY <1>3, <1>4 DEF S

\* Two loops that begin alike, and whose rounds keep them alike,
RoundsAlike(f, w, n) ==
  f[0] = w[0] /\ \A i \in 1..n : f[i - 1] = w[i - 1] => f[i] = w[i]

\* are the same.
LEMMA SameRounds ==
  ASSUME NEW n \in Nat, NEW f, NEW w, RoundsAlike(f, w, n)
  PROVE  \A i \in 0..n : f[i] = w[i]
<1>0. f[0] = w[0] /\ \A i \in 1..n : f[i - 1] = w[i - 1] => f[i] = w[i]
  BY DEF RoundsAlike
<1> DEFINE S == {i \in Nat : i <= n => f[i] = w[i]}
<1>1. 0 \in S
  BY <1>0
<1>2. ASSUME NEW i \in Nat, i \in S PROVE i + 1 \in S
  <2> SUFFICES ASSUME i + 1 <= n PROVE f[i + 1] = w[i + 1]
    OBVIOUS
  <2>1. i + 1 \in 1..n /\ (i + 1) - 1 = i
    OBVIOUS
  <2>2. f[i] = w[i]
    BY <1>2
  <2>3. f[(i + 1) - 1] = w[(i + 1) - 1]
    BY <2>1, <2>2, Zenon
  <2>4. QED BY <1>0, <2>1, <2>3, Zenon
<1> HIDE DEF S
<1>3. \A i \in Nat : i \in S
  BY <1>1, <1>2, SetInduction
<1>4. QED BY <1>3 DEF S
=============================================================================
