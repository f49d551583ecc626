------------------------------ MODULE Numbers ------------------------------
(***************************************************************************)
(* Facts about numbers that several proofs share: the quotient and the     *)
(* remainder of a division, induction, what a definition by recursion      *)
(* computes, and so the powers of two.                                     *)
(***************************************************************************)
EXTENDS Integers, Powers, WellFoundedInduction, TLAPS

\* The quotient of a number below m is 0, and of no other number.
LEMMA Distinct ==
    ASSUME NEW m \in Nat \ {0}, NEW k \in Int, NEW r \in 0..(m - 1), 0 <= k * m + r, k * m + r < m
    PROVE  k = 0
<1>1. CASE k >= 1
  <2>1. k * m >= m
    BY <1>1
  <2>2. QED
    BY <2>1
<1>2. CASE k <= -1
  <2>1. k * m <= -m
    BY <1>2
  <2>2. QED
    BY <2>1
<1>3. QED
  BY <1>1, <1>2

LEMMA Quotient ==
    ASSUME NEW m \in Nat \ {0}, NEW v \in Int
    PROVE  /\ v % m = v - (v \div m) * m
           /\ v \div m \in Int /\ v % m \in 0..(m - 1)
OBVIOUS

\* A remainder is known by being one.
LEMMA Residue ==
    ASSUME NEW m \in Nat \ {0}, NEW k \in Int, NEW r \in 0..(m - 1)
    PROVE  (k * m + r) % m = r
<1>. DEFINE v == k * m + r
            d == v \div m
            s == v % m
<1>1. v \in Int
  OBVIOUS
<1>2. v = d * m + s /\ d \in Int /\ s \in 0..(m - 1)
  <2>. HIDE DEF v
  <2>. QED  BY <1>1, Quotient
<1>3. (k - d) * m + r = s /\ k - d \in Int
  <2>. HIDE DEF d, s
  <2>. QED  BY <1>2
<1>4. k - d = 0
  <2>. HIDE DEF d, s
  <2>. QED  BY <1>2, <1>3, Distinct
<1>5. QED
  <2>. HIDE DEF d, s
  <2>1. r = s
     BY <1>2, <1>3, <1>4
  <2>. QED  BY <2>1 DEF s

\* A quotient is known by what it leaves.
LEMMA QuotientIs ==
    ASSUME NEW m \in Nat \ {0}, NEW k \in Int, NEW r \in 0..(m - 1)
    PROVE  (k * m + r) \div m = k
<1>. DEFINE v == k * m + r
            d == v \div m
            s == v % m
<1>1. v \in Int
  OBVIOUS
<1>2. v = d * m + s /\ d \in Int /\ s \in 0..(m - 1)
  <2>. HIDE DEF v
  <2>. QED  BY <1>1, Quotient
<1>3. (k - d) * m + r = s /\ k - d \in Int
  <2>. HIDE DEF d, s
  <2>. QED  BY <1>2
<1>4. k - d = 0
  <2>. HIDE DEF d, s
  <2>. QED  BY <1>2, <1>3, Distinct
<1>5. d \in Int
  BY <1>2
<1>6. QED
  <2>. HIDE DEF d
  <2>1. k = d
    BY <1>4, <1>5
  <2>. QED  BY <2>1 DEF d

-----------------------------------------------------------------------------
\* A set of numbers has a least one.
LEMMA LeastNumber ==
    ASSUME NEW T \in SUBSET Nat, T # {}
    PROVE  \E n \in T : \A m \in T : n <= m
<1>. DEFINE R == OpToRel(<, Nat)
<1>1. IsWellFoundedOn(R, Nat)
  BY NatLessThanWellFounded
<1>2. \A x, y \in Nat : x < y => <<x, y>> \in R
  BY DEF OpToRel
<1>. HIDE DEF R
<1>3. PICK n \in T : \A m \in T : ~(<<m, n>> \in R)
  BY <1>1, WFMin
<1>4. ASSUME NEW m \in T
      PROVE  n <= m
  <2>1. m \in Nat /\ n \in Nat
    OBVIOUS
  <2>2. ~(m < n)
    BY <1>2, <1>3, <2>1
  <2>3. QED
    BY <2>1, <2>2
<1>5. QED
  BY <1>4

\* The set that has 0 and with every number the next is Nat.
LEMMA Induction ==
    ASSUME NEW T \in SUBSET Nat, 0 \in T, \A n \in T : n + 1 \in T
    PROVE  T = Nat
<1>1. SUFFICES ASSUME T # Nat PROVE FALSE
  OBVIOUS
<1>2. PICK n \in Nat \ T : \A m \in Nat \ T : n <= m
  BY <1>1, LeastNumber
<1>3. n # 0 /\ n - 1 \in Nat /\ n - 1 \in T
  BY <1>2
<1>4. QED
  BY <1>2, <1>3

\* g begins at x, and its step k is F[k].
Steps(g, x, F, n) == g[0] = x /\ \A k \in 1..n : g[k] = F[k][g[k - 1]]

\* There is a function that begins at x and steps by F.
LEMMA Recursion ==
    ASSUME NEW S, NEW x \in S, NEW N \in Nat, NEW F \in [1..N -> [S -> S]]
    PROVE  \E g \in [0..N -> S] : Steps(g, x, F, N)
<1>. DEFINE T == {n \in Nat : n <= N => \E g \in [0..n -> S] : Steps(g, x, F, n)}
<1>1. 0 \in T
  <2>1. [k \in 0..0 |-> x] \in [0..0 -> S] /\ Steps([k \in 0..0 |-> x], x, F, 0)
    BY DEF Steps
  <2>2. QED
    BY <2>1
<1>2. ASSUME NEW n \in T
      PROVE  n + 1 \in T
  <2>1. SUFFICES ASSUME n + 1 <= N
                 PROVE  \E g \in [0..(n + 1) -> S] : Steps(g, x, F, n + 1)
    BY <1>2
  <2>2. PICK g \in [0..n -> S] : Steps(g, x, F, n)
    BY <2>1, <1>2
  <2>. DEFINE h == [k \in 0..(n + 1) |-> IF k = n + 1 THEN F[n + 1][g[n]] ELSE g[k]]
  <2>3. F[n + 1] \in [S -> S] /\ g[n] \in S
    BY <2>1
  <2>4. h \in [0..(n + 1) -> S]
    BY <2>3
  <2>5. h[0] = x
    BY <2>2 DEF Steps
  <2>6. ASSUME NEW k \in 1..(n + 1)
        PROVE  h[k] = F[k][h[k - 1]]
    BY <2>2, <2>6 DEF Steps
  <2>. HIDE DEF h
  <2>7. QED
    BY <2>4, <2>5, <2>6 DEF Steps
<1>. HIDE DEF T
<1>3. T = Nat
  <2>1. T \in SUBSET Nat
    BY DEF T
  <2>2. QED
    BY <1>1, <1>2, <2>1, Induction
<1>4. QED
  BY <1>3 DEF T

\* Two functions that begin alike and step alike are alike.
LEMMA SameSteps ==
    ASSUME NEW N \in Nat, NEW g, NEW h, g[0] = h[0],
           \A k \in 1..N : g[k - 1] = h[k - 1] => g[k] = h[k]
    PROVE  \A k \in 0..N : g[k] = h[k]
<1>. DEFINE T == {k \in Nat : k <= N => g[k] = h[k]}
<1>1. 0 \in T
  OBVIOUS
<1>2. ASSUME NEW n \in T
      PROVE  n + 1 \in T
  <2>1. n + 1 <= N => n + 1 \in 1..N /\ (n + 1) - 1 = n
    OBVIOUS
  <2>2. QED
    BY <2>1
<1>. HIDE DEF T
<1>3. T = Nat
  <2>1. T \in SUBSET Nat
    BY DEF T
  <2>2. QED
    BY <1>1, <1>2, <2>1, Induction
<1>4. QED
  BY <1>3 DEF T

\* A quotient of natural numbers is no greater than what was divided.
LEMMA QuotientBelow ==
    ASSUME NEW n \in Nat, NEW m \in Nat \ {0}
    PROVE  n \div m \in 0..n /\ n % m \in Nat
<1>. DEFINE q == n \div m
            r == n % m
<1>1. n = q * m + r /\ q \in Int /\ r \in 0..(m - 1)
  BY Quotient
<1>. HIDE DEF q, r
<1>2. q >= 0
  <2>1. ASSUME q <= -1 PROVE FALSE
    <3>1. q * m <= -m
      BY <1>1, <2>1
    <3>. QED
      BY <1>1, <3>1
  <2>. QED
    BY <1>1, <2>1
<1>3. q * m >= q
  BY <1>1, <1>2
<1>4. q * m \in Int
  BY <1>1
<1>. QED
  BY <1>1, <1>2, <1>3, <1>4 DEF q, r

\* A quotient by a product is the quotient of the quotient.
LEMMA QuotientTwice ==
    ASSUME NEW p \in Nat \ {0}, NEW q \in Nat \ {0}, NEW x \in Int
    PROVE  x \div (p * q) = (x \div p) \div q
<1>. DEFINE a == x \div p
            b == x % p
            e == a \div q
            o == a % q
            s == o * p + b
            m == p * q
<1>1. x = a * p + b /\ a \in Int /\ b \in 0 .. p - 1
  BY Quotient
<1>2. a = e * q + o /\ e \in Int /\ o \in 0 .. q - 1
  <2>. HIDE DEF a
  <2>. QED  BY <1>1, Quotient
<1>. HIDE DEF a, b, e, o
<1>3. x = e * (p * q) + (o * p + b)
  BY <1>1, <1>2
<1>4. s \in 0 .. m - 1 /\ m \in Nat \ {0}
  <2>1. o * p <= (q - 1) * p /\ o * p >= 0 /\ o * p \in Int
    BY <1>2
  <2>2. (q - 1) * p = m - p /\ m \in Nat \ {0}
    OBVIOUS
  <2>. HIDE DEF m
  <2>. QED
    BY <1>1, <2>1, <2>2
<1>. HIDE DEF s, m
<1>5. x = e * m + s
  BY <1>3 DEF s, m
<1>6. (e * m + s) \div m = e
  BY <1>2, <1>4, QuotientIs
<1>. QED
  BY <1>5, <1>6 DEF e, a, m

\* What is divided is put together again.
LEMMA Division ==
    ASSUME NEW m \in Nat \ {0}, NEW x \in Int
    PROVE  x = (x \div m) * m + (x % m) /\ x \div m \in Int /\ x % m \in 0 .. m - 1
<1>. DEFINE q == x \div m
            r == x % m
<1>1. r = x - q * m /\ q \in Int /\ r \in 0 .. m - 1
  BY Quotient
<1>2. x = q * m + r
  <2>. HIDE DEF q, r
  <2>. QED  BY <1>1
<1>. QED
  BY <1>1, <1>2

\* A digit of a remainder is that of the number.
SameDigit(x, m, p, b) == ((x % m) \div p) % b = (x \div p) % b

LEMMA RemainderDigit ==
    ASSUME NEW p \in Nat \ {0}, NEW b \in Nat \ {0}, NEW t \in Nat \ {0}, NEW m \in Nat \ {0},
           m = (p * b) * t, NEW x \in Int
    PROVE  SameDigit(x, m, p, b)
<1>. DEFINE q == x \div m
            r == x % m
            c == r \div p
            d == r % p
            e == c \div b
            f == c % b
            u == q * t + e
            w == u * b + f
<1>1. x = q * m + r /\ q \in Int /\ r \in Int
  <2>1. x = q * m + r /\ q \in Int /\ r \in 0 .. m - 1
    BY Division, Zenon
  <2>. HIDE DEF q, r
  <2>. QED
    BY <2>1
<1>2. r = c * p + d /\ c \in Int /\ d \in 0 .. p - 1
  <2>. HIDE DEF r
  <2>. QED  BY <1>1, Division, Zenon
<1>3. c = e * b + f /\ e \in Int /\ f \in 0 .. b - 1
  <2>. HIDE DEF c
  <2>. QED  BY <1>2, Division, Zenon
<1>4. x = w * p + d /\ w \in Int /\ u \in Int
  <2>. HIDE DEF q, r, c, d, e, f
  <2>1. u \in Int /\ w \in Int
    BY <1>1, <1>3
  <2>2. x = q * ((p * b) * t) + ((e * b + f) * p + d)
    BY <1>1, <1>2, <1>3
  <2>3. q * ((p * b) * t) + ((e * b + f) * p + d) = ((q * t + e) * b + f) * p + d
    BY <1>1, <1>2, <1>3
  <2>. QED
    BY <2>1, <2>2, <2>3
<1>5. x \div p = w
  <2>1. (w * p + d) \div p = w
    <3>. HIDE DEF w, d
    <3>. QED  BY <1>2, <1>4, QuotientIs
  <2>. HIDE DEF w, d
  <2>. QED
    BY <1>4, <2>1
<1>6. w % b = f
  <2>. HIDE DEF u, f
  <2>. QED  BY <1>3, <1>4, Residue
<1>. HIDE DEF w
<1>7. f = (x \div p) % b
  BY <1>5, <1>6
<1>. QED
  BY <1>7, Zenon DEF SameDigit

-----------------------------------------------------------------------------
(* Powers of two *)

\* g has the first n powers.
Doubles(g, n) == g \in [0..n -> Nat] /\ g[0] = 1 /\ \A k \in 1..n : g[k] = 2 * g[k - 1]

LEMMA DoublesExist ==
    ASSUME NEW n \in Nat
    PROVE  \E g : Doubles(g, n)
<1>. DEFINE F == [k \in 1..n |-> [s \in Nat |-> 2 * s]]
<1>1. F \in [1..n -> [Nat -> Nat]]
  OBVIOUS
<1>2. PICK g \in [0..n -> Nat] : Steps(g, 1, F, n)
  <2>. HIDE DEF F
  <2>. QED  BY <1>1, Recursion
<1>3. \A k \in 1..n : k - 1 \in 0..n
  OBVIOUS
<1>. QED
  BY <1>2, <1>3 DEF Steps, Doubles

LEMMA DoublesAgree ==
    ASSUME NEW n \in Nat, NEW m \in Nat, n <= m, NEW g, NEW h, Doubles(g, n), Doubles(h, m)
    PROVE  g[n] = h[n]
<1>1. g[0] = h[0] /\ \A k \in 1..n : k \in 1..m /\ g[k] = 2 * g[k - 1] /\ h[k] = 2 * h[k - 1]
  BY DEF Doubles
<1>2. \A k \in 0..n : g[k] = h[k]
  BY <1>1, SameSteps
<1>. QED
  BY <1>2

LEMMA PowersOfTwo ==
    /\ PowerOfTwo[0] = 1
    /\ \A n \in Nat : PowerOfTwo[n] \in Nat \ {0} /\ PowerOfTwo[n + 1] = 2 * PowerOfTwo[n]
<1>. DEFINE G(n) == CHOOSE g : Doubles(g, n)
            f == [n \in Nat |-> G(n)[n]]
<1>1. \A n \in Nat : Doubles(G(n), n)
  BY DoublesExist
<1>2. \A n \in Nat : f[n] = G(n)[n]
  OBVIOUS
<1>3. f[0] = 1 /\ \A n \in Nat : f[n] \in Nat
  <2>. HIDE DEF G
  <2>1. G(0)[0] = 1 /\ \A n \in Nat : G(n)[n] \in Nat
    BY <1>1 DEF Doubles
  <2>. QED
    BY <1>2, <2>1
<1>4. ASSUME NEW n \in Nat
      PROVE  f[n + 1] = 2 * f[n]
  <2>1. Doubles(G(n), n) /\ Doubles(G(n + 1), n + 1)
    BY <1>1
  <2>2. G(n)[n] = G(n + 1)[n]
    <3>. HIDE DEF G
    <3>. QED  BY <2>1, DoublesAgree
  <2>3. G(n + 1)[n + 1] = 2 * G(n + 1)[(n + 1) - 1] /\ (n + 1) - 1 = n
    <3>. HIDE DEF G
    <3>1. n + 1 \in 1..(n + 1)
      OBVIOUS
    <3>. QED  BY <2>1, <3>1 DEF Doubles
  <2>. QED
    BY <1>2, <2>2, <2>3
<1>5. f = [n \in Nat |-> IF n = 0 THEN 1 ELSE 2 * f[n - 1]]
  <2>1. \A n \in Nat : n # 0 => n - 1 \in Nat /\ (n - 1) + 1 = n
    OBVIOUS
  <2>2. \A n \in Nat : f[n] = IF n = 0 THEN 1 ELSE 2 * f[n - 1]
    <3>. HIDE DEF f
    <3>. QED  BY <1>3, <1>4, <2>1
  <2>3. f = [n \in Nat |-> f[n]]
    OBVIOUS
  <2>. HIDE DEF f
  <2>. QED
    BY <2>2, <2>3
<1>6. PowerOfTwo = [n \in Nat |-> IF n = 0 THEN 1 ELSE 2 * PowerOfTwo[n - 1]]
  <2>. HIDE DEF f
  <2>. QED  BY <1>5 DEF PowerOfTwo
<1>7. PowerOfTwo[0] = 1 /\ \A n \in Nat : PowerOfTwo[n + 1] = 2 * PowerOfTwo[n]
  <2>1. \A n \in Nat : n + 1 \in Nat /\ n + 1 # 0 /\ (n + 1) - 1 = n
    OBVIOUS
  <2>. QED
    BY <1>6, <2>1
<1>. DEFINE T == {n \in Nat : PowerOfTwo[n] \in Nat \ {0}}
<1>8. T = Nat
  <2>1. 0 \in T /\ \A n \in T : n + 1 \in T
    BY <1>7
  <2>2. T \in SUBSET Nat
    OBVIOUS
  <2>. HIDE DEF T
  <2>. QED  BY <2>1, <2>2, Induction
<1>. QED
  BY <1>7, <1>8

LEMMA PowerOfSum ==
    ASSUME NEW a \in Nat, NEW b \in Nat
    PROVE  PowerOfTwo[a + b] = PowerOfTwo[a] * PowerOfTwo[b]
<1>. DEFINE T == {n \in Nat : PowerOfTwo[a + n] = PowerOfTwo[a] * PowerOfTwo[n]}
<1>1. 0 \in T
  BY PowersOfTwo
<1>2. ASSUME NEW n \in T
      PROVE  n + 1 \in T
  <2>1. PowerOfTwo[a + (n + 1)] = 2 * PowerOfTwo[a + n] /\ PowerOfTwo[n + 1] = 2 * PowerOfTwo[n]
    <3>1. a + n \in Nat /\ a + (n + 1) = (a + n) + 1
      OBVIOUS
    <3>. QED
      BY <3>1, PowersOfTwo
  <2>2. PowerOfTwo[a] \in Nat /\ PowerOfTwo[n] \in Nat
    BY PowersOfTwo
  <2>3. \A p, q \in Nat : 2 * (p * q) = p * (2 * q)
    OBVIOUS
  <2>. QED
    BY <2>1, <2>2, <2>3
<1>3. T = Nat
  <2>1. T \in SUBSET Nat
    OBVIOUS
  <2>. HIDE DEF T
  <2>. QED  BY <1>1, <1>2, <2>1, Induction
<1>. QED
  BY <1>3

\* The powers around the k-th of W bits
Around(W, k, p, q) ==
    /\ PowerOfTwo[k] = p /\ PowerOfTwo[W - (k + 1)] = q /\ PowerOfTwo[1] = 2
    /\ PowerOfTwo[k + 1] = 2 * p /\ PowerOfTwo[W - k] = 2 * q
    /\ PowerOfTwo[W] = 2 * (p * q) /\ PowerOfTwo[W - 1] = p * q /\ p * q \in Nat \ {0}

LEMMA PowersAround ==
    ASSUME NEW W \in Nat \ {0}, NEW k \in 0 .. W - 1
    PROVE  \E p \in Nat \ {0}, q \in Nat \ {0} : Around(W, k, p, q)
<1>. DEFINE p == PowerOfTwo[k]
            q == PowerOfTwo[W - (k + 1)]
<1>1. W \in Nat /\ k \in Nat /\ W - (k + 1) \in Nat /\ W - 1 \in Nat
      /\ (W - (k + 1)) + 1 = W - k /\ (W - 1) + 1 = W /\ k + (W - (k + 1)) = W - 1
      /\ 0 + 1 = 1
  OBVIOUS
<1>2. p \in Nat \ {0} /\ q \in Nat \ {0} /\ PowerOfTwo[1] = 2 /\ PowerOfTwo[k + 1] = 2 * p
      /\ PowerOfTwo[W - k] = 2 * q /\ PowerOfTwo[W] = 2 * PowerOfTwo[W - 1]
  <2>1. PowerOfTwo[0 + 1] = 2 * 1
    BY PowersOfTwo
  <2>. QED
    BY <1>1, <2>1, PowersOfTwo
<1>3. PowerOfTwo[W - 1] = p * q
  BY <1>1, PowerOfSum
<1>4. \A a, b \in Nat \ {0} : a * b \in Nat \ {0}
  OBVIOUS
<1>5. p * q \in Nat \ {0}
  BY <1>2, <1>4
<1>. HIDE DEF p, q
<1>6. PowerOfTwo[k] = p /\ PowerOfTwo[W - (k + 1)] = q
  BY DEF p, q
<1>. QED
  BY <1>2, <1>3, <1>5, <1>6 DEF Around
=============================================================================
