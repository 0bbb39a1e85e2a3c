---------------------------- MODULE NumberLemmas ----------------------------
(***************************************************************************)
(* Facts about natural numbers: the least and the greatest of a set, and    *)
(* \div and % for the index arithmetic of HandleMgr::indexFromPos and       *)
(* posFromIndex (HandleMgr.cpp:121-143) and of splashtools.                 *)
(***************************************************************************)
EXTENDS Integers, WellFoundedInduction, TLAPS

\* A set of natural numbers has a least one. With the set of counterexamples for
\* S this is induction.
LEMMA LeastNatural ==
    ASSUME NEW S \in SUBSET Nat, S # {}
    PROVE  \E m \in S : \A k \in S : m <= k
  <1> DEFINE R == {ss \in Nat \X Nat : ss[1] < ss[2]}
  <1>1. R = OpToRel(<, Nat)
    BY DEF OpToRel
  <1>2. IsWellFoundedOn(R, Nat)
    BY <1>1, NatLessThanWellFounded
  <1>3. \A k, m \in Nat : k < m => <<k, m>> \in R
    OBVIOUS
  <1> HIDE DEF R
  <1>4. \E m \in S : \A k \in S : ~(<<k, m>> \in R)
    BY <1>2, WFMin
  <1>5. PICK m \in S : \A k \in S : ~(<<k, m>> \in R)
    BY <1>4
  <1>6. ASSUME NEW k \in S PROVE m <= k
    <2>1. m \in Nat /\ k \in Nat
      OBVIOUS
    <2>2. ~(k < m)
      BY <1>3, <1>5, <2>1
    <2>3. QED
      BY <2>1, <2>2
  <1>7. QED
    BY <1>6

\* A bounded set of natural numbers that is not empty has a greatest one.
LEMMA GreatestNatural ==
    ASSUME NEW S \in SUBSET Nat, S # {}, NEW b \in Nat, \A k \in S : k <= b
    PROVE  \E m \in S : \A k \in S : k <= m
  <1> DEFINE U == {u \in Nat : \A k \in S : k <= u}
  <1>1. U \in SUBSET Nat /\ U # {}
    OBVIOUS
  <1>2. PICK m \in U : \A u \in U : m <= u
    BY <1>1, LeastNatural
  <1>3. m \in Nat /\ \A k \in S : k <= m
    BY <1>2
  <1>4. ASSUME m \notin S PROVE FALSE
    <2>1. \A k \in S : k < m
      BY <1>3, <1>4
    <2>2. PICK l \in S : TRUE
      OBVIOUS
    <2>3. m - 1 \in Nat
      BY <1>3, <2>1, <2>2
    <2>4. \A k \in S : k <= m - 1
      BY <1>3, <2>1
    <2>5. m - 1 \in U
      BY <2>3, <2>4
    <2>6. QED
      BY <1>2, <1>3, <2>5
  <1>5. QED
    BY <1>3, <1>4

\* Quotient and remainder determine the dividend.
LEMMA DivMod ==
    ASSUME NEW n \in Nat, NEW d \in Nat \ {0}
    PROVE  /\ n \div d \in Nat
           /\ n % d \in 0..(d - 1)
           /\ n = d * (n \div d) + (n % d)
  OBVIOUS

\* Multiples of d are at least d apart.
LEMMA ProductStep ==
    ASSUME NEW d \in Nat \ {0}, NEW a \in Nat, NEW b \in Nat, a > b
    PROVE  d * a >= d * b + d
  <1> DEFINE k == a - b - 1
  <1>1. k \in Nat /\ a = b + 1 + k
    OBVIOUS
  <1>2. d * a = d * b + d + d * k
    BY <1>1
  <1>3. d * k >= 0
    BY <1>1
  <1> HIDE DEF k
  <1>4. QED
    BY <1>1, <1>2, <1>3

\* The quotient is the only q with a remainder below the divisor.
LEMMA DivUnique ==
    ASSUME NEW n \in Nat, NEW d \in Nat \ {0}, NEW q \in Nat, NEW r \in 0..(d - 1),
           n = d * q + r
    PROVE  n \div d = q
  <1> DEFINE a == n \div d
             m == n % d
  <1>1. a \in Nat /\ m \in 0..(d - 1) /\ n = d * a + m
    BY DivMod
  <1> HIDE DEF a, m
  <1>2. ~ a > q
    <2>1. SUFFICES ASSUME a > q PROVE FALSE
      OBVIOUS
    <2>2. d * a >= d * q + d
      BY <1>1, <2>1, ProductStep
    <2>3. QED
      BY <1>1, <2>2
  <1>3. ~ q > a
    <2>1. SUFFICES ASSUME q > a PROVE FALSE
      OBVIOUS
    <2>2. d * q >= d * a + d
      BY <1>1, <2>1, ProductStep
    <2>3. QED
      BY <1>1, <2>2
  <1>4. QED
    BY <1>1, <1>2, <1>3 DEF a

\* The remainder of a number that is at most one divisor away from its range.
LEMMA ModWrap ==
    ASSUME NEW a \in Int, NEW n \in Nat \ {0}
    PROVE  /\ a \in 0..(n - 1) => a % n = a
           /\ a \in n..(2 * n - 1) => a % n = a - n
           /\ a \in (-n)..(-1) => a % n = a + n
  <1> DEFINE q == a \div n
             r == a % n
  <1>1. q \in Int /\ r \in 0..(n - 1) /\ a = n * q + r
    OBVIOUS
  <1> HIDE DEF q, r
  <1>2. q >= 2 \/ q = 1 \/ q = 0 \/ q = -1 \/ q <= -2
    BY <1>1
  <1>3. q >= 2 => n * q >= 2 * n
    <2>1. q >= 2 => n * q = 2 * n + n * (q - 2) /\ n * (q - 2) >= 0
      BY <1>1
    <2>2. QED
      BY <1>1, <2>1
  <1>4. q <= -2 => n * q <= -(2 * n)
    <2>1. q <= -2 => n * (-2 - q) = -(2 * n) - n * q /\ n * (-2 - q) >= 0
      BY <1>1
    <2>2. QED
      BY <1>1, <2>1
  <1>5. CASE q >= 2
    BY <1>1, <1>3, <1>5
  <1>6. CASE q <= -2
    BY <1>1, <1>4, <1>6
  <1>7. CASE q = 1
    BY <1>1, <1>7 DEF r
  <1>8. CASE q = 0
    BY <1>1, <1>8 DEF r
  <1>9. CASE q = -1
    BY <1>1, <1>9 DEF r
  <1>10. QED
    BY <1>2, <1>5, <1>6, <1>7, <1>8, <1>9

\* Splitting i into coordinates of an X by Y by any grid and joining them again
\* gives i back.
LEMMA GridRoundTrip ==
    ASSUME NEW X \in Nat \ {0}, NEW Y \in Nat \ {0}, NEW i \in Nat
    PROVE  (i % X) + ((i \div X) % Y) * X + (i \div (Y * X)) * X * Y = i
  <1> DEFINE j == i \div X
             q == j \div Y
             s == j % Y
             t == i % X
  <1>1. j \in Nat /\ t \in 0..(X - 1) /\ i = X * j + t
    BY DivMod
  <1>2. q \in Nat /\ s \in 0..(Y - 1) /\ j = Y * q + s
    BY <1>1, DivMod
  <1> HIDE DEF j, q, s, t
  <1>3. Y * X \in Nat \ {0}
    OBVIOUS
  <1>4. i = (Y * X) * q + (s * X + t)
    BY <1>1, <1>2
  <1>5. s * X + t \in 0..(Y * X - 1)
    <2>1. Y > s
      BY <1>2
    <2>2. X * Y >= X * s + X
      BY <2>1, <1>2, ProductStep
    <2>3. X * s \in Nat /\ X * s = s * X /\ X * Y = Y * X
      BY <1>2
    <2>4. QED
      BY <1>1, <2>2, <2>3
  <1>6. i \div (Y * X) = q
    BY <1>1, <1>2, <1>3, <1>4, <1>5, DivUnique
  <1>7. t + s * X + q * X * Y = i
    BY <1>4, <1>1, <1>2
  <1>8. QED
    BY <1>6, <1>7 DEF j, s, t


\* A function is defined by recursion over 0..N: from a, and by h from the value
\* before. S are sets its values stay in.
Recursive(N, a, h, f) == f = [j \in 0..N |-> IF j = 0 THEN a ELSE h[j][f[j - 1]]]

LEMMA RecursionStays ==
    ASSUME NEW N \in Nat, NEW S, NEW a \in S[0], NEW h,
           \A j \in 1..N : \A x \in S[j - 1] : h[j][x] \in S[j],
           NEW f, Recursive(N, a, h, f)
    PROVE  \A j \in 0..N : f[j] \in S[j]
  <1> DEFINE Bad == {m \in 0..N : f[m] \notin S[m]}
  <1>1. SUFFICES ASSUME Bad # {} PROVE FALSE
    OBVIOUS
  <1>2. Bad \in SUBSET Nat
    OBVIOUS
  <1>3. PICK m \in Bad : \A k \in Bad : m <= k
    BY <1>1, <1>2, LeastNatural
  <1>4. m \in 0..N /\ f[m] \notin S[m]
    OBVIOUS
  <1>5. f[m] = IF m = 0 THEN a ELSE h[m][f[m - 1]]
    BY <1>4 DEF Recursive
  <1>6. CASE m = 0
    BY <1>4, <1>5, <1>6
  <1>7. CASE m # 0
    <2>1. m - 1 \in 0..N /\ ~(m <= m - 1) /\ m \in 1..N
      BY <1>4, <1>7
    <2>2. f[m - 1] \in S[m - 1]
      BY <1>3, <2>1
    <2>3. h[m][f[m - 1]] \in S[m]
      BY <2>1, <2>2
    <2>4. QED
      BY <1>4, <1>5, <1>7, <2>3
  <1>8. QED
    BY <1>6, <1>7

LEMMA RecursionExists ==
    ASSUME NEW N \in Nat, NEW a, NEW h
    PROVE  \E f : Recursive(N, a, h, f)
  <1> DEFINE Bad == {m \in Nat : ~ \E f : Recursive(m, a, h, f)}
  <1>1. SUFFICES ASSUME Bad # {} PROVE FALSE
    OBVIOUS
  <1>2. PICK m \in Bad : \A k \in Bad : m <= k
    BY <1>1, LeastNatural
  <1>3. m \in Nat /\ ~ \E f : Recursive(m, a, h, f)
    BY <1>2
  <1>4. CASE m = 0
    <2> DEFINE g == [j \in 0..0 |-> a]
    <2>1. g = [j \in 0..0 |-> IF j = 0 THEN a ELSE h[j][g[j - 1]]]
      OBVIOUS
    <2>2. QED
      BY <1>3, <1>4, <2>1 DEF Recursive
  <1>5. CASE m # 0
    <2>1. m - 1 \in Nat /\ ~(m <= m - 1)
      BY <1>3, <1>5
    <2>2. PICK f : Recursive(m - 1, a, h, f)
      BY <1>2, <2>1
    <2> DEFINE g == [j \in 0..m |-> IF j = m THEN h[m][f[m - 1]] ELSE f[j]]
    <2>3. ASSUME NEW j \in 0..m PROVE g[j] = IF j = 0 THEN a ELSE h[j][g[j - 1]]
      <3>1. CASE j = m
        <4>1. m - 1 \in 0..m /\ m - 1 # m
          BY <1>3, <2>1
        <4>2. g[m - 1] = f[m - 1]
          BY <4>1
        <4>3. g[j] = h[m][f[m - 1]]
          BY <3>1
        <4>4. QED
          BY <1>5, <3>1, <4>2, <4>3
      <3>2. CASE j # m
        <4>1. j \in 0..m - 1
          BY <1>3, <3>2
        <4>2. f[j] = IF j = 0 THEN a ELSE h[j][f[j - 1]]
          BY <2>2, <4>1 DEF Recursive
        <4>3. g[j] = f[j] /\ (j # 0 => g[j - 1] = f[j - 1])
          BY <1>3, <3>2, <4>1
        <4>4. QED
          BY <4>2, <4>3
      <3>3. QED
        BY <3>1, <3>2
    <2>4. DOMAIN g = 0..m /\ g = [j \in 0..m |-> g[j]]
      OBVIOUS
    <2> HIDE DEF g
    <2>5. g = [j \in 0..m |-> IF j = 0 THEN a ELSE h[j][g[j - 1]]]
      BY <2>3, <2>4
    <2>6. QED
      BY <1>3, <2>5 DEF Recursive
  <1>6. QED
    BY <1>4, <1>5


\* ... and the remainder is the only r.
LEMMA ModUnique ==
    ASSUME NEW n \in Nat, NEW d \in Nat \ {0}, NEW q \in Nat, NEW r \in 0..(d - 1),
           n = d * q + r
    PROVE  n % d = r
  <1> DEFINE a == n \div d
             m == n % d
  <1>1. a \in Nat /\ m \in 0..(d - 1) /\ n = d * a + m
    BY DivMod
  <1>2. a = q
    BY DivUnique
  <1> HIDE DEF a, m
  <1>3. d * a = d * q /\ d * q \in Nat
    BY <1>2
  <1>4. m = r
    BY <1>1, <1>3
  <1>5. QED
    BY <1>4 DEF m

\* A product of smaller factors is smaller.
LEMMA BelowProduct ==
    ASSUME NEW d \in Nat \ {0}, NEW q \in Nat, NEW e \in Nat, d * q < d * e
    PROVE  q < e
  <1>1. SUFFICES ASSUME ~(q < e) PROVE FALSE
    OBVIOUS
  <1> DEFINE k == q - e
  <1>2. k \in Nat /\ q = e + k
    BY <1>1
  <1> HIDE DEF k
  <1>3. d * q = d * e + d * k
    BY <1>2
  <1>4. d * k \in Nat /\ d * e \in Nat
    BY <1>2
  <1>5. QED
    BY <1>3, <1>4

\* The index of a position in an X by Y by Z grid, and back.
Index(X, Y, a, b, c) == a + b * X + c * (X * Y)

InGrid(X, Y, Z, a, b, c) ==
    /\ X \in Nat \ {0} /\ Y \in Nat \ {0} /\ Z \in Nat \ {0}
    /\ a \in 0..X - 1 /\ b \in 0..Y - 1 /\ c \in 0..Z - 1

Splits(X, Y, Z, r, a, b, c) ==
    /\ r \in 0..X * Y * Z - 1
    /\ r % X = a /\ (r % (X * Y)) \div X = b /\ r \div (X * Y) = c

LEMMA GridIndex ==
    ASSUME NEW X, NEW Y, NEW Z, NEW a, NEW b, NEW c, InGrid(X, Y, Z, a, b, c)
    PROVE  Splits(X, Y, Z, Index(X, Y, a, b, c), a, b, c)
  <1> /\ X \in Nat \ {0} /\ Y \in Nat \ {0} /\ Z \in Nat \ {0}
      /\ a \in 0..X - 1 /\ b \in 0..Y - 1 /\ c \in 0..Z - 1
    BY DEF InGrid
  <1> DEFINE r == Index(X, Y, a, b, c)
             XY == X * Y
             m == a + b * X
  <1>1. XY \in Nat \ {0} /\ XY = X * Y /\ XY = Y * X
    OBVIOUS
  <1>2. m \in Nat /\ m = X * b + a
    OBVIOUS
  <1>3. m \in 0..(XY - 1)
    <2>1. Y > b
      OBVIOUS
    <2>2. X * Y >= X * b + X
      BY <2>1, ProductStep
    <2> HIDE DEF m, XY
    <2>3. QED
      BY <1>1, <1>2, <2>2
  <1>4. r = XY * c + m
    BY DEF Index
  <1> HIDE DEF m, XY, r
  <1>5. r \in Nat
    <2>1. XY * c \in Nat
      BY <1>1
    <2>2. QED
      BY <1>2, <1>4, <2>1
  <1>6. r \div XY = c /\ r % XY = m
    <2>1. c \in Nat
      OBVIOUS
    <2>2. r \div XY = c
      BY <1>1, <1>3, <1>4, <1>5, <2>1, DivUnique
    <2>3. QED
      BY <1>1, <1>3, <1>4, <1>5, <2>1, <2>2, ModUnique
  <1>7. m \div X = b
    <2>1. b \in Nat /\ a \in 0..(X - 1) /\ X \in Nat \ {0}
      OBVIOUS
    <2>2. QED
      BY <1>2, <2>1, DivUnique
  <1>8. r % X = a
    <2> DEFINE q == b + Y * c
    <2>1. q \in Nat /\ r = X * q + a
      BY <1>1, <1>2, <1>4
    <2> HIDE DEF q
    <2>2. QED
      BY <1>5, <2>1, ModUnique
  <1>9. r < XY * Z
    <2>1. Z > c
      OBVIOUS
    <2>2. XY * Z >= XY * c + XY
      BY <1>1, <2>1, ProductStep
    <2>3. XY * c \in Nat /\ XY * Z \in Nat
      BY <1>1
    <2>4. QED
      BY <1>1, <1>3, <1>4, <2>2, <2>3
  <1>10. XY * Z \in Nat /\ XY * Z = X * Y * Z
    BY <1>1
  <1>11. r \in 0..X * Y * Z - 1
    BY <1>5, <1>9, <1>10
  <1>12. QED
    BY <1>6, <1>7, <1>8, <1>11 DEF XY, r, Splits

LEMMA GridPosition ==
    ASSUME NEW X \in Nat \ {0}, NEW Y \in Nat \ {0}, NEW Z \in Nat \ {0},
           NEW r \in 0..X * Y * Z - 1
    PROVE  /\ r % X \in 0..X - 1 /\ (r % (X * Y)) \div X \in 0..Y - 1
           /\ r \div (X * Y) \in 0..Z - 1
           /\ r = (r % X) + ((r % (X * Y)) \div X) * X + (r \div (X * Y)) * (X * Y)
  <1> DEFINE XY == X * Y
             c == r \div XY
             m == r % XY
             b == m \div X
             a == m % X
  <1>1. XY \in Nat \ {0} /\ XY = X * Y /\ r \in Nat
    <2>1. X * Y * Z \in Nat
      OBVIOUS
    <2>2. QED
      BY <2>1
  <1>2. c \in Nat /\ m \in 0..(XY - 1) /\ r = XY * c + m
    BY <1>1, DivMod
  <1>3. m \in Nat
    BY <1>1, <1>2
  <1>4. b \in Nat /\ a \in 0..(X - 1) /\ m = X * b + a
    BY <1>3, DivMod
  <1> HIDE DEF a, b
  <1>5. b < Y
    <2> HIDE DEF m, XY
    <2>1. X * b \in Nat /\ X * Y \in Nat
      BY <1>4
    <2>2. X * b < X * Y
      BY <1>1, <1>2, <1>4, <2>1
    <2>3. QED
      BY <1>4, <2>2, BelowProduct
  <1> HIDE DEF m
  <1>6. c < Z
    <2> HIDE DEF c
    <2>1. XY * c \in Nat /\ XY * Z \in Nat /\ XY * Z = X * Y * Z
      BY <1>1, <1>2
    <2>2. r < XY * Z
      <3> HIDE DEF XY
      <3>1. X * Y * Z \in Nat /\ r \in 0..X * Y * Z - 1
        OBVIOUS
      <3>2. QED
        BY <2>1, <3>1
    <2> HIDE DEF XY
    <2>3. XY * c < XY * Z
      BY <1>1, <1>2, <1>3, <2>1, <2>2
    <2>4. QED
      BY <1>1, <1>2, <2>3, BelowProduct
  <1> HIDE DEF c
  <1>7. r % X = a
    <2> DEFINE q == b + Y * c
    <2>1. q \in Nat /\ r = X * q + a
      BY <1>1, <1>2, <1>4
    <2> HIDE DEF q
    <2>2. QED
      BY <1>1, <1>4, <2>1, ModUnique
  <1>8. r = a + b * X + c * (X * Y)
    BY <1>1, <1>2, <1>4
  <1>9. QED
    BY <1>2, <1>4, <1>5, <1>6, <1>7, <1>8 DEF a, b, c, m
=============================================================================
