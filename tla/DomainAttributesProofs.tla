----------------------- MODULE DomainAttributesProofs -----------------------
(***************************************************************************)
(* Proofs about DCDataSet and DomainAttributes for every topology, every    *)
(* way to cut the data, every selection, chunk size and annotation, and any *)
(* sequence of calls, some of which fail: the parts of the processes tile   *)
(* the whole, what was stored stays in its place, the domain is that of the *)
(* last call that wrote one, and any request brings back what was stored.   *)
(*                                                                          *)
(* First what the operators compute: chunks, sums along a row of processes, *)
(* positions, swapped axes. Then the steps keep DataInv; with the           *)
(* attributes they keep DomainInv.                                          *)
(***************************************************************************)
EXTENDS DomainAttributes, NumberLemmas, FiniteSetTheorems

-----------------------------------------------------------------------------
(* Chunks *)

Positive == Nat \ {0}

\* Smaller dimensions come first, of equal ones the one with the lower index.
Precedes(dims, i, j) == dims[i] < dims[j] \/ (dims[i] = dims[j] /\ i < j)

Ordered(dims, n, order) ==
    \A k, l \in 1..n : k < l => Precedes(dims, order[k], order[l])

\* DCHelper.hpp:113-117. The order has each dimension in it.
LEMMA OrderFacts ==
    ASSUME NEW n \in 1..3, NEW dims, \A i \in 1..n : dims[i] \in Positive
    PROVE  /\ DimsOrder(dims, n) \in [1..n -> 1..n]
           /\ \A j \in 1..n : \E k \in 1..n : DimsOrder(dims, n)[k] = j
  <1>1. \E order \in [1..n -> 1..n] : Ordered(dims, n, order)
    <2>1. CASE n = 1
      <3>1. [i \in 1..1 |-> 1] \in [1..1 -> 1..1]
        OBVIOUS
      <3>2. Ordered(dims, 1, [i \in 1..1 |-> 1])
        BY DEF Ordered
      <3>3. QED
        BY <2>1, <3>1, <3>2
    <2>2. CASE n = 2
      <3> DEFINE f(a, b) == [i \in 1..2 |-> IF i = 1 THEN a ELSE b]
      <3>1. dims[1] \in Nat /\ dims[2] \in Nat
        BY <2>2 DEF Positive
      <3>2. \A a, b \in 1..2 : f(a, b) \in [1..2 -> 1..2]
        OBVIOUS
      <3>3. \A a, b \in 1..2 : Precedes(dims, a, b) => Ordered(dims, 2, f(a, b))
        BY DEF Ordered
      <3>4. Precedes(dims, 1, 2) \/ Precedes(dims, 2, 1)
        BY <3>1 DEF Precedes
      <3> HIDE DEF f
      <3>5. QED
        BY <2>2, <3>2, <3>3, <3>4
    <2>3. CASE n = 3
      <3> DEFINE f(a, b, c) == [i \in 1..3 |-> IF i = 1 THEN a ELSE IF i = 2 THEN b ELSE c]
                 P(a, b) == Precedes(dims, a, b)
      <3>1. dims[1] \in Nat /\ dims[2] \in Nat /\ dims[3] \in Nat
        BY <2>3 DEF Positive
      <3>2. \A a, b, c \in 1..3 : f(a, b, c) \in [1..3 -> 1..3]
        OBVIOUS
      <3>3. \A a, b, c \in 1..3 : P(a, b) /\ P(b, c) /\ P(a, c) => Ordered(dims, 3, f(a, b, c))
        BY DEF Ordered
      <3>4. \/ P(1, 2) /\ P(2, 3) /\ P(1, 3)
            \/ P(1, 3) /\ P(3, 2) /\ P(1, 2)
            \/ P(2, 1) /\ P(1, 3) /\ P(2, 3)
            \/ P(2, 3) /\ P(3, 1) /\ P(2, 1)
            \/ P(3, 1) /\ P(1, 2) /\ P(3, 2)
            \/ P(3, 2) /\ P(2, 1) /\ P(3, 1)
        BY <3>1 DEF Precedes
      <3> HIDE DEF f, P
      <3>5. QED
        BY <2>3, <3>2, <3>3, <3>4
    <2>4. QED
      BY <2>1, <2>2, <2>3
  <1> DEFINE order == DimsOrder(dims, n)
  <1>2. order \in [1..n -> 1..n] /\ Ordered(dims, n, order)
    BY <1>1 DEF DimsOrder, Ordered, Precedes
  <1> HIDE DEF order
  <1>3. \A k, l \in 1..n : k < l => order[k] # order[l]
    <2>1. SUFFICES ASSUME NEW k \in 1..n, NEW l \in 1..n, k < l PROVE order[k] # order[l]
      OBVIOUS
    <2>2. Precedes(dims, order[k], order[l]) /\ order[k] \in 1..n /\ order[l] \in 1..n
      BY <1>2, <2>1 DEF Ordered
    <2>3. dims[order[k]] \in Nat /\ dims[order[l]] \in Nat
      BY <2>2 DEF Positive
    <2>4. QED
      BY <2>2, <2>3 DEF Precedes
  <1>4. ASSUME NEW j \in 1..n PROVE \E k \in 1..n : order[k] = j
    <2>1. CASE n = 1
      BY <1>2, <2>1
    <2>2. CASE n = 2
      <3>1. order[1] \in 1..2 /\ order[2] \in 1..2 /\ order[1] # order[2]
        BY <1>2, <1>3, <2>2
      <3>2. QED
        BY <2>2, <3>1
    <2>3. CASE n = 3
      <3>1. /\ order[1] \in 1..3 /\ order[2] \in 1..3 /\ order[3] \in 1..3
            /\ order[1] # order[2] /\ order[1] # order[3] /\ order[2] # order[3]
        BY <1>2, <1>3, <2>3
      <3>2. QED
        BY <2>3, <3>1
    <2>4. QED
      BY <2>1, <2>2, <2>3
  <1>5. QED
    BY <1>2, <1>4 DEF order


LEMMA TripleProduct ==
    ASSUME NEW a \in Positive, NEW b \in Positive, NEW c \in Positive
    PROVE  /\ a * b * c \in Positive
           /\ (2 * a) * b * c = 2 * (a * b * c)
           /\ a * (2 * b) * c = 2 * (a * b * c)
           /\ a * b * (2 * c) = 2 * (a * b * c)
  <1>1. a * b \in Positive
    BY DEF Positive
  <1>2. a * b * c \in Positive
    BY <1>1 DEF Positive
  <1>3. QED
    BY <1>2 DEF Positive

LEMMA TimesGrows ==
    ASSUME NEW a \in Nat, NEW x \in Nat, a <= x, NEW b \in Nat, NEW y \in Nat, b <= y
    PROVE  a * b <= x * y
  <1> DEFINE d == x - a
             e == y - b
  <1>1. d \in Nat /\ e \in Nat /\ x = a + d /\ y = b + e
    OBVIOUS
  <1> HIDE DEF d, e
  <1>2. x * y = a * b + a * e + d * b + d * e
    BY <1>1
  <1>3. a * b \in Nat /\ a * e \in Nat /\ d * b \in Nat /\ d * e \in Nat
    BY <1>1
  <1>4. QED
    BY <1>2, <1>3

LEMMA ProductFacts ==
    ASSUME NEW n \in 1..3, NEW c, \A i \in 1..n : c[i] \in Positive
    PROVE  /\ Product(c, n) \in Positive
           /\ Product(c, n) = (IF 1 <= n THEN c[1] ELSE 1) * (IF 2 <= n THEN c[2] ELSE 1)
                              * (IF 3 <= n THEN c[3] ELSE 1)
  <1> DEFINE v(i) == IF i <= n THEN c[i] ELSE 1
  <1>1. \A i \in Dim : v(i) \in Positive
    BY DEF Dim, Positive
  <1>2. v(1) \in Positive /\ v(2) \in Positive /\ v(3) \in Positive
    BY <1>1 DEF Dim
  <1>3. Product(c, n) = v(1) * v(2) * v(3)
    BY DEF Product, Scalar, Dim
  <1> HIDE DEF v
  <1>4. v(1) * v(2) * v(3) \in Positive
    BY <1>2, TripleProduct
  <1>5. QED
    BY <1>3, <1>4 DEF v

\* Doubling one factor doubles the product.
LEMMA ProductDoubles ==
    ASSUME NEW n \in 1..3, NEW c \in [1..n -> Positive], NEW j \in 1..n
    PROVE  Product([c EXCEPT ![j] = @ * 2], n) = 2 * Product(c, n)
  <1> DEFINE g == [c EXCEPT ![j] = @ * 2]
             v(i) == IF i <= n THEN c[i] ELSE 1
             w(i) == IF i <= n THEN g[i] ELSE 1
  <1>1. \A i \in 1..n : c[i] \in Positive /\ g[i] = (IF i = j THEN 2 * c[i] ELSE c[i])
    BY DEF Positive
  <1>2. \A i \in 1..n : g[i] \in Positive
    BY <1>1 DEF Positive
  <1>3. Product(c, n) = v(1) * v(2) * v(3)
    BY <1>1, ProductFacts
  <1>4. Product(g, n) = w(1) * w(2) * w(3)
    BY <1>2, ProductFacts
  <1>5. v(1) \in Positive /\ v(2) \in Positive /\ v(3) \in Positive
    BY <1>1 DEF Positive
  <1>6. /\ j \in 1..3
        /\ w(1) = (IF j = 1 THEN 2 * v(1) ELSE v(1))
        /\ w(2) = (IF j = 2 THEN 2 * v(2) ELSE v(2))
        /\ w(3) = (IF j = 3 THEN 2 * v(3) ELSE v(3))
    BY <1>1
  <1>7. SUFFICES w(1) * w(2) * w(3) = 2 * (v(1) * v(2) * v(3))
    BY <1>3, <1>4
  <1> HIDE DEF v, w
  <1>8. /\ (2 * v(1)) * v(2) * v(3) = 2 * (v(1) * v(2) * v(3))
        /\ v(1) * (2 * v(2)) * v(3) = 2 * (v(1) * v(2) * v(3))
        /\ v(1) * v(2) * (2 * v(3)) = 2 * (v(1) * v(2) * v(3))
    BY <1>5, TripleProduct
  <1>9. j = 1 \/ j = 2 \/ j = 3
    BY <1>6
  <1>10. CASE j = 1
    BY <1>6, <1>8, <1>10
  <1>11. CASE j = 2
    BY <1>6, <1>8, <1>11
  <1>12. CASE j = 3
    BY <1>6, <1>8, <1>12
  <1>13. QED
    BY <1>9, <1>10, <1>11, <1>12

LEMMA DoubledFits ==
    ASSUME NEW n \in 1..3, NEW c \in [1..n -> Positive], NEW j \in 1..n, NEW dims,
           \A i \in 1..n : dims[i] \in Positive /\ c[i] <= dims[i], c[j] * 2 <= dims[j]
    PROVE  /\ [c EXCEPT ![j] = @ * 2] \in [1..n -> Positive]
           /\ \A i \in 1..n : [c EXCEPT ![j] = @ * 2][i] <= dims[i]
  <1> DEFINE g == [c EXCEPT ![j] = @ * 2]
  <1>1. \A i \in 1..n : c[i] \in Positive /\ g[i] = (IF i = j THEN c[i] * 2 ELSE c[i])
    OBVIOUS
  <1>2. g = [i \in 1..n |-> g[i]]
    OBVIOUS
  <1> HIDE DEF g
  <1>3. ASSUME NEW i \in 1..n PROVE g[i] \in Positive /\ g[i] <= dims[i]
    <2>1. /\ c[i] \in Nat \ {0} /\ c[i] <= dims[i]
          /\ g[i] = IF i = j THEN c[i] * 2 ELSE c[i]
      BY <1>1 DEF Positive
    <2>2. CASE i = j
      BY ONLY <2>1, <2>2, c[j] * 2 <= dims[j] DEF Positive
    <2>3. CASE i # j
      BY ONLY <2>1, <2>3 DEF Positive
    <2>4. QED
      BY <2>2, <2>3
  <1>4. g \in [1..n -> Positive]
    BY <1>2, <1>3
  <1>5. QED
    BY <1>3, <1>4 DEF g

LEMMA ProductGrows ==
    ASSUME NEW n \in 1..3, NEW c, NEW d,
           \A i \in 1..n : c[i] \in Positive /\ d[i] \in Positive /\ d[i] <= c[i]
    PROVE  Product(d, n) <= Product(c, n)
  <1> DEFINE v(i) == IF i <= n THEN c[i] ELSE 1
             w(i) == IF i <= n THEN d[i] ELSE 1
  <1>1. Product(c, n) = v(1) * v(2) * v(3)
    BY ProductFacts
  <1>2. Product(d, n) = w(1) * w(2) * w(3)
    BY ProductFacts
  <1>3. /\ v(1) \in Nat /\ v(2) \in Nat /\ v(3) \in Nat
        /\ w(1) \in Nat /\ w(2) \in Nat /\ w(3) \in Nat
        /\ w(1) <= v(1) /\ w(2) <= v(2) /\ w(3) <= v(3)
    BY DEF Positive
  <1> HIDE DEF v, w
  <1>4. w(1) * w(2) <= v(1) * v(2) /\ w(1) * w(2) \in Nat /\ v(1) * v(2) \in Nat
    BY <1>3, TimesGrows
  <1>5. (w(1) * w(2)) * w(3) <= (v(1) * v(2)) * v(3)
    BY <1>3, <1>4, TimesGrows
  <1>6. QED
    BY <1>1, <1>2, <1>5


\* The body of the loop of getOptimalChunkDims(), as in OptimalChunkDims.
Turn(dims, n, at, k) == DimsOrder(dims, n)[((at + k - 1) % n) + 1]
Growing(dims, n, g) == {k \in 1..n : CanGrow(g.chunk, dims, Turn(dims, n, g.at, k))}
NextDiff(target, g) == (target - g.bytes * 2) % SizeMod

Stops(dims, n, target, g) ==
    g.bytes >= target \/ NextDiff(target, g) >= g.diff \/ Growing(dims, n, g) = {}

GrowStart(n, target) ==
    [chunk |-> [i \in 1..n |-> 1], bytes |-> TypeSize, diff |-> target, at |-> 0]

GrowNext(dims, n, target, g) ==
    LET k == CHOOSE j \in Growing(dims, n, g) : \A l \in Growing(dims, n, g) : j <= l
    IN  IF Stops(dims, n, target, g) THEN g
        ELSE [chunk |-> [g.chunk EXCEPT ![Turn(dims, n, g.at, k)] = @ * 2],
              bytes |-> g.bytes * 2, diff |-> NextDiff(target, g), at |-> (g.at + k) % n]

Grows(dims, n, target, f) ==
    f = [s \in 0..target |-> IF s = 0 THEN GrowStart(n, target)
                             ELSE GrowNext(dims, n, target, f[s - 1])]

\* What the loop can come to in s rounds.
GrowStates(dims, n, target, s) ==
    {g \in [chunk : [1..n -> Positive], bytes : Positive, diff : Nat, at : 0..n - 1] :
       /\ \A i \in 1..n : g.chunk[i] <= dims[i]
       /\ g.bytes = TypeSize * Product(g.chunk, n)
       /\ \/ g.bytes = TypeSize /\ g.diff = target
          \/ g.bytes <= target /\ g.diff = target - g.bytes
       /\ g.bytes >= s + 1 \/ Stops(dims, n, target, g)}

LEMMA TurnFacts ==
    ASSUME NEW n \in 1..3, NEW dims, \A i \in 1..n : dims[i] \in Positive,
           NEW at \in 0..n - 1
    PROVE  /\ \A k \in 1..n : Turn(dims, n, at, k) \in 1..n
           /\ \A i \in 1..n : \E k \in 1..n : Turn(dims, n, at, k) = i
  <1> DEFINE order == DimsOrder(dims, n)
  <1>1. order \in [1..n -> 1..n] /\ \A j \in 1..n : \E k \in 1..n : order[k] = j
    BY OrderFacts
  <1> HIDE DEF order
  <1>2. \A k \in 1..n : ((at + k - 1) % n) + 1 \in 1..n
    OBVIOUS
  <1>3. ASSUME NEW i \in 1..n PROVE \E k \in 1..n : order[((at + k - 1) % n) + 1] = i
    <2>1. PICK m \in 1..n : order[m] = i
      BY <1>1
    <2> DEFINE k == IF m > at THEN m - at ELSE m - at + n
               a == at + k - 1
    <2>2. k \in 1..n /\ a = at + k - 1 /\ a \in Int /\ n \in Nat \ {0}
      OBVIOUS
    <2>3. IF m > at THEN a = m - 1 /\ a \in 0..(n - 1)
                    ELSE a = m - 1 + n /\ a \in n..(2 * n - 1)
      OBVIOUS
    <2> HIDE DEF k, a
    <2>4. a % n = m - 1
      <3>1. CASE m > at
        BY <2>2, <2>3, <3>1, ModWrap
      <3>2. CASE ~(m > at)
        <4>1. a % n = a - n
          BY <2>2, <2>3, <3>2, ModWrap
        <4>2. QED
          BY <2>3, <3>2, <4>1
      <3>3. QED
        BY <3>1, <3>2
    <2>5. ((at + k - 1) % n) + 1 = m
      BY <2>2, <2>4
    <2>6. QED
      BY <2>1, <2>2, <2>5
  <1>4. QED
    BY <1>1, <1>2, <1>3 DEF Turn, order

LEMMA GrowKeeps ==
    ASSUME DataSetAssumption,
           NEW n \in 1..3, NEW dims, \A i \in 1..n : dims[i] \in Positive,
           NEW target \in Positive, 2 * target <= SizeMod,
           NEW s \in Nat, NEW g \in GrowStates(dims, n, target, s)
    PROVE  GrowNext(dims, n, target, g) \in GrowStates(dims, n, target, s + 1)
  <1>1. /\ g = [chunk |-> g.chunk, bytes |-> g.bytes, diff |-> g.diff, at |-> g.at]
        /\ g.chunk \in [1..n -> Positive] /\ g.bytes \in Positive /\ g.diff \in Nat
        /\ g.at \in 0..n - 1
        /\ \A i \in 1..n : g.chunk[i] <= dims[i]
        /\ g.bytes = TypeSize * Product(g.chunk, n)
        /\ \/ g.bytes = TypeSize /\ g.diff = target
           \/ g.bytes <= target /\ g.diff = target - g.bytes
        /\ g.bytes >= s + 1 \/ Stops(dims, n, target, g)
    BY DEF GrowStates
  <1>2. SizeMod \in Nat \ {0} /\ target \in Nat \ {0} /\ TypeSize \in Nat \ {0}
    BY DEF DataSetAssumption, Positive
  <1>3. CASE Stops(dims, n, target, g)
    <2>1. GrowNext(dims, n, target, g) = g
      BY <1>3 DEF GrowNext
    <2>2. QED
      BY <1>1, <1>3, <2>1 DEF GrowStates
  <1>4. CASE ~Stops(dims, n, target, g)
    <2> DEFINE b == g.bytes
               D == NextDiff(target, g)
               a == target - b * 2
               G == Growing(dims, n, g)
               k == CHOOSE j \in G : \A l \in G : j <= l
               t == Turn(dims, n, g.at, k)
    <2>2. ~(b >= target) /\ ~(D >= g.diff) /\ G # {}
      BY <1>4 DEF Stops
    <2>a. b \in Nat \ {0}
      BY <1>1 DEF Positive
    <2>b. D = a % SizeMod
      BY DEF NextDiff
    <2>1. b \in Nat \ {0} /\ b < target /\ D = a % SizeMod /\ a \in Int /\ a = target - b * 2
      <3> HIDE DEF b, D, G
      <3>1. QED
        BY <1>2, <2>2, <2>a, <2>b
    <2>3. D = target - 2 * b /\ 2 * b <= target /\ D \in Nat
      <3> HIDE DEF b, D, a
      <3>1. CASE a >= 0
        <4>1. a \in 0..(SizeMod - 1)
          BY <1>2, <2>1, <3>1
        <4>2. D = a
          BY <1>2, <2>1, <4>1, ModWrap
        <4>3. b \in Nat /\ a \in Int /\ a = target - b * 2
          BY <2>1
        <4>4. QED
          BY <1>2, <3>1, <4>2, <4>3
      <3>2. CASE ~(a >= 0)
        <4>1. a \in (-SizeMod)..(-1)
          BY <1>2, <2>1, <3>2
        <4>2. D = a + SizeMod
          BY <1>2, <2>1, <4>1, ModWrap
        <4>3. g.diff <= target /\ g.diff \in Nat
          <5>1. /\ b \in Nat /\ target \in Nat
                /\ g.diff = target \/ (b <= target /\ g.diff = target - b)
            BY <1>1, <1>2, <2>1 DEF b
          <5>2. QED
            BY ONLY <5>1
        <4>4. D >= target
          BY <1>2, <2>1, <4>2
        <4>5. D >= g.diff
          BY <1>2, <2>1, <4>2, <4>3, <4>4
        <4>6. QED
          BY <2>2, <4>5
      <3>3. QED
        BY <3>1, <3>2
    <2>4. G \in SUBSET Nat
      BY DEF Growing
    <2>5. \E j \in G : \A l \in G : j <= l
      BY <2>2, <2>4, LeastNatural
    <2>6. k \in G
      BY <2>5
    <2>7. k \in 1..n /\ CanGrow(g.chunk, dims, t)
      BY <2>6 DEF Growing
    <2>8. t \in 1..n
      BY <1>1, <2>7, TurnFacts
    <2> DEFINE c == [g.chunk EXCEPT ![t] = @ * 2]
               next == [chunk |-> c, bytes |-> g.bytes * 2, diff |-> D, at |-> (g.at + k) % n]
    <2>9. GrowNext(dims, n, target, g) = next
      BY <1>4 DEF GrowNext
    <2> HIDE DEF k, G, D, t
    <2>10. \A i \in 1..n : g.chunk[i] \in Positive
      BY <1>1
    <2>11. c \in [1..n -> Positive] /\ \A i \in 1..n : c[i] <= dims[i]
      <3>1. g.chunk[t] * 2 <= dims[t]
        BY <2>7 DEF CanGrow
      <3>2. \A i \in 1..n : dims[i] \in Positive /\ g.chunk[i] <= dims[i]
        BY <1>1
      <3>3. QED
        BY <1>1, <2>8, <3>1, <3>2, DoubledFits
    <2>12. Product(c, n) = 2 * Product(g.chunk, n) /\ Product(g.chunk, n) \in Positive
      BY <1>1, <2>8, <2>10, ProductDoubles, ProductFacts
    <2>13. g.bytes * 2 = TypeSize * Product(c, n)
      <3> DEFINE p == Product(g.chunk, n)
      <3>1. p \in Nat /\ g.bytes = TypeSize * p /\ Product(c, n) = 2 * p
        BY <1>1, <2>12 DEF Positive
      <3> HIDE DEF p, c
      <3>2. QED
        BY <1>2, <3>1
    <2>14. g.bytes * 2 \in Positive /\ g.bytes * 2 <= target /\ D = target - g.bytes * 2
           /\ D \in Nat
      <3>1. b \in Nat \ {0} /\ D = target - 2 * b /\ 2 * b <= target
        BY <2>1, <2>3
      <3> HIDE DEF D, b
      <3>2. b * 2 \in Nat \ {0} /\ b * 2 <= target /\ D = target - b * 2 /\ D \in Nat
        BY <1>2, <2>3, <3>1
      <3>3. QED
        BY <3>2 DEF b, Positive
    <2>15. (g.at + k) % n \in 0..n - 1
      <3>1. g.at + k \in Nat /\ n \in Nat \ {0}
        BY <1>1, <2>7
      <3>2. QED
        BY <3>1, DivMod
    <2>16. g.bytes * 2 >= s + 1 + 1
      BY <1>1, <1>4, <2>1
    <2> HIDE DEF c
    <2>17. next \in [chunk : [1..n -> Positive], bytes : Positive, diff : Nat, at : 0..n - 1]
      BY <2>11, <2>14, <2>15
    <2>18. /\ next.chunk = c /\ next.bytes = g.bytes * 2 /\ next.diff = D
      OBVIOUS
    <2> HIDE DEF next
    <2>19. next \in GrowStates(dims, n, target, s + 1)
      BY <2>11, <2>13, <2>14, <2>16, <2>17, <2>18 DEF GrowStates
    <2>20. QED
      BY <2>9, <2>19
  <1>5. QED
    BY <1>3, <1>4


\* What getOptimalChunkDims() promises of the data of n dimensions.
HalfBytes(dims, n) == TypeSize * Product([i \in 1..n |-> HalfDim(dims[i])], n)
LeastChunk == ChunkSizes[Len(ChunkSizes)]

ChunkOK(chunk, dims, n) ==
    /\ chunk \in [1..n -> Positive]
    /\ \A i \in 1..n : chunk[i] <= dims[i]
    /\ TypeSize * Product(chunk, n) <= ChunkSizes[1] \/ TypeSize * Product(chunk, n) = TypeSize
    /\ HalfBytes(dims, n) >= LeastChunk => 2 * (TypeSize * Product(chunk, n)) > LeastChunk

LEMMA SizesFacts ==
    ASSUME DataSetAssumption
    PROVE  /\ Len(ChunkSizes) \in Nat \ {0} /\ DOMAIN ChunkSizes = 1..Len(ChunkSizes)
           /\ \A i \in DOMAIN ChunkSizes :
                /\ ChunkSizes[i] \in Positive /\ 2 * ChunkSizes[i] <= SizeMod
                /\ LeastChunk <= ChunkSizes[i] /\ ChunkSizes[i] <= ChunkSizes[1]
  <1>1. ChunkSizes \in Seq(Nat \ {0}) /\ ChunkSizes # <<>>
    BY DEF DataSetAssumption
  <1>2. /\ Len(ChunkSizes) \in Nat \ {0} /\ DOMAIN ChunkSizes = 1..Len(ChunkSizes)
        /\ \A i \in DOMAIN ChunkSizes : ChunkSizes[i] \in Nat \ {0}
    BY <1>1
  <1>3. \A i, j \in DOMAIN ChunkSizes :
           2 * ChunkSizes[i] <= SizeMod /\ (i < j => ChunkSizes[j] <= ChunkSizes[i])
    BY DEF DataSetAssumption
  <1>4. ASSUME NEW i \in DOMAIN ChunkSizes
        PROVE  LeastChunk <= ChunkSizes[i] /\ ChunkSizes[i] <= ChunkSizes[1]
    <2>1. i \in 1..Len(ChunkSizes) /\ 1 \in DOMAIN ChunkSizes /\ Len(ChunkSizes) \in DOMAIN ChunkSizes
      BY <1>2
    <2>2. i = 1 \/ 1 < i
      BY <1>2, <2>1
    <2>3. i = Len(ChunkSizes) \/ i < Len(ChunkSizes)
      BY <1>2, <2>1
    <2>4. ChunkSizes[i] \in Nat /\ ChunkSizes[1] \in Nat /\ LeastChunk \in Nat
      BY <1>2, <2>1 DEF LeastChunk
    <2>5. 1 < i => ChunkSizes[i] <= ChunkSizes[1]
      BY <1>3, <2>1
    <2>6. i < Len(ChunkSizes) => LeastChunk <= ChunkSizes[i]
      BY <1>3, <2>1 DEF LeastChunk
    <2>7. QED
      BY <2>2, <2>3, <2>4, <2>5, <2>6 DEF LeastChunk
  <1>5. QED
    BY <1>2, <1>3, <1>4 DEF Positive

LEMMA TargetFacts ==
    ASSUME DataSetAssumption, NEW n \in 1..3, NEW dims
    PROVE  LET target == TargetChunkSize(dims, n) IN
           /\ target \in Positive /\ 2 * target <= SizeMod
           /\ LeastChunk <= target /\ target <= ChunkSizes[1]
           /\ HalfBytes(dims, n) >= LeastChunk => target <= HalfBytes(dims, n)
  <1> DEFINE most == HalfBytes(dims, n)
             fits == {i \in DOMAIN ChunkSizes : ChunkSizes[i] <= most}
             k == CHOOSE i \in fits : \A j \in fits : i <= j
             target == TargetChunkSize(dims, n)
  <1>1. target = IF fits = {} THEN LeastChunk ELSE ChunkSizes[k]
    BY DEF TargetChunkSize, LeastChunk, HalfBytes
  <1>2. Len(ChunkSizes) \in DOMAIN ChunkSizes
    BY SizesFacts
  <1> HIDE DEF most, target
  <1>3. CASE fits = {}
    <2>1. target = ChunkSizes[Len(ChunkSizes)]
      BY <1>1, <1>3 DEF LeastChunk
    <2>2. ~(LeastChunk <= most)
      BY <1>2, <1>3 DEF LeastChunk
    <2>3. most >= LeastChunk => LeastChunk <= most
      OBVIOUS
    <2>4. QED
      BY <1>2, <2>1, <2>2, <2>3, SizesFacts DEF most, target
  <1>4. CASE fits # {}
    <2>1. fits \in SUBSET Nat
      <3>1. Len(ChunkSizes) \in Nat /\ DOMAIN ChunkSizes = 1..Len(ChunkSizes)
        BY SizesFacts
      <3>2. QED
        BY ONLY <3>1
    <2>2. \E i \in fits : \A j \in fits : i <= j
      BY <1>4, <2>1, LeastNatural
    <2>3. k \in fits
      BY <2>2
    <2>4. k \in DOMAIN ChunkSizes /\ ChunkSizes[k] <= most /\ target = ChunkSizes[k]
      BY <1>1, <1>4, <2>3
    <2> HIDE DEF k
    <2>5. QED
      BY <2>4, SizesFacts DEF most, target
  <1>5. QED
    BY <1>3, <1>4

LEMMA GrowsStays ==
    ASSUME DataSetAssumption,
           NEW n \in 1..3, NEW dims, \A i \in 1..n : dims[i] \in Positive,
           NEW target \in Positive, 2 * target <= SizeMod
    PROVE  /\ \E f : Grows(dims, n, target, f)
           /\ \A f : Grows(dims, n, target, f) => f[target] \in GrowStates(dims, n, target, target)
  <1> DEFINE S(s) == GrowStates(dims, n, target, s)
             next(g) == GrowNext(dims, n, target, g)
  <1>1. target \in Nat
    BY DEF Positive
  <1>2. GrowStart(n, target) \in S(0)
    <2> DEFINE c == [i \in 1..n |-> 1]
    <2>1. \A i \in 1..n : c[i] \in Positive /\ c[i] = 1
      BY DEF Positive
    <2>2. Product(c, n) = 1
      <3>1. Product(c, n) = (IF 1 <= n THEN c[1] ELSE 1) * (IF 2 <= n THEN c[2] ELSE 1)
                            * (IF 3 <= n THEN c[3] ELSE 1)
        BY <2>1, ProductFacts
      <3>2. QED
        BY <3>1
    <2>3. TypeSize \in Nat \ {0}
      BY DEF DataSetAssumption
    <2>4. TypeSize = TypeSize * Product(c, n) /\ TypeSize >= 0 + 1 /\ TypeSize \in Positive
      BY <2>2, <2>3 DEF Positive
    <2>5. c \in [1..n -> Positive] /\ \A i \in 1..n : c[i] <= dims[i]
      BY <2>1 DEF Positive
    <2> DEFINE g == GrowStart(n, target)
    <2>6. g.chunk = c /\ g.bytes = TypeSize /\ g.diff = target /\ g.at = 0
          /\ g = [chunk |-> c, bytes |-> TypeSize, diff |-> target, at |-> 0]
      BY DEF GrowStart
    <2>7. 0 \in 0..n - 1
      OBVIOUS
    <2> HIDE DEF g, c
    <2>8. g \in [chunk : [1..n -> Positive], bytes : Positive, diff : Nat, at : 0..n - 1]
      BY <1>1, <2>4, <2>5, <2>6, <2>7
    <2>9. QED
      BY <2>4, <2>5, <2>6, <2>8 DEF GrowStates, g
  <1>3. \A s \in Nat : \A g \in S(s) : next(g) \in S(s + 1)
    BY GrowKeeps
  <1> HIDE DEF S, next
  <1>4. ASSUME NEW j \in 1..target, NEW g \in S(j - 1) PROVE next(g) \in S(j)
    <2>1. j - 1 \in Nat /\ (j - 1) + 1 = j
      BY <1>1
    <2>2. next(g) \in S((j - 1) + 1)
      BY <1>3, <2>1
    <2>3. QED
      BY <2>1, <2>2
  <1> DEFINE sets == [s \in 0..target |-> S(s)]
             h == [j \in 1..target |-> [g \in S(j - 1) |-> next(g)]]
             a == GrowStart(n, target)
  <1>5. a \in sets[0]
    BY <1>1, <1>2
  <1>6. \A j \in 1..target : j - 1 \in 0..target /\ j \in 0..target
    BY <1>1
  <1>7. \A j \in 1..target : \A g \in sets[j - 1] : h[j][g] = next(g) /\ h[j][g] \in sets[j]
    BY <1>4, <1>6
  <1> HIDE DEF sets, h, a
  <1>8. PICK f : Recursive(target, a, h, f)
    BY <1>1, RecursionExists
  <1>9. \A j \in 0..target : f[j] \in sets[j]
    BY <1>1, <1>5, <1>7, <1>8, RecursionStays
  <1>10. Grows(dims, n, target, f)
    <2>1. f = [j \in 0..target |-> IF j = 0 THEN a ELSE h[j][f[j - 1]]]
      BY <1>8 DEF Recursive
    <2>2. \A j \in 0..target : j # 0 => h[j][f[j - 1]] = next(f[j - 1])
      <3>1. ASSUME NEW j \in 0..target, j # 0 PROVE h[j][f[j - 1]] = next(f[j - 1])
        <4>1. j \in 1..target
          BY <1>1, <3>1
        <4>2. f[j - 1] \in sets[j - 1]
          BY <1>6, <1>9, <4>1
        <4>3. QED
          BY <1>7, <4>1, <4>2
      <3>2. QED
        BY <3>1
    <2>3. f = [j \in 0..target |-> IF j = 0 THEN a ELSE next(f[j - 1])]
      BY <2>1, <2>2
    <2>4. QED
      BY <2>3 DEF Grows, a, next
  <1>11. ASSUME NEW e, Grows(dims, n, target, e) PROVE e[target] \in S(target)
    <2> DEFINE Bad == {m \in 0..target : e[m] \notin S(m)}
    <2>1. \A m \in 0..target : e[m] = IF m = 0 THEN a ELSE next(e[m - 1])
      BY <1>11 DEF Grows, a, next
    <2>2. ASSUME Bad # {} PROVE FALSE
      <3>1. Bad \in SUBSET Nat
        OBVIOUS
      <3>2. PICK m \in Bad : \A k \in Bad : m <= k
        BY <2>2, <3>1, LeastNatural
      <3>3. m \in 0..target /\ e[m] \notin S(m)
        OBVIOUS
      <3>4. CASE m = 0
        BY <1>2, <2>1, <3>3, <3>4 DEF a
      <3>5. CASE m # 0
        <4>1. m \in 1..target /\ m - 1 \in 0..target /\ ~(m <= m - 1)
          BY <1>1, <3>3, <3>5
        <4>2. e[m - 1] \in S(m - 1)
          BY <3>2, <4>1
        <4>3. QED
          BY <1>4, <2>1, <3>3, <3>5, <4>1, <4>2
      <3>6. QED
        BY <3>4, <3>5
    <2>3. target \in 0..target
      BY <1>1
    <2>4. QED
      BY <2>2, <2>3
  <1>12. QED
    BY <1>10, <1>11 DEF S


\* DCHelper.hpp:140-180. The loop ends within target rounds, and what it has then
\* is right.
LEMMA ChunkFacts ==
    ASSUME DataSetAssumption,
           NEW n \in 1..3, NEW dims, \A i \in 1..n : dims[i] \in Positive
    PROVE  ChunkOK(OptimalChunkDims(dims, n), dims, n)
  <1> DEFINE target == TargetChunkSize(dims, n)
             f == CHOOSE e : Grows(dims, n, target, e)
             g == f[target]
             b == g.bytes
             most == HalfBytes(dims, n)
  <1>1. /\ target \in Positive /\ 2 * target <= SizeMod
        /\ LeastChunk <= target /\ target <= ChunkSizes[1]
        /\ most >= LeastChunk => target <= most
    BY TargetFacts
  <1>2. OptimalChunkDims(dims, n) = g.chunk
    BY DEF OptimalChunkDims, Grows, GrowStart, GrowNext, Stops, NextDiff, Growing, Turn
  <1> HIDE DEF target
  <1>3. g \in GrowStates(dims, n, target, target)
    BY <1>1, GrowsStays
  <1> HIDE DEF f
  <1>4. /\ g.chunk \in [1..n -> Positive] /\ b \in Positive /\ g.diff \in Nat
        /\ g.at \in 0..n - 1
        /\ \A i \in 1..n : g.chunk[i] <= dims[i]
        /\ b = TypeSize * Product(g.chunk, n)
        /\ \/ b = TypeSize /\ g.diff = target
           \/ b <= target /\ g.diff = target - b
        /\ b >= target + 1 \/ Stops(dims, n, target, g)
    BY <1>3 DEF GrowStates
  <1>5. /\ SizeMod \in Nat \ {0} /\ target \in Nat \ {0} /\ TypeSize \in Nat \ {0}
        /\ b \in Nat \ {0} /\ LeastChunk \in Nat /\ ChunkSizes[1] \in Nat
    <2>1. /\ 1 \in DOMAIN ChunkSizes /\ Len(ChunkSizes) \in DOMAIN ChunkSizes
      <3>1. Len(ChunkSizes) \in Nat \ {0} /\ DOMAIN ChunkSizes = 1..Len(ChunkSizes)
        BY SizesFacts
      <3>2. QED
        BY ONLY <3>1
    <2>2. ChunkSizes[1] \in Positive /\ ChunkSizes[Len(ChunkSizes)] \in Positive
      BY <2>1, SizesFacts
    <2>3. QED
      BY <1>1, <1>4, <2>2 DEF DataSetAssumption, Positive, LeastChunk
  <1>6. b <= ChunkSizes[1] \/ b = TypeSize
    BY <1>1, <1>4, <1>5
  <1>7. ASSUME most >= LeastChunk PROVE 2 * b > LeastChunk
    <2>1. target <= most
      BY <1>1, <1>7
    <2>2. CASE b >= target
      BY <1>1, <1>5, <2>2
    <2>3. CASE b < target /\ NextDiff(target, g) >= g.diff
      <3> DEFINE a == target - b * 2
                 D == NextDiff(target, g)
      <3>1. D = a % SizeMod
        BY DEF NextDiff
      <3>2. a \in Int /\ a = target - b * 2
        BY <1>5
      <3>3. D >= g.diff
        BY <2>3
      <3> HIDE DEF a, D, b
      <3>4. g.diff >= target - b
        BY <1>4, <1>5
      <3>5. ~(a >= 0)
        <4>1. SUFFICES ASSUME a >= 0 PROVE FALSE
          OBVIOUS
        <4>2. a \in 0..(SizeMod - 1)
          BY <1>1, <1>5, <3>2, <4>1
        <4>3. D = a
          BY <1>5, <3>1, <3>2, <4>2, ModWrap
        <4>4. target - b * 2 >= g.diff /\ g.diff >= target - b
          BY <3>2, <3>3, <3>4, <4>3
        <4>5. target \in Nat /\ b \in Nat \ {0} /\ g.diff \in Nat
          BY <1>4, <1>5
        <4>6. QED
          BY <4>4, <4>5
      <3>6. QED
        BY <1>1, <1>5, <3>2, <3>5
    <2>4. CASE Growing(dims, n, g) = {}
      <3>1. \A i \in 1..n : \E k \in 1..n : Turn(dims, n, g.at, k) = i
        BY <1>4, TurnFacts
      <3>2. ASSUME NEW i \in 1..n PROVE HalfDim(dims[i]) \in Positive /\ HalfDim(dims[i]) <= g.chunk[i]
        <4>1. PICK k \in 1..n : Turn(dims, n, g.at, k) = i
          BY <3>1
        <4>2. ~(g.chunk[i] * 2 <= dims[i])
          BY <2>4, <4>1 DEF Growing, CanGrow
        <4> DEFINE d == dims[i]
                   c == g.chunk[i]
        <4>3. d \in Nat \ {0} /\ c \in Nat \ {0} /\ ~(c * 2 <= d)
          BY <1>4, <4>2 DEF Positive
        <4> HIDE DEF d, c
        <4>4. d \div 2 \in Nat /\ d \div 2 <= c
          BY <4>3
        <4>5. HalfDim(d) \in Nat \ {0} /\ HalfDim(d) <= c
          BY <4>3, <4>4 DEF HalfDim
        <4>6. QED
          BY <4>5 DEF d, c, Positive
      <3> DEFINE half == [i \in 1..n |-> HalfDim(dims[i])]
      <3>3. \A i \in 1..n : /\ g.chunk[i] \in Positive /\ half[i] \in Positive
                            /\ half[i] <= g.chunk[i]
        BY <1>4, <3>2
      <3> HIDE DEF half
      <3>4. Product(half, n) <= Product(g.chunk, n)
        BY <3>3, ProductGrows
      <3>5. Product(half, n) \in Positive /\ Product(g.chunk, n) \in Positive
        BY <3>3, ProductFacts
      <3>6. most = TypeSize * Product(half, n)
        BY DEF HalfBytes, half
      <3> DEFINE p == Product(half, n)
                 q == Product(g.chunk, n)
      <3>7. p \in Nat /\ q \in Nat /\ p <= q /\ most = TypeSize * p /\ b = TypeSize * q
        BY <1>4, <3>4, <3>5, <3>6 DEF Positive
      <3> HIDE DEF p, q, most, b
      <3>8. TypeSize * p <= TypeSize * q
        BY <1>5, <3>7, TimesGrows
      <3>9. most <= b
        BY <3>7, <3>8
      <3>10. most \in Nat
        BY <1>5, <3>7
      <3>11. b >= target
        BY <1>5, <2>1, <3>9, <3>10
      <3>12. QED
        BY <1>1, <1>5, <3>11
    <2>5. QED
      <3>1. b >= target + 1 \/ b >= target \/ NextDiff(target, g) >= g.diff
            \/ Growing(dims, n, g) = {}
        BY <1>4 DEF Stops
      <3>2. b >= target \/ b < target
        BY <1>5
      <3>3. b >= target + 1 => b >= target
        BY <1>5
      <3>4. QED
        BY <2>2, <2>3, <2>4, <3>1, <3>2, <3>3
  <1> HIDE DEF g
  <1>8. QED
    BY <1>2, <1>4, <1>6, <1>7 DEF ChunkOK


-----------------------------------------------------------------------------
(* Rows of parts *)

Sums(f, n, s) == s = [k \in 0..n |-> IF k = 0 THEN 0 ELSE s[k - 1] + f[k - 1]]

LEMMA SumsExist ==
    ASSUME NEW n \in Nat, NEW f, \A k \in 0..n - 1 : f[k] \in Nat
    PROVE  \E s : Sums(f, n, s)
  <1> DEFINE S == [j \in 0..n |-> Nat]
             h == [j \in 1..n |-> [x \in Nat |-> x + f[j - 1]]]
  <1>1. \A j \in 1..n : /\ j - 1 \in 0..n - 1 /\ j \in 0..n /\ j - 1 \in 0..n
                        /\ \A x \in Nat : h[j][x] = x + f[j - 1]
    OBVIOUS
  <1>2. \A j \in 1..n : S[j - 1] = Nat /\ S[j] = Nat
    BY <1>1
  <1>3. 0 \in S[0]
    OBVIOUS
  <1>4. \A j \in 1..n : \A x \in S[j - 1] : h[j][x] \in S[j]
    <2>1. SUFFICES ASSUME NEW j \in 1..n, NEW x \in Nat PROVE h[j][x] \in Nat
      BY <1>2
    <2>2. f[j - 1] \in Nat
      BY <1>1
    <2>3. QED
      BY <1>1, <2>2
  <1> HIDE DEF h
  <1>5. PICK s : Recursive(n, 0, h, s)
    BY RecursionExists
  <1>6. \A j \in 0..n : s[j] \in S[j]
    BY <1>3, <1>4, <1>5, RecursionStays
  <1>7. \A j \in 0..n : s[j] \in Nat
    BY <1>6
  <1>8. s = [j \in 0..n |-> IF j = 0 THEN 0 ELSE h[j][s[j - 1]]]
    BY <1>5 DEF Recursive
  <1>9. \A j \in 0..n : j # 0 => h[j][s[j - 1]] = s[j - 1] + f[j - 1]
    <2>1. SUFFICES ASSUME NEW j \in 0..n, j # 0 PROVE h[j][s[j - 1]] = s[j - 1] + f[j - 1]
      OBVIOUS
    <2>2. j \in 1..n /\ j - 1 \in 0..n
      BY <2>1
    <2>3. QED
      BY <1>1, <1>7, <2>2
  <1>10. s = [j \in 0..n |-> IF j = 0 THEN 0 ELSE s[j - 1] + f[j - 1]]
    BY <1>8, <1>9
  <1>11. QED
    BY <1>10 DEF Sums

\* However many values are added up, the sums of the first ones are the same.
LEMMA SumsAgree ==
    ASSUME NEW n \in Nat, NEW m \in Nat, n <= m, NEW f, \A k \in 0..m - 1 : f[k] \in Nat,
           NEW s, Sums(f, n, s), NEW t, Sums(f, m, t)
    PROVE  \A k \in 0..n : s[k] = t[k] /\ s[k] \in Nat
  <1> DEFINE Bad == {k \in 0..n : ~(s[k] = t[k] /\ s[k] \in Nat)}
  <1>1. SUFFICES ASSUME Bad # {} PROVE FALSE
    OBVIOUS
  <1>2. Bad \in SUBSET Nat
    OBVIOUS
  <1>3. PICK k \in Bad : \A l \in Bad : k <= l
    BY <1>1, <1>2, LeastNatural
  <1>4. k \in 0..n /\ k \in 0..m /\ ~(s[k] = t[k] /\ s[k] \in Nat)
    OBVIOUS
  <1>5. /\ s[k] = IF k = 0 THEN 0 ELSE s[k - 1] + f[k - 1]
        /\ t[k] = IF k = 0 THEN 0 ELSE t[k - 1] + f[k - 1]
    BY <1>4 DEF Sums
  <1>6. CASE k = 0
    BY <1>4, <1>5, <1>6
  <1>7. CASE k # 0
    <2>1. k - 1 \in 0..n /\ k - 1 \in 0..m - 1 /\ ~(k <= k - 1)
      BY <1>4, <1>7
    <2>2. s[k - 1] = t[k - 1] /\ s[k - 1] \in Nat
      BY <1>3, <2>1
    <2>3. f[k - 1] \in Nat
      BY <2>1
    <2>4. QED
      BY <1>4, <1>5, <1>7, <2>2, <2>3
  <1>8. QED
    BY <1>6, <1>7

LEMMA SumFacts ==
    ASSUME NEW m \in Nat, NEW f, \A k \in 0..m - 1 : f[k] \in Nat
    PROVE  /\ \A n \in 0..m : SumOfFirst(f, n) \in Nat
           /\ SumOfFirst(f, 0) = 0
           /\ \A n \in 0..m - 1 : SumOfFirst(f, n + 1) = SumOfFirst(f, n) + f[n]
  <1> DEFINE s(n) == CHOOSE t : Sums(f, n, t)
  <1>1. \A n \in 0..m : Sums(f, n, s(n))
    <2>1. SUFFICES ASSUME NEW n \in 0..m PROVE \E t : Sums(f, n, t)
      OBVIOUS
    <2>2. n \in Nat /\ \A k \in 0..n - 1 : k \in 0..m - 1
      OBVIOUS
    <2>3. QED
      BY <2>2, SumsExist
  <1>2. \A n : SumOfFirst(f, n) = s(n)[n]
    BY DEF SumOfFirst, Sums
  <1> HIDE DEF s
  <1>3. ASSUME NEW n \in 0..m PROVE SumOfFirst(f, n) \in Nat
    <2>1. n \in Nat /\ n \in 0..n /\ n <= n /\ \A k \in 0..n - 1 : f[k] \in Nat
      OBVIOUS
    <2>2. Sums(f, n, s(n))
      BY <1>1
    <2>3. s(n)[n] \in Nat
      BY <2>1, <2>2, SumsAgree
    <2>4. QED
      BY <1>2, <2>3
  <1>4. SumOfFirst(f, 0) = 0
    <2>1. Sums(f, 0, s(0))
      BY <1>1
    <2>2. s(0)[0] = 0
      BY <2>1 DEF Sums
    <2>3. QED
      BY <1>2, <2>2
  <1>5. ASSUME NEW n \in 0..m - 1 PROVE SumOfFirst(f, n + 1) = SumOfFirst(f, n) + f[n]
    <2>1. /\ n \in Nat /\ n + 1 \in Nat /\ n <= n + 1 /\ n \in 0..m /\ n + 1 \in 0..m /\ n \in 0..n
          /\ \A k \in 0..(n + 1) - 1 : f[k] \in Nat
      OBVIOUS
    <2>2. Sums(f, n, s(n)) /\ Sums(f, n + 1, s(n + 1))
      BY <1>1, <2>1
    <2>3. s(n)[n] = s(n + 1)[n]
      BY <2>1, <2>2, SumsAgree
    <2>4. n + 1 \in 0..n + 1 /\ n + 1 # 0 /\ (n + 1) - 1 = n
      BY <2>1
    <2>5. s(n + 1)[n + 1] = s(n + 1)[n] + f[n]
      BY <2>2, <2>4 DEF Sums
    <2>6. QED
      BY <1>2, <2>3, <2>5
  <1>6. QED
    BY <1>3, <1>4, <1>5

\* The parts of a row follow one another.
LEMMA SumsFollow ==
    ASSUME NEW m \in Nat, NEW f, \A k \in 0..m - 1 : f[k] \in Nat,
           NEW j \in 0..m - 1, NEW l \in 0..m, j < l
    PROVE  SumOfFirst(f, j) + f[j] <= SumOfFirst(f, l)
  <1> DEFINE a(n) == SumOfFirst(f, n)
             Bad == {n \in 0..m : j < n /\ ~(a(j) + f[j] <= a(n))}
  <1>0. /\ \A n \in 0..m : a(n) \in Nat
        /\ \A n \in 0..m - 1 : a(n + 1) = a(n) + f[n]
    BY SumFacts
  <1> HIDE DEF a
  <1>1. SUFFICES ASSUME Bad # {} PROVE FALSE
    BY DEF a
  <1>2. Bad \in SUBSET Nat
    OBVIOUS
  <1>3. PICK n \in Bad : \A k \in Bad : n <= k
    BY <1>1, <1>2, LeastNatural
  <1>4. n \in 0..m /\ j < n /\ ~(a(j) + f[j] <= a(n))
    OBVIOUS
  <1>5. n - 1 \in 0..m - 1 /\ n - 1 \in 0..m /\ ~(n <= n - 1) /\ (n - 1) + 1 = n
        /\ j \in 0..m /\ (n - 1 = j \/ j < n - 1)
    BY <1>4
  <1>6. a(n) = a(n - 1) + f[n - 1]
    BY <1>0, <1>5
  <1>7. a(n) \in Nat /\ a(n - 1) \in Nat /\ a(j) \in Nat /\ f[j] \in Nat /\ f[n - 1] \in Nat
    BY <1>0, <1>4, <1>5
  <1>8. CASE n - 1 = j
    BY <1>4, <1>6, <1>7, <1>8
  <1>9. CASE j < n - 1
    <2>1. a(j) + f[j] <= a(n - 1)
      BY <1>3, <1>5, <1>9
    <2>2. QED
      BY <1>4, <1>6, <1>7, <2>1
  <1>10. QED
    BY <1>5, <1>8, <1>9

\* Every place in a row is in exactly one of its parts.
LEMMA RowTiles ==
    ASSUME NEW m \in Nat, NEW f, \A k \in 0..m - 1 : f[k] \in Nat,
           NEW x \in Nat, x < SumOfFirst(f, m)
    PROVE  \E k \in 0..m - 1 :
              /\ SumOfFirst(f, k) <= x /\ x < SumOfFirst(f, k) + f[k]
              /\ \A l \in 0..m - 1 :
                    SumOfFirst(f, l) <= x /\ x < SumOfFirst(f, l) + f[l] => l = k
  <1> DEFINE a(n) == SumOfFirst(f, n)
             S == {k \in 0..m : x < a(k)}
  <1>1. /\ \A n \in 0..m : a(n) \in Nat
        /\ a(0) = 0
        /\ \A n \in 0..m - 1 : a(n + 1) = a(n) + f[n]
    BY SumFacts
  <1>2. \A j \in 0..m - 1, l \in 0..m : j < l => a(j) + f[j] <= a(l)
    BY SumsFollow
  <1>3. m \in 0..m /\ x < a(m)
    OBVIOUS
  <1> HIDE DEF a
  <1>4. S \in SUBSET Nat /\ S # {}
    BY <1>3
  <1>5. PICK n \in S : \A k \in S : n <= k
    BY <1>4, LeastNatural
  <1>6. n \in 0..m /\ x < a(n)
    OBVIOUS
  <1>7. n # 0
    BY <1>1, <1>6
  <1> DEFINE k == n - 1
  <1>8. k \in 0..m - 1 /\ k \in 0..m /\ k + 1 = n /\ ~(n <= k)
    BY <1>6, <1>7
  <1> HIDE DEF k
  <1>9. a(k) <= x
    <2>1. ~(x < a(k))
      BY <1>5, <1>8
    <2>2. a(k) \in Nat
      BY <1>1, <1>8
    <2>3. QED
      BY <2>1, <2>2
  <1>10. x < a(k) + f[k]
    BY <1>1, <1>6, <1>8
  <1>11. ASSUME NEW l \in 0..m - 1, a(l) <= x, x < a(l) + f[l] PROVE l = k
    <2>1. a(l) \in Nat /\ f[l] \in Nat /\ a(k) \in Nat /\ f[k] \in Nat /\ l \in 0..m
      BY <1>1, <1>8
    <2>2. l < k => a(l) + f[l] <= a(k)
      BY <1>2, <1>8
    <2>3. k < l => a(k) + f[k] <= a(l)
      BY <1>2, <1>8, <2>1
    <2>4. ~(l < k) /\ ~(k < l)
      BY <1>9, <1>10, <1>11, <2>1, <2>2, <2>3
    <2>5. QED
      BY <1>8, <2>4
  <1>12. QED
    BY <1>8, <1>9, <1>10, <1>11 DEF a


-----------------------------------------------------------------------------
(* The processes *)

LEMMA TripleFacts ==
    ASSUME NEW S, NEW v \in S \X S \X S
    PROVE  v = <<v[1], v[2], v[3]>> /\ \A i \in Dim : v[i] \in S
  BY DEF Dim

LEMMA TripleOf ==
    ASSUME NEW f, f = [i \in Dim |-> f[i]]
    PROVE  f = <<f[1], f[2], f[3]>>
  BY DEF Dim

LEMMA ProgramFacts ==
    ASSUME DataSetAssumption, program \in Programs
    PROVE  /\ program.parallel \in BOOLEAN /\ program.ndims \in 1..3 /\ program.calls \in Nat
           /\ program.topology \in (Nat \ {0}) \X (Nat \ {0}) \X (Nat \ {0})
           /\ program.extents \subseteq Nat
           /\ \A s \in program.selections :
                /\ s \in [size : Nat \X Nat \X Nat, count : Nat \X Nat \X Nat,
                          offset : Nat \X Nat \X Nat,
                          stride : (Nat \ {0}) \X (Nat \ {0}) \X (Nat \ {0})]
                /\ \A i \in program.ndims + 1..3 : s.count[i] = 1
                /\ s.count = s.size => s.offset = Zero
           /\ \A a \in program.appends :
                a.count \in Nat /\ a.offset \in Nat /\ a.stride \in Nat \ {0}
  BY DEF DataSetAssumption, Zero

LEMMA ShapeFacts ==
    ASSUME DataSetAssumption, program \in Programs
    PROVE  /\ Shape \in (Nat \ {0}) \X (Nat \ {0}) \X (Nat \ {0})
           /\ \A i \in Dim : Shape[i] \in Nat \ {0}
           /\ Ranks = 0..Shape[1] * Shape[2] * Shape[3] - 1
           /\ program.ndims = 1 => Shape[2] = 1 /\ Shape[3] = 1
  <1> DEFINE t == program.topology
             n == t[1] * t[2] * t[3]
  <1>1. program.topology \in (Nat \ {0}) \X (Nat \ {0}) \X (Nat \ {0})
    BY ProgramFacts
  <1>2. t[1] \in Nat \ {0} /\ t[2] \in Nat \ {0} /\ t[3] \in Nat \ {0}
    BY <1>1
  <1>3. n \in Nat \ {0}
    <2> HIDE DEF t
    <2>1. t[1] * t[2] \in Nat \ {0}
      BY <1>2, SMTT(30)
    <2>2. QED
      BY <1>2, <2>1
  <1>4. Ranks = 0..n - 1
    BY DEF Ranks, Scalar
  <1>5. CASE program.ndims = 1
    <2>1. Shape = <<n, 1, 1>>
      BY <1>5 DEF Shape, Scalar
    <2> HIDE DEF n
    <2>2. n * 1 * 1 = n
      BY <1>3
    <2>3. Shape[1] = n /\ Shape[2] = 1 /\ Shape[3] = 1
      BY <2>1
    <2>4. QED
      BY <1>3, <1>4, <2>1, <2>2, <2>3 DEF Dim
  <1>6. CASE program.ndims # 1
    <2>1. Shape = t
      BY <1>6 DEF Shape
    <2>2. QED
      BY <1>1, <1>2, <1>4, <1>6, <2>1 DEF Dim
  <1>7. QED
    BY <1>5, <1>6

\* The process at a place of the topology.
RankAt(p) == Index(Shape[1], Shape[2], p[1], p[2], p[3])

Place(p) == p = <<p[1], p[2], p[3]>> /\ \A i \in Dim : p[i] \in 0..Shape[i] - 1

LEMMA PosFacts ==
    ASSUME DataSetAssumption, program \in Programs, NEW r \in Ranks
    PROVE  Place(MpiPos(r)) /\ RankAt(MpiPos(r)) = r
  <1> DEFINE X == Shape[1]
             Y == Shape[2]
             Z == Shape[3]
  <1>1. X \in Nat \ {0} /\ Y \in Nat \ {0} /\ Z \in Nat \ {0}
    BY ShapeFacts DEF Dim
  <1>2. r \in 0..X * Y * Z - 1
    BY ShapeFacts
  <1>3. CASE program.ndims = 1
    <2>1. MpiPos(r) = <<r, 0, 0>>
      BY <1>3 DEF MpiPos
    <2>2. Y = 1 /\ Z = 1
      BY <1>3, ShapeFacts
    <2> HIDE DEF X, Y, Z
    <2>3. X * Y * Z = X
      BY <1>1, <2>2
    <2>4. r \in 0..X - 1 /\ r + 0 * X + 0 * (X * Y) = r
      <3>1. r \in 0..X - 1
        BY <1>2, <2>3
      <3>2. r \in Nat /\ X * Y \in Nat
        BY <1>1, <3>1
      <3>3. QED
        BY <1>1, <3>1, <3>2
    <2>5. QED
      BY <2>1, <2>2, <2>4 DEF Place, RankAt, Index, Dim, X, Y, Z
  <1>4. CASE program.ndims # 1
    <2>1. MpiPos(r) = <<r % X, (r % (X * Y)) \div X, r \div (X * Y)>>
      BY <1>4 DEF MpiPos, IndexToPos, Shape
    <2> HIDE DEF X, Y, Z
    <2>2. /\ r % X \in 0..X - 1 /\ (r % (X * Y)) \div X \in 0..Y - 1
          /\ r \div (X * Y) \in 0..Z - 1
          /\ r = (r % X) + ((r % (X * Y)) \div X) * X + (r \div (X * Y)) * (X * Y)
      BY ONLY <1>1, <1>2, GridPosition, ZenonT(60)
    <2> DEFINE a == r % X
               b == (r % (X * Y)) \div X
               c == r \div (X * Y)
    <2>3. a \in 0..X - 1 /\ b \in 0..Y - 1 /\ c \in 0..Z - 1 /\ r = a + b * X + c * (X * Y)
      BY <2>2
    <2>4. MpiPos(r) = <<a, b, c>>
      BY <2>1
    <2> HIDE DEF a, b, c
    <2>5. QED
      BY <2>3, <2>4 DEF Place, RankAt, Index, Dim, X, Y, Z
  <1>5. QED
    BY <1>3, <1>4

LEMMA RankAtFacts ==
    ASSUME DataSetAssumption, program \in Programs, NEW p, Place(p)
    PROVE  RankAt(p) \in Ranks /\ MpiPos(RankAt(p)) = p
  <1> DEFINE X == Shape[1]
             Y == Shape[2]
             Z == Shape[3]
             a == p[1]
             b == p[2]
             c == p[3]
             r == Index(X, Y, a, b, c)
  <1>1. X \in Nat \ {0} /\ Y \in Nat \ {0} /\ Z \in Nat \ {0}
    BY ShapeFacts DEF Dim
  <1>2. a \in 0..X - 1 /\ b \in 0..Y - 1 /\ c \in 0..Z - 1 /\ p = <<a, b, c>>
    BY DEF Place, Dim
  <1>3. Ranks = 0..X * Y * Z - 1 /\ RankAt(p) = r
    BY ShapeFacts DEF RankAt
  <1>4. CASE program.ndims = 1
    <2>1. Y = 1 /\ Z = 1
      BY <1>4, ShapeFacts
    <2>2. MpiPos(r) = <<r, 0, 0>>
      BY <1>4 DEF MpiPos
    <2> HIDE DEF X, Y, Z, a, b, c, r
    <2>3. b = 0 /\ c = 0
      BY <1>2, <2>1
    <2>4. r = a
      BY <1>1, <1>2, <2>3 DEF r, Index
    <2>5. X * Y * Z = X
      BY <1>1, <2>1
    <2>6. QED
      BY <1>2, <1>3, <2>2, <2>3, <2>4, <2>5
  <1>5. CASE program.ndims # 1
    <2>1. MpiPos(r) = <<r % X, (r % (X * Y)) \div X, r \div (X * Y)>>
      BY <1>5 DEF MpiPos, IndexToPos, Shape
    <2> HIDE DEF X, Y, Z, a, b, c
    <2>3. /\ r \in 0..X * Y * Z - 1
          /\ r % X = a /\ (r % (X * Y)) \div X = b /\ r \div (X * Y) = c
      <3>1. InGrid(X, Y, Z, a, b, c)
        BY <1>1, <1>2 DEF InGrid
      <3>2. Splits(X, Y, Z, r, a, b, c)
        BY <3>1, GridIndex
      <3>3. QED
        BY <3>2 DEF Splits
    <2>4. QED
      BY <1>2, <1>3, <2>1, <2>3
  <1>6. QED
    BY <1>4, <1>5


\* The parts along axis i, and where the k-th of them begins.
Row(parts, i) == [k \in 0..Shape[i] - 1 |-> parts[OnAxis(i, k)][i]]
Start(parts, i, k) == SumOfFirst(Row(parts, i), k)

LEMMA AxisFacts ==
    ASSUME DataSetAssumption, program \in Programs, NEW i \in Dim, NEW k \in 0..Shape[i] - 1
    PROVE  OnAxis(i, k) \in Ranks /\ MpiPos(OnAxis(i, k))[i] = k
  <1> DEFINE p == <<IF i = 1 THEN k ELSE 0, IF i = 2 THEN k ELSE 0, IF i = 3 THEN k ELSE 0>>
             X == Shape[1]
             Y == Shape[2]
  <1>1. \A j \in Dim : Shape[j] \in Nat \ {0}
    BY ShapeFacts
  <1>2. X \in Nat \ {0} /\ Y \in Nat \ {0} /\ k \in Nat /\ i \in {1, 2, 3}
    BY <1>1 DEF Dim
  <1>3. Place(p) /\ p[i] = k
    <2>1. \A j \in Dim : p[j] = IF j = i THEN k ELSE 0
      BY DEF Dim
    <2>2. \A j \in Dim : 0 \in 0..Shape[j] - 1
      BY <1>1
    <2>3. \A j \in Dim : p[j] \in 0..Shape[j] - 1
      BY <2>1, <2>2, ZenonT(40)
    <2>4. p = <<p[1], p[2], p[3]>>
      OBVIOUS
    <2> HIDE DEF p
    <2>5. QED
      BY <2>1, <2>3, <2>4 DEF Place
  <1>4. RankAt(p) = OnAxis(i, k)
    <2>1. RankAt(p) = p[1] + p[2] * X + p[3] * (X * Y)
      BY DEF RankAt, Index
    <2>2. OnAxis(i, k) = IF i = 1 THEN k ELSE IF i = 2 THEN k * X ELSE k * X * Y
      BY <1>2 DEF OnAxis
    <2> HIDE DEF X, Y
    <2>3. CASE i = 1
      <3>1. p[1] = k /\ p[2] = 0 /\ p[3] = 0
        BY <2>3
      <3>2. 0 * X = 0 /\ 0 * (X * Y) = 0
        BY <1>2
      <3>3. QED
        BY <1>2, <2>1, <2>2, <2>3, <3>1, <3>2
    <2>4. CASE i = 2
      <3>1. p[1] = 0 /\ p[2] = k /\ p[3] = 0
        BY <2>4
      <3>2. k * X \in Nat /\ 0 * (X * Y) = 0
        BY <1>2
      <3>3. QED
        BY <1>2, <2>1, <2>2, <2>4, <3>1, <3>2
    <2>5. CASE i = 3
      <3>1. p[1] = 0 /\ p[2] = 0 /\ p[3] = k
        BY <2>5
      <3>2. 0 * X = 0 /\ k * (X * Y) \in Nat /\ k * (X * Y) = k * X * Y
        BY <1>2
      <3>3. QED
        BY <1>2, <2>1, <2>2, <2>5, <3>1, <3>2
    <2>6. QED
      BY <1>2, <2>3, <2>4, <2>5
  <1> HIDE DEF p
  <1>5. QED
    BY <1>3, <1>4, RankAtFacts

\* The data is cut along its axes: what a part extends to depends on its place in
\* the row only.
LEMMA LayoutFacts ==
    ASSUME DataSetAssumption, program \in Programs, NEW l \in Layouts
    PROVE  /\ l \in [Ranks -> Nat \X Nat \X Nat]
           /\ \A i \in Dim : \A k \in 0..Shape[i] - 1 :
                Row(l, i)[k] \in Nat /\ (i > program.ndims => Row(l, i)[k] = 1)
           /\ \A r \in Ranks : \A i \in Dim :
                l[r][i] \in Nat /\ l[r][i] = Row(l, i)[MpiPos(r)[i]]
  <1> DEFINE cuts(i) == [0..Shape[i] - 1 -> IF i <= program.ndims THEN program.extents ELSE {1}]
  <1>1. PICK c \in cuts(1) \X cuts(2) \X cuts(3) :
           l = [r \in Ranks |-> <<c[1][MpiPos(r)[1]], c[2][MpiPos(r)[2]], c[3][MpiPos(r)[3]]>>]
    BY DEF Layouts
  <1>2. program.extents \subseteq Nat /\ program.ndims \in 1..3
    BY ProgramFacts
  <1>3. c[1] \in cuts(1) /\ c[2] \in cuts(2) /\ c[3] \in cuts(3)
    BY <1>1
  <1>4. \A i \in Dim : c[i] \in cuts(i)
    BY <1>3 DEF Dim
  <1>5. \A i \in Dim : \A k \in 0..Shape[i] - 1 : c[i][k] \in Nat /\ (i > program.ndims => c[i][k] = 1)
    <2>1. SUFFICES ASSUME NEW i \in Dim, NEW k \in 0..Shape[i] - 1
                   PROVE  c[i][k] \in Nat /\ (i > program.ndims => c[i][k] = 1)
      OBVIOUS
    <2>2. c[i][k] \in IF i <= program.ndims THEN program.extents ELSE {1}
      BY <1>4
    <2>3. i \in Nat /\ program.ndims \in Nat
      BY <1>2 DEF Dim
    <2>4. CASE i <= program.ndims
      BY <1>2, <2>2, <2>3, <2>4
    <2>5. CASE ~(i <= program.ndims)
      BY <2>2, <2>5
    <2>6. QED
      BY <2>4, <2>5
  <1> HIDE DEF cuts
  <1>6. \A r \in Ranks : \A i \in Dim : MpiPos(r)[i] \in 0..Shape[i] - 1
    BY PosFacts DEF Place
  <1>7. ASSUME NEW r \in Ranks, NEW i \in Dim
        PROVE  l[r][i] = c[i][MpiPos(r)[i]] /\ l[r][i] \in Nat
    <2>1. l[r] = <<c[1][MpiPos(r)[1]], c[2][MpiPos(r)[2]], c[3][MpiPos(r)[3]]>>
      BY <1>1
    <2>2. l[r][i] = c[i][MpiPos(r)[i]]
      BY <2>1 DEF Dim
    <2>3. QED
      BY <1>5, <1>6, <2>2
  <1>8. ASSUME NEW i \in Dim, NEW k \in 0..Shape[i] - 1 PROVE Row(l, i)[k] = c[i][k]
    <2>1. Row(l, i)[k] = l[OnAxis(i, k)][i]
      BY DEF Row
    <2>2. OnAxis(i, k) \in Ranks /\ MpiPos(OnAxis(i, k))[i] = k
      BY AxisFacts
    <2>3. QED
      BY <1>7, <2>1, <2>2
  <1>9. l \in [Ranks -> Nat \X Nat \X Nat]
    <2>1. ASSUME NEW r \in Ranks PROVE l[r] \in Nat \X Nat \X Nat
      <3>1. l[r] = <<c[1][MpiPos(r)[1]], c[2][MpiPos(r)[2]], c[3][MpiPos(r)[3]]>>
        BY <1>1
      <3>2. l[r][1] \in Nat /\ l[r][2] \in Nat /\ l[r][3] \in Nat
        BY <1>7 DEF Dim
      <3>3. QED
        BY <3>1, <3>2
    <2>2. QED
      BY <1>1, <2>1
  <1>10. \A i \in Dim : \A k \in 0..Shape[i] - 1 :
             Row(l, i)[k] \in Nat /\ (i > program.ndims => Row(l, i)[k] = 1)
    <2>1. SUFFICES ASSUME NEW i \in Dim, NEW k \in 0..Shape[i] - 1
                   PROVE  Row(l, i)[k] \in Nat /\ (i > program.ndims => Row(l, i)[k] = 1)
      OBVIOUS
    <2>2. Row(l, i)[k] = c[i][k]
      BY <1>8
    <2>3. c[i][k] \in Nat /\ (i > program.ndims => c[i][k] = 1)
      BY <1>5
    <2>4. QED
      BY <2>2, <2>3
  <1>11. \A r \in Ranks : \A i \in Dim : l[r][i] \in Nat /\ l[r][i] = Row(l, i)[MpiPos(r)[i]]
    <2>1. SUFFICES ASSUME NEW r \in Ranks, NEW i \in Dim
                   PROVE  l[r][i] \in Nat /\ l[r][i] = Row(l, i)[MpiPos(r)[i]]
      OBVIOUS
    <2>2. MpiPos(r)[i] \in 0..Shape[i] - 1
      BY <1>6
    <2>3. Row(l, i)[MpiPos(r)[i]] = c[i][MpiPos(r)[i]]
      BY <1>8, <2>2
    <2>4. QED
      BY <1>7, <2>3
  <1>12. QED
    BY <1>9, <1>10, <1>11

\* Beyond the dimensions of the data there is one process per row.
LEMMA OneBeyond ==
    ASSUME DataSetAssumption, program \in Programs, ~GatherRefused
    PROVE  \A i \in Dim : i > program.ndims => Shape[i] = 1
  <1>1. \A i \in Dim : Shape[i] \in Nat \ {0}
    BY ShapeFacts
  <1>2. program.ndims \in 1..3
    BY ProgramFacts
  <1>3. CASE program.ndims = 1
    <2>1. Shape[2] = 1 /\ Shape[3] = 1
      BY <1>3, ShapeFacts
    <2>2. QED
      BY <1>3, <2>1 DEF Dim
  <1>4. CASE program.ndims = 2
    <2>1. ~(Shape[3] > 1)
      BY <1>4 DEF GatherRefused
    <2>2. Shape[3] \in Nat \ {0}
      BY <1>1 DEF Dim
    <2>3. Shape[3] = 1
      BY ONLY <2>1, <2>2
    <2>4. QED
      BY ONLY <1>4, <2>3 DEF Dim
  <1>5. CASE program.ndims = 3
    BY <1>5 DEF Dim
  <1>6. QED
    BY <1>2, <1>3, <1>4, <1>5

\* ParallelDataCollector.cpp:1104-1126, in whichever process.
LEMMA GatherFacts ==
    ASSUME DataSetAssumption, program \in Programs, ~GatherRefused, NEW l \in Layouts,
           NEW r \in Ranks
    PROVE  /\ Gather(l, r) = [size |-> [i \in Dim |-> Start(l, i, Shape[i])],
                              offset |-> [i \in Dim |-> Start(l, i, MpiPos(r)[i])]]
           /\ \A i \in Dim : /\ Start(l, i, Shape[i]) \in Nat
                             /\ Start(l, i, MpiPos(r)[i]) \in Nat
                             /\ Start(l, i, MpiPos(r)[i]) + l[r][i] <= Start(l, i, Shape[i])
                             /\ i > program.ndims => Start(l, i, Shape[i]) = 1
  <1>1. \A i \in Dim : Shape[i] \in Nat \ {0} /\ MpiPos(r)[i] \in 0..Shape[i] - 1
    BY ShapeFacts, PosFacts DEF Place
  <1>2. program.ndims \in 1..3
    BY ProgramFacts
  <1>3. ASSUME NEW i \in Dim
        PROVE  /\ \A n \in 0..Shape[i] : Start(l, i, n) \in Nat
               /\ Start(l, i, 0) = 0
               /\ \A n \in 0..Shape[i] - 1 : Start(l, i, n + 1) = Start(l, i, n) + Row(l, i)[n]
    <2>1. Shape[i] \in Nat /\ \A k \in 0..Shape[i] - 1 : Row(l, i)[k] \in Nat
      BY <1>1, LayoutFacts
    <2>2. QED
      BY <2>1, SumFacts, ZenonT(40) DEF Start
  <1>4. ASSUME NEW i \in Dim, i > program.ndims
        PROVE  Start(l, i, Shape[i]) = 1 /\ Start(l, i, MpiPos(r)[i]) = 0
    <2>1. Shape[i] = 1 /\ MpiPos(r)[i] = 0
      <3>1. Shape[i] = 1
        BY <1>4, OneBeyond
      <3>2. QED
        BY <1>1, <3>1
    <2>2. 0 \in 0..Shape[i] - 1 /\ 0 + 1 = 1
      BY <2>1
    <2>3. Row(l, i)[0] = 1
      BY <1>4, <2>2, LayoutFacts
    <2>4. Start(l, i, 0 + 1) = Start(l, i, 0) + Row(l, i)[0]
      BY <1>3, <2>2
    <2>5. QED
      BY <1>3, <2>1, <2>3, <2>4
  <1>5. /\ [i \in Dim |-> IF i <= program.ndims THEN Start(l, i, Shape[i]) ELSE 1]
              = [i \in Dim |-> Start(l, i, Shape[i])]
        /\ [i \in Dim |-> IF i <= program.ndims THEN Start(l, i, MpiPos(r)[i]) ELSE 0]
              = [i \in Dim |-> Start(l, i, MpiPos(r)[i])]
    <2>1. \A i \in Dim : i <= program.ndims \/ i > program.ndims
      BY <1>2 DEF Dim
    <2>2. QED
      BY <1>4, <2>1
  <1>6. Gather(l, r) = [size |-> [i \in Dim |-> Start(l, i, Shape[i])],
                        offset |-> [i \in Dim |-> Start(l, i, MpiPos(r)[i])]]
    BY <1>5 DEF Gather, Start, Row
  <1>7. ASSUME NEW i \in Dim
        PROVE  /\ Start(l, i, Shape[i]) \in Nat /\ Start(l, i, MpiPos(r)[i]) \in Nat
               /\ Start(l, i, MpiPos(r)[i]) + l[r][i] <= Start(l, i, Shape[i])
    <2> DEFINE n == Shape[i]
               k == MpiPos(r)[i]
               f == Row(l, i)
    <2>1. n \in Nat \ {0} /\ k \in 0..n - 1 /\ k \in 0..n /\ n \in 0..n /\ k < n
      BY <1>1
    <2>2. \A m \in 0..n - 1 : f[m] \in Nat
      BY LayoutFacts
    <2>3. l[r][i] = f[k]
      BY LayoutFacts
    <2>4. Start(l, i, n) \in Nat /\ Start(l, i, k) \in Nat
      BY <1>3, <2>1
    <2> HIDE DEF n, k, f
    <2>5. SumOfFirst(f, k) + f[k] <= SumOfFirst(f, n)
      BY <2>1, <2>2, SumsFollow
    <2>6. QED
      BY <2>3, <2>4, <2>5 DEF Start, n, k, f
  <1>8. QED
    BY <1>4, <1>6, <1>7


\* In exactly one part.
\* p belongs to one part only.
OneWriter(l, p) ==
    \E r \in Ranks : \A q \in Ranks : Within(p, Gather(l, q).offset, l[q]) <=> q = r

LEMMA PartsTileBox ==
    ASSUME DataSetAssumption, program \in Programs, ~GatherRefused, NEW l \in Layouts,
           NEW p, \A i \in Dim : p[i] \in Nat /\ p[i] < Start(l, i, Shape[i])
    PROVE  OneWriter(l, p)
  <1> DEFINE At(i, k) == Start(l, i, k) <= p[i] /\ p[i] < Start(l, i, k) + Row(l, i)[k]
             Only(i, k) == /\ k \in 0..Shape[i] - 1 /\ At(i, k)
                           /\ \A m \in 0..Shape[i] - 1 : At(i, m) => m = k
  <1>1. ASSUME NEW i \in Dim PROVE \E k : Only(i, k)
    <2>1. Shape[i] \in Nat /\ \A k \in 0..Shape[i] - 1 : Row(l, i)[k] \in Nat
      BY ShapeFacts, LayoutFacts
    <2>2. p[i] \in Nat /\ p[i] < SumOfFirst(Row(l, i), Shape[i])
      BY DEF Start
    <2>3. \E k \in 0..Shape[i] - 1 :
             /\ SumOfFirst(Row(l, i), k) <= p[i]
             /\ p[i] < SumOfFirst(Row(l, i), k) + Row(l, i)[k]
             /\ \A m \in 0..Shape[i] - 1 :
                  (/\ SumOfFirst(Row(l, i), m) <= p[i]
                   /\ p[i] < SumOfFirst(Row(l, i), m) + Row(l, i)[m]) => m = k
      <3> DEFINE f == Row(l, i)
                 n == Shape[i]
                 x == p[i]
      <3>1. n \in Nat /\ (\A k \in 0..n - 1 : f[k] \in Nat) /\ x \in Nat /\ x < SumOfFirst(f, n)
        BY <2>1, <2>2
      <3> HIDE DEF f, n, x
      <3>2. \E k \in 0..n - 1 :
               /\ SumOfFirst(f, k) <= x /\ x < SumOfFirst(f, k) + f[k]
               /\ \A m \in 0..n - 1 :
                     SumOfFirst(f, m) <= x /\ x < SumOfFirst(f, m) + f[m] => m = k
        BY <3>1, RowTiles
      <3>3. QED
        BY <3>2 DEF f, n, x
    <2>4. QED
      BY <2>3 DEF Start
  <1> DEFINE k(i) == CHOOSE m : Only(i, m)
             pos == <<k(1), k(2), k(3)>>
             r == RankAt(pos)
  <1>2. \A i \in Dim : Only(i, k(i))
    BY <1>1
  <1> HIDE DEF k
  <1>3. pos = <<pos[1], pos[2], pos[3]>> /\ \A i \in Dim : pos[i] = k(i)
    BY DEF Dim
  <1> HIDE DEF pos
  <1>4. Place(pos)
    BY <1>2, <1>3 DEF Place
  <1>5. r \in Ranks /\ MpiPos(r) = pos
    BY <1>4, RankAtFacts
  <1> HIDE DEF r
  <1>6. ASSUME NEW q \in Ranks
        PROVE  Within(p, Gather(l, q).offset, l[q]) <=> \A i \in Dim : At(i, MpiPos(q)[i])
    <2>1. \A i \in Dim : Gather(l, q).offset[i] = Start(l, i, MpiPos(q)[i])
      BY GatherFacts, SMTT(40)
    <2>2. \A i \in Dim : l[q][i] = Row(l, i)[MpiPos(q)[i]]
      BY LayoutFacts
    <2>3. QED
      BY <2>1, <2>2 DEF Within
  <1>7. ASSUME NEW q \in Ranks, \A i \in Dim : At(i, MpiPos(q)[i]) PROVE q = r
    <2>1. Place(MpiPos(q)) /\ RankAt(MpiPos(q)) = q /\ RankAt(MpiPos(r)) = r
      BY <1>5, PosFacts
    <2>2. \A i \in Dim : MpiPos(q)[i] = pos[i]
      BY <1>2, <1>3, <1>7, <2>1 DEF Place
    <2>3. MpiPos(q) = pos
      <3>1. MpiPos(q) = <<MpiPos(q)[1], MpiPos(q)[2], MpiPos(q)[3]>>
        BY <2>1 DEF Place
      <3>2. QED
        BY <1>3, <2>2, <3>1, SMTT(30) DEF Dim
    <2>4. QED
      BY <1>5, <2>1, <2>3
  <1>8. \A i \in Dim : At(i, MpiPos(r)[i])
    BY <1>2, <1>3, <1>5
  <1>9. \A q \in Ranks : Within(p, Gather(l, q).offset, l[q]) <=> q = r
    BY <1>5, <1>6, <1>7, <1>8
  <1>10. QED
    BY ONLY <1>5, <1>9 DEF OneWriter

\* The process before another along an axis.
LEMMA NeighbourFacts ==
    ASSUME DataSetAssumption, program \in Programs, NEW r \in Ranks, NEW i \in Dim,
           MpiPos(r)[i] # 0
    PROVE  /\ Neighbour(r, i) \in Ranks
           /\ MpiPos(Neighbour(r, i))[i] = MpiPos(r)[i] - 1
  <1> DEFINE pos == MpiPos(r)
             p == [pos EXCEPT ![i] = @ - 1]
  <1>1. Place(pos)
    BY PosFacts
  <1>2. pos = <<pos[1], pos[2], pos[3]>> /\ \A j \in Dim : pos[j] \in 0..Shape[j] - 1
    BY <1>1 DEF Place
  <1>3. \A j \in Dim : Shape[j] \in Nat \ {0}
    BY ShapeFacts
  <1> HIDE DEF pos
  <1>4. pos = [j \in Dim |-> pos[j]]
    BY <1>2 DEF Dim
  <1>5. p = [j \in Dim |-> IF j = i THEN pos[j] - 1 ELSE pos[j]]
    BY <1>4
  <1>6. \A j \in Dim : p[j] = IF j = i THEN pos[j] - 1 ELSE pos[j]
    BY <1>5
  <1>7. p = [j \in Dim |-> p[j]]
    BY <1>5
  <1>8. p = <<p[1], p[2], p[3]>>
    BY <1>7 DEF Dim
  <1> HIDE DEF p
  <1>9. \A j \in Dim : p[j] \in 0..Shape[j] - 1
    <2>1. SUFFICES ASSUME NEW j \in Dim PROVE p[j] \in 0..Shape[j] - 1
      OBVIOUS
    <2>2. pos[j] \in 0..Shape[j] - 1 /\ Shape[j] \in Nat
      BY <1>2, <1>3
    <2>3. CASE j = i
      <3>1. pos[j] # 0 /\ p[j] = pos[j] - 1
        BY <1>6, <2>3 DEF pos
      <3>2. QED
        BY <2>2, <3>1
    <2>4. CASE j # i
      BY <1>6, <2>2, <2>4
    <2>5. QED
      BY <2>3, <2>4
  <1>10. Place(p)
    BY <1>8, <1>9 DEF Place
  <1>11. RankAt(p) \in Ranks /\ MpiPos(RankAt(p)) = p
    BY <1>10, RankAtFacts
  <1>12. Neighbour(r, i) \in Ranks /\ MpiPos(Neighbour(r, i)) = p
    BY <1>11 DEF Neighbour, pos, p
  <1>13. QED
    BY <1>6, <1>12 DEF pos

\* The offset that is added up is where the neighbours end.
BeginsAfter(l, f) ==
    f = [q \in Ranks |->
           [i \in Dim |-> IF MpiPos(q)[i] = 0 THEN 0
                          ELSE f[Neighbour(q, i)][i] + l[Neighbour(q, i)][i]]]

LEMMA ElementsFacts ==
    ASSUME DataSetAssumption, program \in Programs, ~GatherRefused, local \in Layouts,
           NEW r \in Ranks
    PROVE  LET o == Gather(local, r).offset IN
           Elements(r) = [p \in {Plus(o, x) : x \in Box(local[r])} |->
                            <<r, [i \in Dim |-> p[i] - o[i]]>>]
  <1> DEFINE g == [q \in Ranks |-> Gather(local, q).offset]
             f == CHOOSE b : BeginsAfter(local, b)
  <1>1. ASSUME NEW q \in Ranks
        PROVE  Gather(local, q).offset = [i \in Dim |-> Start(local, i, MpiPos(q)[i])]
    <2>1. Gather(local, q) = [size |-> [i \in Dim |-> Start(local, i, Shape[i])],
                              offset |-> [i \in Dim |-> Start(local, i, MpiPos(q)[i])]]
      BY GatherFacts
    <2>2. QED
      BY <2>1
  <1>2. ASSUME NEW q \in Ranks, NEW i \in Dim
        PROVE  Start(local, i, MpiPos(q)[i])
                 = IF MpiPos(q)[i] = 0 THEN 0
                   ELSE Start(local, i, MpiPos(Neighbour(q, i))[i]) + local[Neighbour(q, i)][i]
    <2> DEFINE k == MpiPos(q)[i]
               n == Shape[i]
               m == Row(local, i)
    <2>1. n \in Nat /\ k \in 0..n - 1 /\ \A j \in 0..n - 1 : m[j] \in Nat
      BY ShapeFacts, PosFacts, LayoutFacts DEF Place
    <2>2. /\ SumOfFirst(m, 0) = 0
          /\ \A j \in 0..n - 1 : SumOfFirst(m, j + 1) = SumOfFirst(m, j) + m[j]
      <3> HIDE DEF m, n
      <3>1. QED
        BY <2>1, SumFacts, ZenonT(40)
    <2>3. CASE k = 0
      BY <2>2, <2>3 DEF Start
    <2>4. CASE k # 0
      <3>1. Neighbour(q, i) \in Ranks /\ MpiPos(Neighbour(q, i))[i] = k - 1
        BY <2>4, NeighbourFacts
      <3>2. local[Neighbour(q, i)][i] = m[k - 1]
        <4>1. local[Neighbour(q, i)][i] = Row(local, i)[MpiPos(Neighbour(q, i))[i]]
          BY <3>1, LayoutFacts
        <4>2. QED
          BY <3>1, <4>1
      <3>3. k - 1 \in 0..n - 1 /\ (k - 1) + 1 = k
        BY <2>1, <2>4
      <3>4. SumOfFirst(m, (k - 1) + 1) = SumOfFirst(m, k - 1) + m[k - 1]
        BY <2>2, <3>3
      <3>5. SumOfFirst(m, k) = SumOfFirst(m, k - 1) + m[k - 1]
        BY <3>3, <3>4
      <3>6. QED
        BY <2>4, <3>1, <3>2, <3>5 DEF Start
    <2>5. QED
      BY <2>3, <2>4
  <1>3. ASSUME NEW q \in Ranks, NEW i \in Dim, MpiPos(q)[i] # 0
        PROVE  g[Neighbour(q, i)][i] = Start(local, i, MpiPos(Neighbour(q, i))[i])
    <2>1. Neighbour(q, i) \in Ranks
      BY <1>3, NeighbourFacts
    <2>2. QED
      BY <1>1, <2>1, ZenonT(40)
  <1>4. BeginsAfter(local, g)
    <2>1. ASSUME NEW q \in Ranks
          PROVE  g[q] = [i \in Dim |-> IF MpiPos(q)[i] = 0 THEN 0
                           ELSE g[Neighbour(q, i)][i] + local[Neighbour(q, i)][i]]
      <3>1. g[q] = [i \in Dim |-> Start(local, i, MpiPos(q)[i])]
        BY <1>1
      <3> HIDE DEF g
      <3>2. \A i \in Dim : Start(local, i, MpiPos(q)[i])
               = IF MpiPos(q)[i] = 0 THEN 0
                 ELSE g[Neighbour(q, i)][i] + local[Neighbour(q, i)][i]
        BY <1>2, <1>3
      <3>3. QED
        BY <3>1, <3>2
    <2>2. g = [q \in Ranks |-> g[q]]
      OBVIOUS
    <2> HIDE DEF g
    <2>3. g = [q \in Ranks |->
           [i \in Dim |-> IF MpiPos(q)[i] = 0 THEN 0
                          ELSE g[Neighbour(q, i)][i] + local[Neighbour(q, i)][i]]]
      BY <2>1, <2>2
    <2>4. QED
      BY <2>3 DEF BeginsAfter
  <1>5. BeginsAfter(local, f)
    BY <1>4
  <1> HIDE DEF f
  <1>6. \A q \in Ranks : \A i \in Dim :
           f[q][i] = IF MpiPos(q)[i] = 0 THEN 0
                     ELSE f[Neighbour(q, i)][i] + local[Neighbour(q, i)][i]
    <2>1. SUFFICES ASSUME NEW q \in Ranks, NEW i \in Dim
                   PROVE  f[q][i] = IF MpiPos(q)[i] = 0 THEN 0
                                    ELSE f[Neighbour(q, i)][i] + local[Neighbour(q, i)][i]
      OBVIOUS
    <2>2. f[q] = [j \in Dim |-> IF MpiPos(q)[j] = 0 THEN 0
                               ELSE f[Neighbour(q, j)][j] + local[Neighbour(q, j)][j]]
      BY <1>5 DEF BeginsAfter
    <2>3. QED
      BY <2>2
  <1>7. ASSUME NEW i \in Dim
        PROVE  \A q \in Ranks : f[q][i] = Start(local, i, MpiPos(q)[i])
    <2> DEFINE Bad == {k \in Nat : \E q \in Ranks : /\ MpiPos(q)[i] = k
                                                    /\ f[q][i] # Start(local, i, k)}
    <2>1. ASSUME Bad # {} PROVE FALSE
      <3>1. PICK k \in Bad : \A j \in Bad : k <= j
        BY <2>1, LeastNatural
      <3>2. k \in Nat
        OBVIOUS
      <3>3. PICK q \in Ranks : MpiPos(q)[i] = k /\ f[q][i] # Start(local, i, k)
        OBVIOUS
      <3>4. CASE k = 0
        BY <1>2, <1>6, <3>3, <3>4
      <3>5. CASE k # 0
        <4>1. Neighbour(q, i) \in Ranks /\ MpiPos(Neighbour(q, i))[i] = k - 1
          BY <3>3, <3>5, NeighbourFacts
        <4>2. k - 1 \in Nat /\ ~(k <= k - 1)
          BY <3>2, <3>5
        <4>3. f[Neighbour(q, i)][i] = Start(local, i, k - 1)
          BY <3>1, <4>1, <4>2
        <4>4. f[q][i] = f[Neighbour(q, i)][i] + local[Neighbour(q, i)][i]
          BY <1>6, <3>3, <3>5
        <4>5. Start(local, i, k) = Start(local, i, k - 1) + local[Neighbour(q, i)][i]
          BY <1>2, <3>3, <3>5, <4>1
        <4>6. QED
          BY <3>3, <4>3, <4>4, <4>5
      <3>6. QED
        BY <3>4, <3>5
    <2>2. \A q \in Ranks : MpiPos(q)[i] \in Nat
      <3>1. \A q \in Ranks : MpiPos(q)[i] \in 0..Shape[i] - 1 /\ Shape[i] \in Nat
        BY ShapeFacts, PosFacts DEF Place
      <3>2. QED
        BY <3>1
    <2>3. QED
      BY <2>1, <2>2
  <1>8. f[r] = Gather(local, r).offset
    <2>1. f[r] = [i \in Dim |-> f[r][i]]
      BY <1>5 DEF BeginsAfter
    <2>2. \A i \in Dim : f[r][i] = Start(local, i, MpiPos(r)[i])
      BY <1>7
    <2>3. f[r] = [i \in Dim |-> Start(local, i, MpiPos(r)[i])]
      BY <2>1, <2>2
    <2>4. QED
      BY <1>1, <2>3
  <1>9. Elements(r) = [p \in {Plus(f[r], x) : x \in Box(local[r])} |->
                         <<r, [i \in Dim |-> p[i] - f[r][i]]>>]
    BY DEF Elements, f, BeginsAfter
  <1>10. QED
    BY <1>8, <1>9


-----------------------------------------------------------------------------
(* Datasets *)

\* Where SwapDims puts the axes.
Axis(n, i) == CASE n = 2 /\ i < 3 -> 3 - i
                [] n = 3 -> 4 - i
                [] OTHER -> i

Triple(v) == v = <<v[1], v[2], v[3]>>

LEMMA AxisSwaps ==
    ASSUME NEW n \in 1..3, NEW i \in Dim
    PROVE  Axis(n, i) \in Dim /\ Axis(n, Axis(n, i)) = i
  <1>1. n = 1 \/ n = 2 \/ n = 3
    OBVIOUS
  <1>2. i = 1 \/ i = 2 \/ i = 3
    BY DEF Dim
  <1>3. QED
    BY <1>1, <1>2 DEF Axis, Dim

LEMMA SwapFacts ==
    ASSUME NEW n \in 1..3, NEW v, Triple(v)
    PROVE  /\ Triple(SwapDims(v, n))
           /\ \A i \in Dim : SwapDims(v, n)[i] = v[Axis(n, i)]
           /\ SwapDims(SwapDims(v, n), n) = v
  <1>1. n = 1 \/ n = 2 \/ n = 3
    OBVIOUS
  <1>2. CASE n = 1
    BY <1>2 DEF Triple, SwapDims, Axis, Dim
  <1>3. CASE n = 2
    BY <1>3 DEF Triple, SwapDims, Axis, Dim
  <1>4. CASE n = 3
    BY <1>4 DEF Triple, SwapDims, Axis, Dim
  <1>5. QED
    BY <1>1, <1>2, <1>3, <1>4

LEMMA VectorFacts ==
    ASSUME NEW S
    PROVE  /\ \A v \in S \X S \X S : Triple(v) /\ \A i \in Dim : v[i] \in S
           /\ \A v : Triple(v) /\ (\A i \in Dim : v[i] \in S) => v \in S \X S \X S
           /\ \A v : v = [i \in Dim |-> v[i]] <=> Triple(v)
           /\ \A u, v : Triple(u) /\ Triple(v) /\ (\A i \in Dim : u[i] = v[i]) => u = v
  BY DEF Triple, Dim

LEMMA SwapType ==
    ASSUME NEW n \in 1..3, NEW S, NEW v \in S \X S \X S
    PROVE  SwapDims(v, n) \in S \X S \X S
  <1>1. Triple(v) /\ \A i \in Dim : v[i] \in S
    BY VectorFacts
  <1>2. Triple(SwapDims(v, n)) /\ \A i \in Dim : SwapDims(v, n)[i] \in S
    BY <1>1, SwapFacts, AxisSwaps
  <1>3. QED
    BY <1>2, VectorFacts

LEMMA BoxFacts ==
    ASSUME NEW s \in Nat \X Nat \X Nat, NEW p
    PROVE  p \in Box(s) <=> Triple(p) /\ \A i \in Dim : p[i] \in Nat /\ p[i] < s[i]
  BY DEF Dim, Box, Triple

LEMMA SwapWithin ==
    ASSUME NEW n \in 1..3, NEW p, Triple(p), NEW o, Triple(o), NEW s, Triple(s)
    PROVE  Within(SwapDims(p, n), SwapDims(o, n), SwapDims(s, n)) <=> Within(p, o, s)
  <1>1. \A i \in Dim : /\ SwapDims(p, n)[i] = p[Axis(n, i)]
                       /\ SwapDims(o, n)[i] = o[Axis(n, i)]
                       /\ SwapDims(s, n)[i] = s[Axis(n, i)]
    BY SwapFacts
  <1>2. \A i \in Dim : Axis(n, i) \in Dim /\ Axis(n, Axis(n, i)) = i
    BY AxisSwaps
  <1>3. QED
    BY <1>1, <1>2 DEF Within

LEMMA SwapBox ==
    ASSUME NEW n \in 1..3, NEW p, NEW s \in Nat \X Nat \X Nat
    PROVE  /\ p \in Box(s) => SwapDims(p, n) \in Box(SwapDims(s, n))
           /\ p \in Box(SwapDims(s, n)) => SwapDims(p, n) \in Box(s)
  <1>1. SwapDims(s, n) \in Nat \X Nat \X Nat /\ Triple(s)
    BY SwapType, VectorFacts
  <1>2. \A i \in Dim : Axis(n, i) \in Dim /\ Axis(n, Axis(n, i)) = i
    BY AxisSwaps
  <1>3. \A i \in Dim : SwapDims(s, n)[i] = s[Axis(n, i)]
    BY <1>1, SwapFacts
  <1>4. ASSUME Triple(p)
        PROVE  Triple(SwapDims(p, n)) /\ \A i \in Dim : SwapDims(p, n)[i] = p[Axis(n, i)]
    BY <1>4, SwapFacts
  <1>5. ASSUME p \in Box(s) PROVE SwapDims(p, n) \in Box(SwapDims(s, n))
    <2>1. Triple(p) /\ \A i \in Dim : p[i] \in Nat /\ p[i] < s[i]
      BY <1>5, BoxFacts
    <2>2. \A i \in Dim : SwapDims(p, n)[i] \in Nat /\ SwapDims(p, n)[i] < SwapDims(s, n)[i]
      BY <1>2, <1>3, <1>4, <2>1
    <2>3. QED
      BY <1>1, <1>4, <2>1, <2>2, BoxFacts
  <1>6. ASSUME p \in Box(SwapDims(s, n)) PROVE SwapDims(p, n) \in Box(s)
    <2>1. Triple(p) /\ \A i \in Dim : p[i] \in Nat /\ p[i] < SwapDims(s, n)[i]
      BY <1>1, <1>6, BoxFacts
    <2>2. \A i \in Dim : SwapDims(p, n)[i] \in Nat /\ SwapDims(p, n)[i] < s[i]
      BY <1>2, <1>3, <1>4, <2>1
    <2>3. QED
      BY <1>4, <2>1, <2>2, BoxFacts
  <1>7. QED
    BY <1>5, <1>6

LEMMA ScalarFacts ==
    ASSUME NEW v \in Nat \X Nat \X Nat
    PROVE  /\ Scalar(v) \in Nat
           /\ Scalar(v) = 0 <=> \E i \in Dim : v[i] = 0
  <1> DEFINE a == v[1]
             b == v[2]
             c == v[3]
  <1>1. a \in Nat /\ b \in Nat /\ c \in Nat
    OBVIOUS
  <1>2. Scalar(v) = a * b * c
    BY DEF Scalar
  <1>3. (\E i \in Dim : v[i] = 0) <=> a = 0 \/ b = 0 \/ c = 0
    BY DEF Dim
  <1> HIDE DEF a, b, c
  <1>4. a * b \in Nat /\ (a * b) * c \in Nat
    <2>1. a * b \in Nat
      BY <1>1
    <2>2. QED
      BY <1>1, <2>1
  <1>5. CASE a = 0 \/ b = 0
    <2>1. a * b = 0
      BY <1>1, <1>5
    <2>2. a * b * c = 0
      BY <1>1, <2>1
    <2>3. QED
      BY <1>2, <1>3, <1>5, <2>2
  <1>6. CASE c = 0
    <2>1. a * b * c = 0
      BY <1>1, <1>4, <1>6
    <2>2. QED
      BY <1>2, <1>3, <1>6, <2>1
  <1>7. CASE a # 0 /\ b # 0 /\ c # 0
    <2>1. a \in Positive /\ b \in Positive /\ c \in Positive
      BY <1>1, <1>7 DEF Positive
    <2>2. a * b * c \in Positive
      BY <2>1, TripleProduct
    <2>3. QED
      BY <1>2, <1>3, <1>7, <2>2 DEF Positive
  <1>8. QED
    BY <1>5, <1>6, <1>7

\* One of the three things a name can stand for in the file: nothing, a dataset of
\* no elements, or one with an extent, whose cells and chunks fit it.
Extent(d) ==
    /\ d = [kind |-> d.kind, ndims |-> d.ndims, size |-> d.size, chunk |-> d.chunk,
            cells |-> d.cells]
    /\ d.kind \in {"fixed", "unlimited"}
    /\ d.ndims \in 1..3
    /\ d.size \in Positive \X Positive \X Positive
    /\ \A i \in Dim : i > d.ndims => d.size[i] = 1
    /\ d.cells = [p \in Box(d.size) |-> d.cells[p]]
    /\ \A p \in Box(d.size) : Len(d.cells[p]) \in {0, 2}
    /\ d.chunk \in [1..d.ndims -> Positive]
    /\ \A i \in 1..d.ndims : d.chunk[i] <= d.size[i]
    /\ LET bytes == TypeSize * Product(d.chunk, d.ndims) IN
       /\ bytes <= ChunkSizes[1] \/ bytes = TypeSize
       /\ d.kind = "fixed" /\ HalfBytes(d.size, d.ndims) >= LeastChunk => 2 * bytes > LeastChunk

DatasetOK(d) == d = NoDataset \/ d = [kind |-> "null"] \/ Extent(d)

\* What was stored is in the extent, in its place.
Holds(d, stored) ==
    \A p \in DOMAIN stored :
        /\ d.kind \in {"fixed", "unlimited"}
        /\ p \in Box(SwapDims(d.size, d.ndims))
        /\ d.cells[SwapDims(p, d.ndims)] = stored[p]

\* The processes' part in it: while there is a dataset it has the size they add up
\* their parts to, and only those that have written theirs have stored anything.
InPart(p, r) == Within(p, Gather(local, r).offset, local[r])

Together ==
    program.parallel =>
        /\ dset.kind = "none" => pending = {}
        /\ dset.kind # "none" => ~GatherRefused /\ local \in Layouts
        /\ HasCells => /\ dset.ndims = program.ndims
                       /\ SwapDims(dset.size, dset.ndims) = Gather(local, 0).size
        /\ dset.kind = "null" => Scalar(Gather(local, 0).size) = 0
        /\ \A p \in DOMAIN expected : \E r \in Ranks \ pending : InPart(p, r)

Alone ==
    ~program.parallel => pending = {} /\ (dset.kind = "unlimited" => dset.ndims = 1)

BasicsOK ==
    /\ program \in Programs
    /\ calls \in 0..program.calls
    /\ local \in [Ranks -> Nat \X Nat \X Nat]
    /\ pending \subseteq Ranks
    /\ last \in [call : {"none", "write", "reserve", "append", "remove"},
                 end : {"returned", "refused", "failed"}]

\* The inductive invariant of a dataset.
DataInv ==
    BasicsOK /\ DatasetOK(dset) /\ Holds(dset, expected) /\ Together /\ Alone

Created(d, size, n, ext) ==
    IF Scalar(size) = 0 THEN d = [kind |-> "null"]
    ELSE /\ Extent(d)
         /\ d.ndims = n /\ d.size = SwapDims(size, n)
         /\ d.kind = IF ext THEN "unlimited" ELSE "fixed"

\* DCDataSet.cpp:366-473.
LEMMA CreateFacts ==
    ASSUME DataSetAssumption, NEW n \in 1..3, NEW size \in Nat \X Nat \X Nat,
           \A i \in Dim : i > n => size[i] = 1, NEW ext \in BOOLEAN
    PROVE  Created(Create(size, n, ext), size, n, ext)
  <1> DEFINE s == SwapDims(size, n)
             c == OptimalChunkDims(s, n)
             k == IF ext THEN "unlimited" ELSE "fixed"
             f == [p \in Box(s) |-> Fill]
             d == Create(size, n, ext)
  <1>1. CASE Scalar(size) = 0
    BY <1>1 DEF Create, Created
  <1>2. CASE Scalar(size) # 0
    <2>1. d = [kind |-> k, ndims |-> n, size |-> s, chunk |-> c, cells |-> f]
      BY <1>2 DEF Create
    <2>2. \A i \in Dim : size[i] \in Positive
      <3>1. \A i \in Dim : size[i] \in Nat
        BY VectorFacts
      <3>2. QED
        BY <1>2, <3>1, ScalarFacts DEF Positive
    <2>3. s \in Positive \X Positive \X Positive
      <3>1. Triple(size)
        BY VectorFacts
      <3>2. size \in Positive \X Positive \X Positive
        BY <2>2, <3>1, VectorFacts
      <3>3. QED
        BY <3>2, SwapType
    <2>4. \A i \in Dim : i > n => s[i] = 1
      <3>1. Triple(size)
        BY VectorFacts
      <3>2. \A i \in Dim : s[i] = size[Axis(n, i)]
        BY <3>1, SwapFacts
      <3>3. \A i \in Dim : i > n => Axis(n, i) = i
        BY DEF Axis, Dim
      <3> HIDE DEF s
      <3>4. QED
        BY <3>2, <3>3
    <2>5. ChunkOK(c, s, n)
      <3>1. \A i \in Dim : s[i] \in Positive
        BY <2>3, VectorFacts
      <3>2. \A i \in 1..n : s[i] \in Positive
        <4>1. \A i \in 1..n : i \in Dim
          BY DEF Dim
        <4>2. QED
          BY <3>1, <4>1
      <3> HIDE DEF s
      <3>3. QED
        BY <3>2, ChunkFacts
    <2> HIDE DEF s, c, k, d
    <2>6. d.kind = k /\ d.ndims = n /\ d.size = s /\ d.chunk = c /\ d.cells = f
      BY <2>1
    <2>7. /\ c \in [1..n -> Positive]
          /\ \A i \in 1..n : c[i] <= s[i]
          /\ TypeSize * Product(c, n) <= ChunkSizes[1] \/ TypeSize * Product(c, n) = TypeSize
          /\ HalfBytes(s, n) >= LeastChunk => 2 * (TypeSize * Product(c, n)) > LeastChunk
      BY <2>5 DEF ChunkOK
    <2>8. f = [p \in Box(s) |-> f[p]] /\ \A p \in Box(s) : Len(f[p]) \in {0, 2}
      BY DEF Fill
    <2> HIDE DEF f
    <2>9. k \in {"fixed", "unlimited"}
      BY DEF k
    <2>10. Extent(d)
      BY <2>1, <2>3, <2>4, <2>6, <2>7, <2>8, <2>9 DEF Extent
    <2>11. QED
      BY <1>2, <2>6, <2>10 DEF d, s, k, Created
  <1>3. QED
    BY <1>1, <1>2

\* Where in the buffer an element of the dataset comes from.
Source(o, t, to, p, n) ==
    SwapDims([i \in Dim |-> SwapDims(o, n)[i] + (p[i] - to[i]) * SwapDims(t, n)[i]], n)

\* The dataset d has become e: the selection s of the buffer was written at to.
Wrote(d, e, s, a, c, o, t, to, who) ==
    /\ Extent(e)
    /\ e.kind = d.kind /\ e.ndims = d.ndims /\ e.size = d.size
    /\ s = [size |-> SwapDims(a, d.ndims), count |-> SwapDims(c, d.ndims),
            offset |-> SwapDims(o, d.ndims), stride |-> SwapDims(t, d.ndims)]
    /\ \A p \in Box(d.size) :
         e.cells[p] = IF Within(p, to, SwapDims(c, d.ndims))
                      THEN <<who, Source(o, t, to, p, d.ndims)>>
                      ELSE d.cells[p]

\* DCDataSet.cpp:530-668: the shape of the dataset stays.
LEMMA WriteFacts ==
    ASSUME NEW d, Extent(d),
           NEW a \in Nat \X Nat \X Nat, NEW c \in Nat \X Nat \X Nat,
           NEW o \in Nat \X Nat \X Nat, NEW t \in Nat \X Nat \X Nat,
           c = a => o = Zero,
           NEW dst \in Nat \X Nat \X Nat, NEW who,
           NEW select, select = [size |-> a, count |-> c, offset |-> o, stride |-> t],
           NEW s, s = SwapSelection(select, d.ndims),
           NEW to, to = IF SelectsTarget(d, s, SwapDims(dst, d.ndims))
                        THEN SwapDims(dst, d.ndims) ELSE Zero
    PROVE  Wrote(d, Write(d, select, dst, who), s, a, c, o, t, to, who)
  <1> DEFINE n == d.ndims
             e == Write(d, select, dst, who)
             src(p) == Source(o, t, to, p, n)
             f == [p \in Box(d.size) |-> IF Within(p, to, SwapDims(c, n))
                                         THEN <<who, src(p)>> ELSE d.cells[p]]
  <1>1. s = [size |-> SwapDims(a, n), count |-> SwapDims(c, n),
             offset |-> SwapDims(o, n), stride |-> SwapDims(t, n)]
    <2>1. DOMAIN select = {"size", "count", "offset", "stride"} /\ s = SwapSelection(select, n)
      OBVIOUS
    <2> HIDE DEF n
    <2>2. s = [g \in {"size", "count", "offset", "stride"} |-> SwapDims(select[g], n)]
      BY ONLY <2>1 DEF SwapSelection
    <2>3. QED
      BY <2>2
  <1>2. s.count = SwapDims(c, n) /\ s.offset = SwapDims(o, n) /\ s.stride = SwapDims(t, n)
    <2> HIDE DEF n
    <2>1. QED
      BY ONLY <1>1
  <1>3. d.kind # "null" /\ DOMAIN d.cells = Box(d.size)
    BY DEF Extent
  <1> DEFINE from == IF SelectsSource(s) THEN s.offset ELSE Zero
  <1>12. from = SwapDims(o, n)
    <2>1. CASE SelectsSource(s)
      BY <1>2, <2>1
    <2>2. CASE ~SelectsSource(s)
      <3>1. n \in 1..3 /\ Triple(a) /\ Triple(c)
        BY VectorFacts DEF Extent
      <3>2. s.count = s.size
        BY <2>2 DEF SelectsSource
      <3>3. s.size = SwapDims(a, n) /\ s.count = SwapDims(c, n)
        <4> HIDE DEF n
        <4>1. QED
          BY ONLY <1>1
      <3>4. SwapDims(SwapDims(a, n), n) = a /\ SwapDims(SwapDims(c, n), n) = c
        BY <3>1, SwapFacts
      <3>5. c = a
        BY ONLY <3>2, <3>3, <3>4
      <3>6. SwapDims(Zero, n) = Zero
        BY <3>1 DEF SwapDims, Zero
      <3>7. QED
        BY <2>2, <3>5, <3>6
    <2>3. QED
      BY <2>1, <2>2
  <1>4. e = [d EXCEPT !.cells = f]
    <2>1. e = [d EXCEPT !.cells = [p \in DOMAIN @ |->
                IF Within(p, to, s.count)
                THEN <<who, SwapDims([i \in Dim |-> from[i]
                                        + (p[i] - to[i]) * s.stride[i]], n)>>
                ELSE @[p]]]
      BY <1>3 DEF Write
    <2> HIDE DEF e, n, from
    <2>2. QED
      BY ONLY <1>2, <1>3, <1>12, <2>1 DEF Source
  <1>5. \A p \in Box(d.size) : Len(f[p]) \in {0, 2}
    <2>1. SUFFICES ASSUME NEW p \in Box(d.size) PROVE Len(f[p]) \in {0, 2}
      OBVIOUS
    <2>2. Len(d.cells[p]) \in {0, 2}
      BY DEF Extent
    <2>3. Len(<<who, src(p)>>) = 2
      <3> DEFINE x == src(p)
      <3> HIDE DEF x
      <3>1. Len(<<who, x>>) = 2
        OBVIOUS
      <3>2. QED
        BY <3>1 DEF x
    <2>4. f[p] = <<who, src(p)>> \/ f[p] = d.cells[p]
      OBVIOUS
    <2> HIDE DEF f, src
    <2>5. QED
      BY <2>2, <2>3, <2>4
  <1>6. f = [p \in Box(d.size) |-> f[p]]
    OBVIOUS
  <1>7. \A p \in Box(d.size) : f[p] = IF Within(p, to, SwapDims(c, n))
                                      THEN <<who, src(p)>> ELSE d.cells[p]
    OBVIOUS
  <1> HIDE DEF f, e, src
  <1>8. e = [kind |-> d.kind, ndims |-> n, size |-> d.size, chunk |-> d.chunk, cells |-> f]
    <2>1. d = [kind |-> d.kind, ndims |-> d.ndims, size |-> d.size, chunk |-> d.chunk,
               cells |-> d.cells]
      BY DEF Extent
    <2>2. QED
      BY <1>4, <2>1
  <1>9. e.kind = d.kind /\ e.ndims = n /\ e.size = d.size /\ e.chunk = d.chunk /\ e.cells = f
    BY <1>8
  <1>10. Extent(e)
    BY <1>5, <1>6, <1>8, <1>9 DEF Extent
  <1>11. QED
    BY ONLY <1>1, <1>7, <1>9, <1>10 DEF e, src, Wrote

\* The same in the order of the caller: its elements go to dst, and the others stay.
Stored(d, e, c, dst, o, t, who) ==
    /\ Extent(e)
    /\ e.kind = d.kind /\ e.ndims = d.ndims /\ e.size = d.size
    /\ \A p \in Box(SwapDims(d.size, d.ndims)) :
         e.cells[SwapDims(p, d.ndims)] =
           IF Within(p, dst, c)
           THEN <<who, [i \in Dim |-> o[i] + (p[i] - dst[i]) * t[i]]>>
           ELSE d.cells[SwapDims(p, d.ndims)]

LEMMA WriteStores ==
    ASSUME NEW d, Extent(d),
           NEW a \in Nat \X Nat \X Nat, NEW c \in Nat \X Nat \X Nat,
           NEW o \in Nat \X Nat \X Nat, NEW t \in Nat \X Nat \X Nat,
           c = a => o = Zero,
           NEW dst \in Nat \X Nat \X Nat, NEW who,
           dst = Zero \/ SwapDims(c, d.ndims) # d.size
    PROVE  Stored(d, Write(d, [size |-> a, count |-> c, offset |-> o, stride |-> t], dst, who),
                  c, dst, o, t, who)
  <1> DEFINE select == [size |-> a, count |-> c, offset |-> o, stride |-> t]
             n == d.ndims
             s == SwapSelection(select, n)
             to == IF SelectsTarget(d, s, SwapDims(dst, n)) THEN SwapDims(dst, n) ELSE Zero
             e == Write(d, select, dst, who)
             from(q) == [i \in Dim |-> SwapDims(o, n)[i] + (q[i] - to[i]) * SwapDims(t, n)[i]]
  <1>1. n \in 1..3 /\ d.size \in Nat \X Nat \X Nat
    BY DEF Extent, Positive
  <1>2. /\ Extent(e)
        /\ e.kind = d.kind /\ e.ndims = n /\ e.size = d.size
        /\ s = [size |-> SwapDims(a, n), count |-> SwapDims(c, n),
                offset |-> SwapDims(o, n), stride |-> SwapDims(t, n)]
        /\ \A q \in Box(d.size) :
             e.cells[q] = IF Within(q, to, SwapDims(c, n))
                          THEN <<who, Source(o, t, to, q, n)>> ELSE d.cells[q]
    <2>1. select = [size |-> a, count |-> c, offset |-> o, stride |-> t]
      OBVIOUS
    <2>2. s = SwapSelection(select, d.ndims)
      OBVIOUS
    <2>3. to = IF SelectsTarget(d, s, SwapDims(dst, d.ndims))
               THEN SwapDims(dst, d.ndims) ELSE Zero
      OBVIOUS
    <2> HIDE DEF select, s, to
    <2>4. Wrote(d, Write(d, select, dst, who), s, a, c, o, t, to, who)
      BY <2>1, <2>2, <2>3, WriteFacts
    <2>5. QED
      BY ONLY <2>4 DEF Wrote, e
  <1>3. to = SwapDims(dst, n)
    <2>1. CASE dst = Zero
      <3>1. SwapDims(Zero, n) = Zero
        BY <1>1 DEF SwapDims, Zero
      <3>2. QED
        BY <2>1, <3>1
    <2>2. CASE SwapDims(c, n) # d.size
      <3>1. s.count = SwapDims(c, n)
        BY <1>2
      <3> HIDE DEF s
      <3>2. SelectsTarget(d, s, SwapDims(dst, n))
        BY <2>2, <3>1 DEF SelectsTarget
      <3>3. QED
        BY <3>2
    <2>3. QED
      BY <2>1, <2>2
  <1> HIDE DEF e, s, to
  <1>4. ASSUME NEW p \in Box(SwapDims(d.size, n))
        PROVE  e.cells[SwapDims(p, n)] =
                 IF Within(p, dst, c)
                 THEN <<who, [i \in Dim |-> o[i] + (p[i] - dst[i]) * t[i]]>>
                 ELSE d.cells[SwapDims(p, n)]
    <2> DEFINE q == SwapDims(p, n)
               x == [i \in Dim |-> o[i] + (p[i] - dst[i]) * t[i]]
               y == from(q)
               A(i) == Axis(n, i)
    <2>1. q \in Box(d.size)
      BY <1>1, SwapBox
    <2>2. Triple(p)
      <3>1. SwapDims(d.size, n) \in Nat \X Nat \X Nat
        BY <1>1, SwapType
      <3>2. QED
        BY <3>1, BoxFacts
    <2>3. Triple(dst) /\ Triple(c) /\ Triple(o) /\ Triple(t)
      BY VectorFacts
    <2>4. Within(q, to, SwapDims(c, n)) <=> Within(p, dst, c)
      BY <1>1, <1>3, <2>2, <2>3, SwapWithin
    <2>5. \A i \in Dim : A(i) \in Dim /\ A(A(i)) = i
      BY <1>1, AxisSwaps
    <2>6. \A i \in Dim : /\ q[i] = p[A(i)] /\ to[i] = dst[A(i)]
                         /\ SwapDims(o, n)[i] = o[A(i)] /\ SwapDims(t, n)[i] = t[A(i)]
      BY <1>1, <1>3, <2>2, <2>3, SwapFacts
    <2>7. \A i \in Dim : y[i] = x[A(i)]
      <3> HIDE DEF A, q
      <3>1. QED
        BY <2>5, <2>6
    <2>8. Triple(x) /\ Triple(y)
      <3>1. x = [i \in Dim |-> x[i]] /\ y = [i \in Dim |-> y[i]]
        OBVIOUS
      <3> HIDE DEF x, y
      <3>2. QED
        BY <3>1, VectorFacts
    <2> HIDE DEF x, y, q
    <2>9. SwapDims(y, n) = x
      <3>1. Triple(SwapDims(y, n)) /\ \A i \in Dim : SwapDims(y, n)[i] = y[A(i)]
        BY <1>1, <2>8, SwapFacts
      <3>2. \A i \in Dim : SwapDims(y, n)[i] = x[i]
        <4> HIDE DEF A
        <4>1. QED
          BY <2>5, <2>7, <3>1
      <3>3. QED
        BY <2>8, <3>1, <3>2, VectorFacts
    <2>10. e.cells[q] = IF Within(q, to, SwapDims(c, n))
                        THEN <<who, SwapDims(y, n)>> ELSE d.cells[q]
      <3>1. SwapDims(y, n) = Source(o, t, to, q, n)
        BY DEF Source, y
      <3>2. QED
        BY <1>2, <2>1, <3>1
    <2>11. QED
      BY <2>4, <2>9, <2>10 DEF q, x
  <1>5. QED
    BY ONLY <1>2, <1>4 DEF e, Stored

\* H5Dset_extent: what was there stays where it was.
LEMMA ExtendFacts ==
    ASSUME NEW d, Extent(d), d.kind = "unlimited", d.ndims = 1, NEW count \in Nat
    PROVE  LET e == Extend(d, count) IN
           /\ Extent(e)
           /\ e.kind = d.kind /\ e.ndims = 1
           /\ e.size = <<d.size[1] + count, d.size[2], d.size[3]>>
           /\ \A p \in Box(d.size) : p \in Box(e.size) /\ e.cells[p] = d.cells[p]
  <1> DEFINE size == <<d.size[1] + count, d.size[2], d.size[3]>>
             f == [p \in Box(size) |-> IF p \in DOMAIN d.cells THEN d.cells[p] ELSE Fill]
             e == Extend(d, count)
  <1>1. /\ d.size \in Positive \X Positive \X Positive
        /\ \A i \in Dim : i > 1 => d.size[i] = 1
        /\ DOMAIN d.cells = Box(d.size)
        /\ \A p \in Box(d.size) : Len(d.cells[p]) \in {0, 2}
        /\ d.chunk \in [1..1 -> Positive]
        /\ \A i \in 1..1 : d.chunk[i] <= d.size[i]
        /\ \/ TypeSize * Product(d.chunk, 1) <= ChunkSizes[1]
           \/ TypeSize * Product(d.chunk, 1) = TypeSize
    BY DEF Extent
  <1>2. [d.size EXCEPT ![1] = @ + count] = size
    BY <1>1
  <1>3. e = [kind |-> "unlimited", ndims |-> 1, size |-> size, chunk |-> d.chunk, cells |-> f]
    BY <1>2 DEF Extend
  <1>4. /\ size \in Positive \X Positive \X Positive
        /\ \A i \in Dim : i > 1 => size[i] = 1
        /\ \A i \in 1..1 : d.chunk[i] <= size[i]
    BY <1>1 DEF Positive, Dim
  <1>5. \A p \in Box(d.size) : p \in Box(size)
    BY <1>1, SMTT(30) DEF Box, Positive
  <1>6. /\ f = [p \in Box(size) |-> f[p]]
        /\ \A p \in Box(d.size) : f[p] = d.cells[p]
        /\ \A p \in Box(size) : Len(f[p]) \in {0, 2}
    BY <1>1, <1>5 DEF Fill
  <1> HIDE DEF f, size, e
  <1>7. /\ e.kind = "unlimited" /\ e.ndims = 1 /\ e.size = size /\ e.chunk = d.chunk
        /\ e.cells = f
    BY <1>3
  <1>8. Extent(e)
    BY <1>1, <1>3, <1>4, <1>6, <1>7 DEF Extent
  <1>9. QED
    BY <1>5, <1>6, <1>7, <1>8 DEF e, size


-----------------------------------------------------------------------------
(* Steps *)

\* The parts follow from the program and the sizes alone.
LEMMA PartsStay ==
    ASSUME program' = program, NEW l, local' = l
    PROVE  /\ Ranks' = Ranks
           /\ GatherRefused' = GatherRefused
           /\ (local \in Layouts)' <=> l \in Layouts
           /\ \A r : Gather(local, r)' = Gather(l, r)
  <1>1. Shape' = Shape /\ (\A r : MpiPos(r)' = MpiPos(r)) /\ Ranks' = Ranks
    BY DEF Shape, MpiPos, IndexToPos, Ranks
  <1>2. \A r : Gather(local, r)' = Gather(l, r)
    <2>1. SUFFICES ASSUME NEW r PROVE Gather(local, r)' = Gather(l, r)
      OBVIOUS
    <2>2. Shape' = Shape /\ MpiPos(r)' = MpiPos(r)
      BY <1>1
    <2>3. QED
      BY <2>2, program' = program DEF Gather, OnAxis
  <1>3. (local \in Layouts)' <=> l \in Layouts
    BY <1>1, program' = program DEF Layouts
  <1>4. GatherRefused' = GatherRefused
    BY <1>1 DEF GatherRefused
  <1>5. QED
    BY <1>1, <1>2, <1>3, <1>4

\* What a process knows of the whole from the sizes of all parts.
Knows(l, r) ==
    /\ Gather(l, r).size = Gather(l, 0).size
    /\ Gather(l, r).size \in Nat \X Nat \X Nat
    /\ Gather(l, r).offset \in Nat \X Nat \X Nat
    /\ \A i \in Dim : /\ Gather(l, r).size[i] = Start(l, i, Shape[i])
                      /\ Gather(l, r).offset[i] + l[r][i] <= Gather(l, r).size[i]
                      /\ i > program.ndims => Gather(l, r).size[i] = 1

LEMMA WholeFacts ==
    ASSUME DataSetAssumption, program \in Programs, ~GatherRefused, NEW l \in Layouts
    PROVE  0 \in Ranks /\ \A r \in Ranks : Knows(l, r)
  <1>1. 0 \in Ranks
    <2>1. 1 \in Dim /\ 0 \in 0..Shape[1] - 1
      <3>1. 1 \in Dim /\ Shape[1] \in Nat \ {0}
        BY ShapeFacts, SMTT(30) DEF Dim
      <3>2. QED
        BY ONLY <3>1
    <2>2. OnAxis(1, 0) \in Ranks
      BY <2>1, AxisFacts
    <2>3. QED
      BY <2>2 DEF OnAxis
  <1>2. ASSUME NEW r \in Ranks PROVE Knows(l, r)
    <2> DEFINE s == [i \in Dim |-> Start(l, i, Shape[i])]
               o == [i \in Dim |-> Start(l, i, MpiPos(r)[i])]
    <2>1. /\ Gather(l, r) = [size |-> s, offset |-> o]
          /\ \A i \in Dim : /\ Start(l, i, Shape[i]) \in Nat
                            /\ Start(l, i, MpiPos(r)[i]) \in Nat
                            /\ Start(l, i, MpiPos(r)[i]) + l[r][i] <= Start(l, i, Shape[i])
                            /\ i > program.ndims => Start(l, i, Shape[i]) = 1
      BY GatherFacts
    <2>2. Gather(l, 0) = [size |-> s, offset |-> [i \in Dim |-> Start(l, i, MpiPos(0)[i])]]
      BY <1>1, GatherFacts
    <2>3. Gather(l, r).size = s /\ Gather(l, r).offset = o /\ Gather(l, 0).size = s
      BY <2>1, <2>2
    <2>4. \A i \in Dim : s[i] = Start(l, i, Shape[i]) /\ o[i] = Start(l, i, MpiPos(r)[i])
      OBVIOUS
    <2>5. Triple(s) /\ Triple(o)
      <3>1. s = [i \in Dim |-> s[i]] /\ o = [i \in Dim |-> o[i]]
        OBVIOUS
      <3> HIDE DEF s, o
      <3>2. QED
        BY <3>1, VectorFacts
    <2> HIDE DEF s, o
    <2>6. \A i \in Dim : s[i] \in Nat /\ o[i] \in Nat
      BY <2>1, <2>4
    <2>7. s \in Nat \X Nat \X Nat /\ o \in Nat \X Nat \X Nat
      BY <2>5, <2>6, VectorFacts
    <2>8. QED
      BY <2>1, <2>3, <2>4, <2>7 DEF Knows
  <1>3. QED
    BY <1>1, <1>2

\* write() and reserve() in parallel: every process makes the same dataset.
LEMMA CollectiveStep ==
    ASSUME DataSetAssumption, DataInv, NEW call \in {"write", "reserve"}, CollectiveCreate(call)
    PROVE  DataInv'
  <1>1. /\ program' = program /\ program.parallel /\ MayCall /\ ~GatherRefused
        /\ local' \in Layouts /\ expected' = << >>
        /\ calls' = calls + 1
        /\ last' \in [call : {call}, end : {"returned", "failed"}]
    BY DEF CollectiveCreate, Called
  <1>2. PICK l \in Layouts : local' = l
    BY <1>1
  <1>3. program \in Programs /\ calls \in 0..program.calls /\ program.calls \in Nat
        /\ program.ndims \in 1..3
    BY ProgramFacts DEF DataInv, BasicsOK
  <1>4. /\ Ranks' = Ranks /\ GatherRefused' = GatherRefused /\ (local \in Layouts)'
        /\ \A r : Gather(local, r)' = Gather(l, r)
    BY <1>1, <1>2, PartsStay
  <1>5. l \in [Ranks -> Nat \X Nat \X Nat]
    BY <1>3, LayoutFacts
  <1>6. pending' \subseteq Ranks
    BY DEF CollectiveCreate
  <1>7. BasicsOK'
    <2>1. calls' \in 0..program.calls
      BY <1>1, <1>3 DEF MayCall
    <2>2. last' \in [call : {"none", "write", "reserve", "append", "remove"},
                     end : {"returned", "refused", "failed"}]
      BY <1>1
    <2>3. QED
      BY <1>1, <1>2, <1>3, <1>4, <1>5, <1>6, <2>1, <2>2 DEF BasicsOK
  <1>8. DOMAIN expected' = {}
    BY <1>1
  <1>9. Holds(dset, expected)' /\ Alone'
    BY <1>1, <1>8 DEF Holds, Alone
  <1>10. DatasetOK(dset)' /\ Together'
    <2> DEFINE size == Gather(l, 0).size
               n == program.ndims
               ext == call = "reserve"
               d == Create(size, n, ext)
    <2>1. \/ dset' = d
          \/ dset' = NoDataset /\ pending' = {}
      BY <1>2 DEF CollectiveCreate
    <2>2. CASE dset' = NoDataset /\ pending' = {}
      BY <1>8, <2>2 DEF DatasetOK, Together, HasCells, NoDataset
    <2>3. CASE dset' = d
      <3>1. size \in Nat \X Nat \X Nat /\ \A i \in Dim : i > n => size[i] = 1
        BY <1>1, <1>3, WholeFacts, SMTT(30) DEF Knows
      <3>2. Triple(size)
        BY <3>1, VectorFacts
      <3>3. ext \in BOOLEAN /\ n \in 1..3
        BY <1>3
      <3>4. Gather(local, 0)' = Gather(l, 0)
        BY <1>4
      <3> HIDE DEF size, n, ext
      <3>5. Created(d, size, n, ext)
        BY <3>1, <3>3, CreateFacts, Zenon
      <3> HIDE DEF d
      <3>6. CASE Scalar(size) = 0
        <4>1. dset' = [kind |-> "null"]
          BY <2>3, <3>5, <3>6 DEF Created
        <4>2. Scalar(Gather(local, 0).size)' = 0
          BY <3>4, <3>6 DEF Scalar, size
        <4>3. QED
          BY <1>1, <1>4, <1>8, <4>1, <4>2 DEF DatasetOK, Together, HasCells, NoDataset
      <3>7. CASE Scalar(size) # 0
        <4>1. /\ Extent(dset') /\ dset'.ndims = n /\ dset'.size = SwapDims(size, n)
              /\ dset'.kind \in {"fixed", "unlimited"}
          BY <2>3, <3>5, <3>7 DEF Created
        <4>2. SwapDims(dset'.size, dset'.ndims) = size
          BY <3>2, <3>3, <4>1, SwapFacts
        <4>3. (SwapDims(dset.size, dset.ndims) = Gather(local, 0).size)'
          BY <3>4, <4>2 DEF size, SwapDims
        <4>4. QED
          BY <1>1, <1>4, <1>8, <4>1, <4>3 DEF DatasetOK, Together, HasCells, n
      <3>8. QED
        BY <3>6, <3>7
    <2>4. QED
      BY <2>1, <2>2, <2>3
  <1>11. QED
    BY <1>7, <1>9, <1>10 DEF DataInv


LEMMA ShiftedBox ==
    ASSUME NEW o \in Nat \X Nat \X Nat, NEW c \in Nat \X Nat \X Nat, NEW p
    PROVE  p \in {Plus(o, x) : x \in Box(c)}
             <=> Triple(p) /\ (\A i \in Dim : p[i] \in Nat) /\ Within(p, o, c)
  <1>1. \A i \in Dim : o[i] \in Nat /\ c[i] \in Nat
    BY VectorFacts
  <1>2. ASSUME NEW x \in Box(c), p = Plus(o, x)
        PROVE  Triple(p) /\ (\A i \in Dim : p[i] \in Nat) /\ Within(p, o, c)
    <2>1. \A i \in Dim : x[i] \in Nat /\ x[i] < c[i]
      BY BoxFacts
    <2>2. p = [i \in Dim |-> o[i] + x[i]]
      BY <1>2 DEF Plus
    <2>3. \A i \in Dim : p[i] = o[i] + x[i]
      BY <2>2
    <2>4. Triple(p)
      <3>1. p = [i \in Dim |-> p[i]]
        BY <2>2
      <3>2. QED
        BY <3>1, VectorFacts
    <2>5. QED
      BY <1>1, <2>1, <2>3, <2>4 DEF Within
  <1>3. ASSUME Triple(p), \A i \in Dim : p[i] \in Nat, Within(p, o, c)
        PROVE  \E x \in Box(c) : p = Plus(o, x)
    <2> DEFINE x == [i \in Dim |-> p[i] - o[i]]
    <2>1. \A i \in Dim : x[i] = p[i] - o[i]
      OBVIOUS
    <2>2. \A i \in Dim : x[i] \in Nat /\ x[i] < c[i] /\ o[i] + x[i] = p[i]
      <3> HIDE DEF x
      <3>1. QED
        BY <1>1, <1>3, <2>1 DEF Within
    <2>3. Triple(x)
      <3>1. x = [i \in Dim |-> x[i]]
        OBVIOUS
      <3> HIDE DEF x
      <3>2. QED
        BY <3>1, VectorFacts
    <2> HIDE DEF x
    <2>4. x \in Box(c)
      BY <2>2, <2>3, BoxFacts
    <2>5. p = Plus(o, x)
      <3>1. p = [i \in Dim |-> p[i]]
        BY <1>3, VectorFacts
      <3>2. QED
        BY <2>2, <3>1 DEF Plus
    <2>6. QED
      BY <2>4, <2>5
  <1>4. QED
    BY <1>2, <1>3

LEMMA UpdatedFacts ==
    ASSUME NEW f, NEW g
    PROVE  /\ DOMAIN Updated(f, g) = DOMAIN f \union DOMAIN g
           /\ \A x \in DOMAIN g : Updated(f, g)[x] = g[x]
           /\ \A x \in DOMAIN f \ DOMAIN g : Updated(f, g)[x] = f[x]
  BY DEF Updated

\* What a process writes: its elements, in its part of the whole.
Places(l, r, e) ==
    /\ \A p : p \in DOMAIN e <=> /\ Triple(p) /\ (\A i \in Dim : p[i] \in Nat)
                                 /\ Within(p, Gather(l, r).offset, l[r])
    /\ \A p \in DOMAIN e : e[p] = <<r, [i \in Dim |-> p[i] - Gather(l, r).offset[i]]>>

LEMMA ElementsPlaced ==
    ASSUME DataSetAssumption, program \in Programs, ~GatherRefused, local \in Layouts,
           NEW r \in Ranks
    PROVE  Places(local, r, Elements(r))
  <1> DEFINE o == Gather(local, r).offset
             e == Elements(r)
             S == {Plus(o, x) : x \in Box(local[r])}
  <1>1. e = [p \in S |-> <<r, [i \in Dim |-> p[i] - o[i]]>>]
    BY ElementsFacts
  <1>2. o \in Nat \X Nat \X Nat
    BY WholeFacts DEF Knows
  <1>3. local[r] \in Nat \X Nat \X Nat
    BY LayoutFacts
  <1> HIDE DEF e, o
  <1>4. DOMAIN e = S /\ \A p \in S : e[p] = <<r, [i \in Dim |-> p[i] - o[i]]>>
    BY <1>1
  <1>5. \A p : p \in S <=> Triple(p) /\ (\A i \in Dim : p[i] \in Nat) /\ Within(p, o, local[r])
    BY <1>2, <1>3, ShiftedBox
  <1> HIDE DEF S
  <1>6. QED
    BY <1>4, <1>5 DEF Places, e, o

\* A part is written to its place, and only there.
PartStored(d, e, l, r) ==
    /\ Extent(e)
    /\ e.kind = d.kind /\ e.ndims = d.ndims /\ e.size = d.size
    /\ \A p \in Box(SwapDims(d.size, d.ndims)) :
         e.cells[SwapDims(p, d.ndims)] =
           IF Within(p, Gather(l, r).offset, l[r])
           THEN <<r, [i \in Dim |-> p[i] - Gather(l, r).offset[i]]>>
           ELSE d.cells[SwapDims(p, d.ndims)]

LEMMA PartWritten ==
    ASSUME DataSetAssumption, program \in Programs, ~GatherRefused, NEW l \in Layouts,
           NEW r \in Ranks, NEW d, Extent(d), d.ndims = program.ndims,
           SwapDims(d.size, d.ndims) = Gather(l, 0).size
    PROVE  PartStored(d, Write(d, Whole(l[r]), Gather(l, r).offset, r), l, r)
  <1> DEFINE n == d.ndims
             o == Gather(l, r).offset
             c == l[r]
             s == Gather(l, 0).size
             e == Write(d, Whole(c), o, r)
  <1>1. c \in Nat \X Nat \X Nat
    BY LayoutFacts
  <1>2. Knows(l, r) /\ Knows(l, 0)
    BY WholeFacts
  <1>3. /\ s \in Nat \X Nat \X Nat /\ o \in Nat \X Nat \X Nat
        /\ \A i \in Dim : o[i] + c[i] <= s[i]
    BY <1>2 DEF Knows
  <1>4. Zero \in Nat \X Nat \X Nat /\ Ones \in Nat \X Nat \X Nat
    BY DEF Zero, Ones
  <1>5. n \in 1..3 /\ d.size \in Nat \X Nat \X Nat
    BY DEF Extent, Positive
  <1> HIDE DEF n, o, c, s
  <1>6. o = Zero \/ SwapDims(c, n) # d.size
    <2>1. SUFFICES ASSUME SwapDims(c, n) = d.size PROVE o = Zero
      OBVIOUS
    <2>2. Triple(c) /\ Triple(s) /\ Triple(o) /\ Triple(Zero)
      BY <1>1, <1>3, <1>4, VectorFacts
    <2>3. SwapDims(d.size, n) = c
      BY <1>5, <2>1, <2>2, SwapFacts
    <2>4. c = s
      BY <2>3 DEF s, n
    <2>5. \A i \in Dim : o[i] \in Nat /\ c[i] \in Nat
      BY <1>1, <1>3, VectorFacts
    <2>6. \A i \in Dim : o[i] = 0
      BY <1>3, <2>4, <2>5, SMTT(30)
    <2>7. \A i \in Dim : Zero[i] = 0
      BY DEF Zero, Dim
    <2>8. QED
      BY <2>2, <2>6, <2>7, VectorFacts, SMTT(30)
  <1>7. Whole(c) = [size |-> c, count |-> c, offset |-> Zero, stride |-> Ones]
    BY DEF Whole
  <1>8. /\ Extent(e)
        /\ e.kind = d.kind /\ e.ndims = n /\ e.size = d.size
        /\ \A p \in Box(SwapDims(d.size, n)) :
             e.cells[SwapDims(p, n)] =
               IF Within(p, o, c)
               THEN <<r, [i \in Dim |-> Zero[i] + (p[i] - o[i]) * Ones[i]]>>
               ELSE d.cells[SwapDims(p, n)]
    <2>1. o = Zero \/ SwapDims(c, d.ndims) # d.size
      BY <1>6 DEF n
    <2>2. Stored(d, Write(d, [size |-> c, count |-> c, offset |-> Zero, stride |-> Ones], o, r),
                 c, o, Zero, Ones, r)
      BY <1>1, <1>3, <1>4, <2>1, WriteStores
    <2>3. Stored(d, e, c, o, Zero, Ones, r)
      BY ONLY <1>7, <2>2 DEF e
    <2>4. QED
      BY ONLY <2>3 DEF Stored, n
  <1> HIDE DEF e
  <1>9. ASSUME NEW p \in Box(SwapDims(d.size, n))
        PROVE  [i \in Dim |-> Zero[i] + (p[i] - o[i]) * Ones[i]] = [i \in Dim |-> p[i] - o[i]]
    <2>1. SwapDims(d.size, n) \in Nat \X Nat \X Nat
      BY <1>5, SwapType
    <2>2. \A i \in Dim : p[i] \in Nat /\ o[i] \in Nat
      BY <1>3, <2>1, BoxFacts, VectorFacts
    <2>3. \A i \in Dim : Zero[i] = 0 /\ Ones[i] = 1
      BY DEF Zero, Ones, Dim
    <2>4. \A i \in Dim : Zero[i] + (p[i] - o[i]) * Ones[i] = p[i] - o[i]
      BY <2>2, <2>3
    <2>5. QED
      BY <2>4
  <1>10. QED
    BY ONLY <1>8, <1>9 DEF n, o, c, e, PartStored


\* The place of p in the whole is that of one process only.
LEMMA PartIsOwn ==
    ASSUME DataSetAssumption, program \in Programs, ~GatherRefused, NEW l \in Layouts,
           NEW p \in Box(Gather(l, 0).size), NEW q \in Ranks, NEW r \in Ranks,
           Within(p, Gather(l, q).offset, l[q]), Within(p, Gather(l, r).offset, l[r])
    PROVE  q = r
  <1> DEFINE s == Gather(l, 0).size
  <1>1. s \in Nat \X Nat \X Nat /\ \A i \in Dim : s[i] = Start(l, i, Shape[i])
    BY WholeFacts, SMTT(30) DEF Knows
  <1>2. p \in Box(s)
    OBVIOUS
  <1> HIDE DEF s
  <1>3. \A i \in Dim : p[i] \in Nat /\ p[i] < Start(l, i, Shape[i])
    <2>1. \A i \in Dim : p[i] \in Nat /\ p[i] < s[i]
      BY ONLY <1>1, <1>2, BoxFacts, SMTT(30)
    <2>2. QED
      BY ONLY <1>1, <2>1, ZenonT(30)
  <1>4. OneWriter(l, p)
    BY <1>3, PartsTileBox
  <1>5. QED
    BY <1>4 DEF OneWriter

\* A process writes its part in whichever order, and HDF5 may fail after it has.
LEMMA TransferStep ==
    ASSUME DataSetAssumption, DataInv, NEW r \in Ranks, Transfer(r)
    PROVE  DataInv'
  <1> DEFINE o == Gather(local, r).offset
             after == Write(dset, Whole(local[r]), o, r)
  <1>1. /\ program' = program /\ calls' = calls /\ local' = local /\ last' = last
        /\ r \in pending /\ pending' = pending \ {r}
        /\ dset' \in {dset, after}
        /\ \/ expected' = expected
           \/ dset' = after /\ expected' = Updated(expected, Elements(r))
    BY DEF Transfer
  <1>2. BasicsOK /\ DatasetOK(dset) /\ Holds(dset, expected) /\ Together /\ Alone
    BY DEF DataInv
  <1>3. /\ program.parallel /\ dset.kind # "none" /\ ~GatherRefused /\ local \in Layouts
        /\ program \in Programs
    <2>1. program.parallel \in BOOLEAN /\ program \in Programs
      BY <1>2, ProgramFacts DEF BasicsOK
    <2>2. program.parallel
      BY <1>1, <1>2, <2>1 DEF Alone
    <2>3. QED
      BY <1>1, <1>2, <2>1, <2>2 DEF Together
  <1>4. /\ Ranks' = Ranks /\ GatherRefused' = GatherRefused /\ (local \in Layouts)'
        /\ \A q : Gather(local, q)' = Gather(local, q)
    BY <1>1, <1>3, PartsStay
  <1>5. BasicsOK'
    BY <1>1, <1>2, <1>4 DEF BasicsOK
  <1>6. Alone'
    BY <1>1, <1>3 DEF Alone
  <1>7. Places(local, r, Elements(r))
    BY <1>3, ElementsPlaced
  <1>8. CASE dset = [kind |-> "null"]
    <2>1. after = dset
      BY <1>8 DEF Write
    <2>2. dset' = dset
      BY <1>1, <2>1
    <2>3. DOMAIN expected = {}
      BY <1>2, <1>8 DEF Holds
    <2>4. DOMAIN Elements(r) = {}
      <3> DEFINE s == Gather(local, 0).size
      <3>1. Scalar(s) = 0
        BY <1>2, <1>3, <1>8 DEF Together
      <3>2. /\ s \in Nat \X Nat \X Nat /\ o \in Nat \X Nat \X Nat
            /\ \A i \in Dim : o[i] + local[r][i] <= s[i]
        BY <1>3, WholeFacts DEF Knows
      <3>3. local[r] \in Nat \X Nat \X Nat
        BY <1>3, LayoutFacts, SMTT(30)
      <3> HIDE DEF s, o
      <3>4. PICK i \in Dim : s[i] = 0
        BY <3>1, <3>2, ScalarFacts
      <3>5. o[i] \in Nat /\ local[r][i] \in Nat /\ o[i] + local[r][i] <= 0
        <4>1. o[i] + local[r][i] <= s[i]
          BY <3>2
        <4>2. QED
          BY <3>2, <3>3, <3>4, <4>1, VectorFacts
      <3>6. ASSUME NEW p \in DOMAIN Elements(r) PROVE FALSE
        <4>1. p[i] \in Nat /\ o[i] <= p[i] /\ p[i] < o[i] + local[r][i]
          BY <1>7 DEF Places, Within, o
        <4>2. QED
          BY <3>5, <4>1
      <3>7. QED
        BY <3>6
    <2>5. DOMAIN expected' = {}
      <3>1. DOMAIN Updated(expected, Elements(r)) = DOMAIN expected \union DOMAIN Elements(r)
        BY UpdatedFacts
      <3>2. QED
        BY <1>1, <2>3, <2>4, <3>1
    <2>6. Holds(dset, expected)'
      BY <2>5 DEF Holds
    <2>7. Together'
      BY <1>1, <1>2, <1>3, <1>4, <1>8, <2>2, <2>5 DEF Together, HasCells, Scalar
    <2>8. QED
      BY <1>2, <1>5, <1>6, <2>2, <2>6, <2>7 DEF DataInv, DatasetOK, Extent
  <1>9. CASE Extent(dset)
    <2> DEFINE n == dset.ndims
               s == Gather(local, 0).size
    <2>1. /\ dset.kind \in {"fixed", "unlimited"} /\ n \in 1..3
          /\ n = program.ndims /\ SwapDims(dset.size, n) = s
      BY <1>2, <1>3, <1>9 DEF Extent, Together, HasCells
    <2>2. /\ Extent(after)
          /\ after.kind = dset.kind /\ after.ndims = n /\ after.size = dset.size
          /\ \A p \in Box(s) :
               after.cells[SwapDims(p, n)] =
                 IF Within(p, o, local[r]) THEN <<r, [i \in Dim |-> p[i] - o[i]]>>
                 ELSE dset.cells[SwapDims(p, n)]
      <3>1. PartStored(dset, Write(dset, Whole(local[r]), Gather(local, r).offset, r), local, r)
        BY <1>3, <1>9, <2>1, PartWritten
      <3>2. PartStored(dset, after, local, r)
        BY ONLY <3>1 DEF after
      <3>3. QED
        BY ONLY <2>1, <3>2 DEF PartStored, n, o
    <2> HIDE DEF after
    <2>3. /\ Extent(dset') /\ dset'.kind = dset.kind /\ dset'.ndims = n
          /\ dset'.size = dset.size
      BY <1>1, <1>9, <2>2
    <2>4. ASSUME NEW p \in DOMAIN expected
          PROVE  /\ p \in Box(s) /\ dset'.cells[SwapDims(p, n)] = expected[p]
                 /\ \E q \in Ranks \ pending : InPart(p, q) /\ q # r
      <3>1. p \in Box(s) /\ dset.cells[SwapDims(p, n)] = expected[p]
        BY <1>2, <2>1 DEF Holds
      <3>2. PICK q \in Ranks \ pending : InPart(p, q)
        BY <1>2, <1>3 DEF Together
      <3>3. q # r
        BY <1>1, <3>2
      <3>4. ~Within(p, o, local[r])
        BY <1>3, <3>1, <3>2, <3>3, PartIsOwn DEF InPart
      <3>5. after.cells[SwapDims(p, n)] = dset.cells[SwapDims(p, n)]
        BY <2>2, <3>1, <3>4
      <3>6. QED
        BY <1>1, <3>1, <3>2, <3>3, <3>5
    <2>5. ASSUME NEW p \in DOMAIN Elements(r), dset' = after
          PROVE  /\ p \in Box(s) /\ dset'.cells[SwapDims(p, n)] = Elements(r)[p]
                 /\ InPart(p, r)
      <3>1. /\ Triple(p) /\ (\A i \in Dim : p[i] \in Nat)
            /\ Within(p, o, local[r])
            /\ Elements(r)[p] = <<r, [i \in Dim |-> p[i] - o[i]]>>
        BY <1>7 DEF Places
      <3>2. s \in Nat \X Nat \X Nat /\ o \in Nat \X Nat \X Nat
            /\ \A i \in Dim : o[i] + local[r][i] <= s[i]
        BY <1>3, WholeFacts DEF Knows
      <3>3. local[r] \in Nat \X Nat \X Nat
        BY <1>3, LayoutFacts, SMTT(30)
      <3>4. p \in Box(s)
        <4> HIDE DEF s, o
        <4>1. \A i \in Dim : /\ p[i] \in Nat /\ o[i] \in Nat /\ s[i] \in Nat
                             /\ local[r][i] \in Nat
          BY <3>1, <3>2, <3>3, VectorFacts
        <4>2. ASSUME NEW i \in Dim PROVE p[i] < s[i]
          <5>1. p[i] < o[i] + local[r][i] /\ o[i] + local[r][i] <= s[i]
            BY <3>1, <3>2 DEF Within
          <5>2. QED
            BY <4>1, <5>1
        <4>3. QED
          BY <3>1, <3>2, <4>2, BoxFacts
      <3>5. QED
        BY <2>2, <2>5, <3>1, <3>4 DEF InPart
    <2>6. \A p \in DOMAIN expected' :
             /\ p \in Box(s) /\ dset'.cells[SwapDims(p, n)] = expected'[p]
             /\ \E q \in Ranks \ (pending \ {r}) : InPart(p, q)
      <3>1. SUFFICES ASSUME NEW p \in DOMAIN expected'
                     PROVE  /\ p \in Box(s) /\ dset'.cells[SwapDims(p, n)] = expected'[p]
                            /\ \E q \in Ranks \ (pending \ {r}) : InPart(p, q)
        OBVIOUS
      <3> HIDE DEF s, n
      <3> DEFINE e == Elements(r)
                 u == Updated(expected, e)
      <3>1a. /\ DOMAIN u = DOMAIN expected \union DOMAIN e
             /\ \A x \in DOMAIN e : u[x] = e[x]
             /\ \A x \in DOMAIN expected \ DOMAIN e : u[x] = expected[x]
        <4> HIDE DEF e
        <4>1. QED
          BY UpdatedFacts
      <3> HIDE DEF u
      <3>2. CASE expected' = expected
        BY <2>4, <3>2
      <3>3. CASE dset' = after /\ expected' = Updated(expected, Elements(r))
        <4>0. expected' = u
          BY <3>3 DEF u
        <4>1. CASE p \in DOMAIN Elements(r)
          <5>1. expected'[p] = Elements(r)[p]
            BY <3>1a, <4>0, <4>1
          <5>2. QED
            BY <2>5, <3>3, <4>1, <5>1
        <4>2. CASE p \notin DOMAIN Elements(r)
          <5>1. p \in DOMAIN expected /\ expected'[p] = expected[p]
            BY <3>1a, <4>0, <4>2
          <5>2. QED
            BY <2>4, <5>1
        <4>3. QED
          BY <4>1, <4>2
      <3>4. QED
        BY <1>1, <3>2, <3>3
    <2>7. Holds(dset, expected)'
      <3>1. SwapDims(dset'.size, dset'.ndims) = s
        BY <2>1, <2>3
      <3>2. QED
        BY <2>1, <2>3, <2>6, <3>1, ZenonT(40) DEF Holds, SwapDims
    <2>8. Together'
      <3>1. ASSUME NEW p, NEW q, InPart(p, q) PROVE InPart(p, q)'
        <4>1. Gather(local, q)' = Gather(local, q)
          BY <1>4
        <4>2. QED
          BY <1>1, <3>1, <4>1 DEF InPart, Within
      <3>2. \A p \in DOMAIN expected' : \E q \in (Ranks \ pending)' : InPart(p, q)'
        BY <1>1, <1>4, <2>6, <3>1
      <3>3. (SwapDims(dset.size, dset.ndims) = Gather(local, 0).size)'
        BY <1>4, <2>1, <2>3 DEF SwapDims
      <3>4. dset'.ndims = program'.ndims
        BY <1>1, <2>1, <2>3
      <3>5. dset'.kind \in {"fixed", "unlimited"}
        BY <2>1, <2>3
      <3>6. QED
        BY <1>3, <1>4, <3>2, <3>3, <3>4, <3>5 DEF Together, HasCells
    <2>9. QED
      BY <1>5, <1>6, <2>3, <2>7, <2>8 DEF DataInv, DatasetOK
  <1>10. dset # NoDataset
    BY <1>3 DEF NoDataset
  <1>11. QED
    BY <1>2, <1>8, <1>9, <1>10 DEF DatasetOK


\* What a selection of the buffer holds for the first elements of a dataset.
Taken(who, size, o, t) ==
    [p \in Box(size) |-> <<who, [i \in Dim |-> o[i] + p[i] * t[i]]>>]

\* A dataset of one process is extensible only if it has one dimension.
AloneOK(d) == DatasetOK(d) /\ (d.kind = "unlimited" => d.ndims = 1)

\* If a new dataset of this size has an extent, it is this.
Sized(e, size, ext) ==
    /\ e.kind # "none"
    /\ e.kind # "null" => /\ SwapDims(e.size, e.ndims) = size
                         /\ e.kind = IF ext THEN "unlimited" ELSE "fixed"

LEMMA NewDataset ==
    ASSUME DataSetAssumption, NEW n \in 1..3, NEW size \in Nat \X Nat \X Nat,
           \A i \in Dim : i > n => size[i] = 1, NEW ext \in BOOLEAN, ext => n = 1,
           NEW a \in Nat \X Nat \X Nat, NEW c \in Nat \X Nat \X Nat,
           NEW o \in Nat \X Nat \X Nat, NEW t \in Nat \X Nat \X Nat,
           \A i \in Dim : size[i] <= c[i], c = a => o = Zero, NEW who,
           NEW d, d = Create(size, n, ext),
           NEW e, e = Write(d, [size |-> a, count |-> c, offset |-> o, stride |-> t], Zero, who)
    PROVE  /\ AloneOK(d) /\ AloneOK(e) /\ Holds(e, Taken(who, size, o, t))
           /\ Sized(e, size, ext)
  <1>1. Created(d, size, n, ext)
    BY CreateFacts, Zenon
  <1>2. CASE Scalar(size) = 0
    <2>1. d = [kind |-> "null"]
      BY ONLY <1>1, <1>2 DEF Created
    <2>2. e = d
      BY <2>1 DEF Write
    <2>3. Box(size) = {}
      <3>1. PICK i \in Dim : size[i] = 0
        BY <1>2, ScalarFacts
      <3>2. ASSUME NEW p \in Box(size) PROVE FALSE
        <4>1. p[i] \in Nat /\ p[i] < size[i]
          BY BoxFacts
        <4>2. QED
          BY ONLY <3>1, <4>1
      <3>3. QED
        BY <3>2
    <2>4. DOMAIN Taken(who, size, o, t) = {}
      BY <2>3 DEF Taken
    <2>5. QED
      BY ONLY <2>1, <2>2, <2>4 DEF AloneOK, DatasetOK, Holds, Sized
  <1>3. CASE Scalar(size) # 0
    <2>1. /\ Extent(d) /\ d.ndims = n /\ d.size = SwapDims(size, n)
          /\ d.kind = IF ext THEN "unlimited" ELSE "fixed"
      BY ONLY <1>1, <1>3 DEF Created
    <2>2. Zero \in Nat \X Nat \X Nat
      BY DEF Zero
    <2>3. Stored(d, e, c, Zero, o, t, who)
      <3>1. Stored(d, Write(d, [size |-> a, count |-> c, offset |-> o, stride |-> t], Zero, who),
                   c, Zero, o, t, who)
        BY <2>1, <2>2, WriteStores
      <3>2. QED
        BY <3>1
    <2>4. Triple(size)
      BY VectorFacts
    <2>5. SwapDims(d.size, n) = size
      BY <2>1, <2>4, SwapFacts, SMTT(30)
    <2>6. /\ Extent(e) /\ e.kind = d.kind /\ e.ndims = n /\ e.size = d.size
          /\ \A p \in Box(size) :
               e.cells[SwapDims(p, n)] =
                 IF Within(p, Zero, c)
                 THEN <<who, [i \in Dim |-> o[i] + (p[i] - Zero[i]) * t[i]]>>
                 ELSE d.cells[SwapDims(p, n)]
      BY ONLY <2>1, <2>3, <2>5 DEF Stored
    <2>7. ASSUME NEW p \in Box(size)
          PROVE  e.cells[SwapDims(p, n)] = <<who, [i \in Dim |-> o[i] + p[i] * t[i]]>>
      <3>1. \A i \in Dim : /\ p[i] \in Nat /\ p[i] < size[i] /\ size[i] \in Nat
                           /\ c[i] \in Nat /\ size[i] <= c[i]
        BY BoxFacts, VectorFacts
      <3>2. \A i \in Dim : Zero[i] = 0
        BY ONLY TRUE DEF Zero, Dim
      <3>3. ASSUME NEW i \in Dim
            PROVE  Zero[i] <= p[i] /\ p[i] < Zero[i] + c[i] /\ p[i] - Zero[i] = p[i]
        <4>1. /\ p[i] \in Nat /\ p[i] < size[i] /\ size[i] \in Nat
              /\ c[i] \in Nat /\ size[i] <= c[i] /\ Zero[i] = 0
          BY <3>1, <3>2
        <4>2. QED
          BY ONLY <4>1
      <3>4. Within(p, Zero, c)
        BY <3>3 DEF Within
      <3>5. [i \in Dim |-> o[i] + (p[i] - Zero[i]) * t[i]] = [i \in Dim |-> o[i] + p[i] * t[i]]
        BY <3>3
      <3>6. QED
        BY <2>6, <3>4, <3>5
    <2>8. Holds(e, Taken(who, size, o, t))
      <3>1. SwapDims(e.size, e.ndims) = size /\ e.ndims = n /\ e.kind \in {"fixed", "unlimited"}
        BY <2>1, <2>5, <2>6
      <3>2. QED
        BY ONLY <2>7, <3>1 DEF Holds, Taken
    <2>9. Sized(e, size, ext)
      BY ONLY <2>1, <2>5, <2>6 DEF Sized
    <2>10. QED
      BY <2>1, <2>6, <2>8, <2>9 DEF AloneOK, DatasetOK
  <1>4. QED
    BY <1>2, <1>3

\* A serial call: what it leaves is right, whether or not it returned.
LEMMA AloneStep ==
    ASSUME DataSetAssumption, DataInv, ~program.parallel, MayCall,
           UNCHANGED <<program, local, pending>>,
           calls' = calls + 1,
           last' \in [call : {"write", "append"}, end : {"returned", "refused", "failed"}],
           AloneOK(dset'), Holds(dset', expected')
    PROVE  DataInv'
  <1>1. /\ BasicsOK /\ Alone /\ program.calls \in Nat
    BY ProgramFacts DEF DataInv, BasicsOK
  <1>2. Ranks' = Ranks
    BY DEF Ranks
  <1>3. calls' \in 0..program.calls
    BY <1>1 DEF BasicsOK, MayCall
  <1>4. BasicsOK'
    BY <1>1, <1>2, <1>3 DEF BasicsOK
  <1>5. Together' /\ Alone'
    BY <1>1 DEF Together, Alone, AloneOK
  <1>6. DatasetOK(dset)' /\ Holds(dset, expected)'
    BY DEF AloneOK, DatasetOK, Holds, Extent, SwapDims
  <1>7. QED
    BY <1>4, <1>5, <1>6 DEF DataInv

LEMMA CreateAndWriteStep ==
    ASSUME DataSetAssumption, DataInv, ~program.parallel, MayCall,
           UNCHANGED <<program, local, pending>>,
           NEW call \in {"write", "append"}, NEW d, NEW select, NEW stored,
           CreateAndWrite(call, d, select, stored),
           AloneOK(d), AloneOK(Write(d, select, Zero, calls + 1)),
           Holds(Write(d, select, Zero, calls + 1), stored)
    PROVE  DataInv'
  <1> DEFINE e == Write(d, select, Zero, calls + 1)
  <1>1. /\ calls' = calls + 1
        /\ last' \in [call : {"write", "append"}, end : {"returned", "refused", "failed"}]
        /\ \/ dset' = NoDataset /\ expected' = << >>
           \/ dset' = d /\ expected' = << >>
           \/ dset' = e /\ expected' = stored
    BY DEF CreateAndWrite, Called
  <1>2. AloneOK(e) /\ Holds(e, stored)
    OBVIOUS
  <1> HIDE DEF e
  <1>3. AloneOK(NoDataset) /\ \A x : Holds(x, << >>)
    BY DEF AloneOK, DatasetOK, NoDataset, Holds
  <1>4. AloneOK(dset') /\ Holds(dset', expected')
    BY <1>1, <1>2, <1>3
  <1>5. QED
    BY <1>1, <1>4, AloneStep


\* What a call that makes the dataset d anew and writes to it leaves.
MadeOK(d, select, stored, size, ext) ==
    LET e == Write(d, select, Zero, calls + 1) IN
    AloneOK(d) /\ AloneOK(e) /\ Holds(e, stored) /\ Sized(e, size, ext)

LEMMA SerialWriteMakes ==
    ASSUME DataSetAssumption, program \in Programs, NEW s \in program.selections
    PROVE  MadeOK(Create(s.count, program.ndims, FALSE), s, Selected(s), s.count, FALSE)
  <1> DEFINE d == Create(s.count, program.ndims, FALSE)
             e == Write(d, s, Zero, calls + 1)
  <1>2. program \in Programs
    OBVIOUS
  <1>3. /\ program.ndims \in 1..3
        /\ s \in [size : Nat \X Nat \X Nat, count : Nat \X Nat \X Nat,
                  offset : Nat \X Nat \X Nat,
                  stride : (Nat \ {0}) \X (Nat \ {0}) \X (Nat \ {0})]
        /\ \A i \in program.ndims + 1..3 : s.count[i] = 1
        /\ s.count = s.size => s.offset = Zero
    BY <1>2, ProgramFacts
  <1>4. /\ s = [size |-> s.size, count |-> s.count, offset |-> s.offset, stride |-> s.stride]
        /\ s.size \in Nat \X Nat \X Nat /\ s.count \in Nat \X Nat \X Nat
        /\ s.offset \in Nat \X Nat \X Nat /\ s.stride \in Nat \X Nat \X Nat
    BY ONLY <1>3
  <1>5. \A i \in Dim : i > program.ndims => s.count[i] = 1
    <2>1. SUFFICES ASSUME NEW i \in Dim, i > program.ndims PROVE s.count[i] = 1
      OBVIOUS
    <2>2. i \in program.ndims + 1..3
      BY ONLY <1>3, <2>1 DEF Dim
    <2>3. QED
      BY <1>3, <2>2
  <1>6. \A i \in Dim : s.count[i] <= s.count[i]
    <2>1. \A i \in Dim : s.count[i] \in Nat
      BY <1>4, VectorFacts
    <2>2. QED
      BY ONLY <2>1
  <1>7. e = Write(d, [size |-> s.size, count |-> s.count, offset |-> s.offset,
                      stride |-> s.stride], Zero, calls + 1)
    BY ONLY <1>4
  <1>8. d = Create(s.count, program.ndims, FALSE)
    OBVIOUS
  <1> HIDE DEF d, e
  <1>9. /\ AloneOK(d) /\ AloneOK(e) /\ Holds(e, Taken(calls + 1, s.count, s.offset, s.stride))
        /\ Sized(e, s.count, FALSE)
    <2> DEFINE n == program.ndims
               c == s.count
               a == s.size
               o == s.offset
               t == s.stride
               who == calls + 1
    <2>1. c = a => o = Zero
      BY <1>3
    <2>2. FALSE \in BOOLEAN /\ (FALSE => n = 1) /\ n \in 1..3
      BY <1>3
    <2>3. /\ a \in Nat \X Nat \X Nat /\ c \in Nat \X Nat \X Nat
          /\ o \in Nat \X Nat \X Nat /\ t \in Nat \X Nat \X Nat
          /\ \A i \in Dim : i > n => c[i] = 1
          /\ \A i \in Dim : c[i] <= c[i]
      BY <1>4, <1>5, <1>6
    <2>4. /\ d = Create(c, n, FALSE)
          /\ e = Write(d, [size |-> a, count |-> c, offset |-> o, stride |-> t], Zero, who)
      BY <1>7, <1>8
    <2> HIDE DEF n, c, a, o, t, who
    <2>5. /\ AloneOK(d) /\ AloneOK(e) /\ Holds(e, Taken(who, c, o, t))
          /\ Sized(e, c, FALSE)
      BY ONLY DataSetAssumption, <2>1, <2>2, <2>3, <2>4, NewDataset, ZenonT(40)
    <2>6. QED
      BY ONLY <2>5 DEF c, o, t, who
  <1>10. Taken(calls + 1, s.count, s.offset, s.stride) = Selected(s)
    BY DEF Taken, Selected
  <1>11. QED
    BY ONLY <1>9, <1>10 DEF e, d, MadeOK

\* write() of one process.
LEMMA SerialWriteStep ==
    ASSUME DataSetAssumption, DataInv, NEW s \in program.selections, SerialWrite(s)
    PROVE  DataInv'
  <1> DEFINE d == Create(s.count, program.ndims, FALSE)
  <1>1. /\ ~program.parallel /\ MayCall /\ UNCHANGED <<program, local, pending>>
        /\ CreateAndWrite("write", d, s, Selected(s))
    BY DEF SerialWrite
  <1>2. MadeOK(d, s, Selected(s), s.count, FALSE)
    BY SerialWriteMakes DEF DataInv, BasicsOK
  <1> HIDE DEF d
  <1>3. QED
    BY <1>1, <1>2, CreateAndWriteStep DEF MadeOK

LEMMA StridedLonger ==
    ASSUME NEW count \in Nat, NEW offset \in Nat, NEW stride \in Nat \ {0}
    PROVE  /\ offset + count * stride \in Nat /\ count <= offset + count * stride
           /\ offset + count * stride = count => offset = 0
  <1>1. count * stride \in Nat /\ count <= count * stride
    <2>1. PICK k \in Nat : stride = k + 1
      <3>1. stride - 1 \in Nat /\ stride = (stride - 1) + 1
        OBVIOUS
      <3>2. QED
        BY <3>1
    <2>2. count * k \in Nat
      OBVIOUS
    <2>3. count * stride = count * k + count
      BY <2>1
    <2>4. QED
      BY <2>2, <2>3
  <1>2. QED
    BY <1>1

\* append() of what is not there yet: the extent it takes for the size of its buffer
\* is the one it should have, and its selection reaches past it.
LEMMA AppendFirstMakes ==
    ASSUME DataSetAssumption, program \in Programs, NEW a \in program.appends
    PROVE  MadeOK(Create(<<a.count, 1, 1>>, 1, TRUE), FirstSelection(a), Selected(Strided(a)),
                  <<a.count, 1, 1>>, TRUE)
  <1> DEFINE size == <<a.count, 1, 1>>
             c == <<a.offset + a.count * a.stride, 1, 1>>
             o == <<a.offset, 0, 0>>
             t == <<a.stride, 1, 1>>
             d == Create(size, 1, TRUE)
             e == Write(d, FirstSelection(a), Zero, calls + 1)
  <1>2. program \in Programs
    OBVIOUS
  <1>3. a.count \in Nat /\ a.offset \in Nat /\ a.stride \in Nat \ {0}
    BY <1>2, ProgramFacts
  <1>4. /\ a.offset + a.count * a.stride \in Nat
        /\ a.count <= a.offset + a.count * a.stride
        /\ a.offset + a.count * a.stride = a.count => a.offset = 0
    BY <1>3, StridedLonger
  <1>5. /\ size \in Nat \X Nat \X Nat /\ c \in Nat \X Nat \X Nat
        /\ o \in Nat \X Nat \X Nat /\ t \in Nat \X Nat \X Nat
        /\ \A i \in Dim : i > 1 => size[i] = 1
        /\ \A i \in Dim : size[i] <= c[i]
        /\ c = size => o = Zero
    <2> DEFINE m == a.offset + a.count * a.stride
    <2>1. m \in Nat /\ a.count <= m /\ (m = a.count => a.offset = 0)
      BY <1>4
    <2> HIDE DEF m
    <2>2. /\ size \in Nat \X Nat \X Nat /\ <<m, 1, 1>> \in Nat \X Nat \X Nat
          /\ o \in Nat \X Nat \X Nat /\ t \in Nat \X Nat \X Nat
      BY ONLY <1>3, <2>1
    <2>3. \A i \in Dim : (i > 1 => size[i] = 1) /\ size[i] <= <<m, 1, 1>>[i]
      BY ONLY <1>3, <2>1 DEF Dim
    <2>4. <<m, 1, 1>> = size => o = Zero
      BY ONLY <1>3, <2>1 DEF Zero
    <2>5. QED
      BY ONLY <2>2, <2>3, <2>4 DEF m
  <1>6. /\ Strided(a) = [size |-> c, count |-> size, offset |-> o, stride |-> t]
        /\ FirstSelection(a) = [size |-> size, count |-> c, offset |-> o, stride |-> t]
    <2>1. Strided(a) = [size |-> c, count |-> size, offset |-> o, stride |-> t]
      BY DEF Strided
    <2> HIDE DEF size, c, o, t
    <2>2. /\ Strided(a).count = size /\ Strided(a).size = c
          /\ Strided(a).offset = o /\ Strided(a).stride = t
      BY ONLY <2>1
    <2>3. QED
      BY ONLY <2>1, <2>2 DEF FirstSelection
  <1>7. e = Write(d, [size |-> size, count |-> c, offset |-> o, stride |-> t], Zero, calls + 1)
    BY ONLY <1>6
  <1>8. d = Create(size, 1, TRUE)
    OBVIOUS
  <1>9. Taken(calls + 1, size, o, t) = Selected(Strided(a))
    <2>1. Strided(a).count = size /\ Strided(a).offset = o /\ Strided(a).stride = t
      <3> HIDE DEF size, c, o, t
      <3>1. QED
        BY ONLY <1>6
    <2> HIDE DEF size, o, t
    <2>2. QED
      BY ONLY <2>1 DEF Taken, Selected
  <1> HIDE DEF d, e, size, c, o, t
  <1>10. /\ AloneOK(d) /\ AloneOK(e) /\ Holds(e, Taken(calls + 1, size, o, t))
         /\ Sized(e, size, TRUE)
    <2>1. 1 \in 1..3 /\ TRUE \in BOOLEAN /\ (TRUE => 1 = 1)
      OBVIOUS
    <2>2. QED
      BY <1>5, <1>7, <1>8, <2>1, NewDataset, ZenonT(30)
  <1>11. QED
    BY ONLY <1>9, <1>10 DEF e, d, size, MadeOK

LEMMA AppendFirstStep ==
    ASSUME DataSetAssumption, DataInv, NEW a \in program.appends, AppendFirst(a)
    PROVE  DataInv'
  <1> DEFINE d == Create(<<a.count, 1, 1>>, 1, TRUE)
  <1>1. /\ ~program.parallel /\ MayCall /\ UNCHANGED <<program, local, pending>>
        /\ CreateAndWrite("append", d, FirstSelection(a), Selected(Strided(a)))
    BY DEF AppendFirst
  <1>2. MadeOK(d, FirstSelection(a), Selected(Strided(a)), <<a.count, 1, 1>>, TRUE)
    BY AppendFirstMakes DEF DataInv, BasicsOK
  <1> HIDE DEF d
  <1>3. QED
    BY <1>1, <1>2, CreateAndWriteStep DEF MadeOK

LEMMA RemoveStep ==
    ASSUME DataSetAssumption, DataInv, RemoveDataset
    PROVE  DataInv'
  <1>1. /\ UNCHANGED <<program, local>> /\ dset' = NoDataset /\ pending' = {}
        /\ expected' = << >> /\ last' = [call |-> "remove", end |-> "returned"]
        /\ calls' = calls + 1 /\ calls < program.calls
    BY DEF RemoveDataset, Called, MayCall
  <1>2. BasicsOK /\ program.calls \in Nat
    BY ProgramFacts DEF DataInv, BasicsOK
  <1>3. Ranks' = Ranks
    BY <1>1 DEF Ranks
  <1>4. BasicsOK'
    BY <1>1, <1>2, <1>3 DEF BasicsOK
  <1>5. DatasetOK(dset)' /\ Holds(dset, expected)' /\ Together' /\ Alone'
    BY <1>1 DEF DatasetOK, Holds, Together, Alone, HasCells, NoDataset
  <1>6. QED
    BY <1>4, <1>5 DEF DataInv

\* Nothing is done.
LEMMA RefusedStep ==
    ASSUME DataSetAssumption, DataInv, UNCHANGED <<program, dset, local, pending, expected>>,
           BasicsOK'
    PROVE  DataInv'
  <1>1. /\ Ranks' = Ranks /\ GatherRefused' = GatherRefused
        /\ ((local \in Layouts)' <=> local \in Layouts)
        /\ \A q : Gather(local, q)' = Gather(local, q)
    BY PartsStay
  <1>2. DatasetOK(dset) /\ Holds(dset, expected) /\ Together /\ Alone
    BY DEF DataInv
  <1>3. DatasetOK(dset)' /\ Holds(dset, expected)' /\ Alone'
    BY <1>2, ZenonT(40) DEF DatasetOK, Holds, Alone, Extent, SwapDims
  <1>4. Together'
    <2>1. ASSUME program.parallel PROVE Together'
      <3>1. ASSUME NEW p, NEW q, InPart(p, q) PROVE InPart(p, q)'
        <4>1. Gather(local, q)' = Gather(local, q)
          BY <1>1
        <4>2. QED
          BY <3>1, <4>1 DEF InPart, Within
      <3>2. \A p \in DOMAIN expected' : \E q \in (Ranks \ pending)' : InPart(p, q)'
        BY <1>1, <1>2, <2>1, <3>1 DEF Together
      <3>3. Gather(local, 0)' = Gather(local, 0)
        BY <1>1
      <3>4. QED
        BY <1>1, <1>2, <2>1, <3>2, <3>3 DEF Together, HasCells, SwapDims, Scalar
    <2>2. QED
      BY <2>1 DEF Together
  <1>5. QED
    BY <1>3, <1>4 DEF DataInv


\* What append() adds to the end of a dataset.
Added(d, stored, who, size, o, t) ==
    /\ \A p : p \in DOMAIN stored <=> /\ Triple(p) /\ (\A i \in Dim : p[i] \in Nat)
                                      /\ Within(p, <<d.size[1], 0, 0>>, size)
    /\ \A p \in DOMAIN stored :
         stored[p] = <<who, [i \in Dim |-> o[i] + (p[i] - <<d.size[1], 0, 0>>[i]) * t[i]]>>

AddedElements(a, end, size) ==
    [p \in {Plus(end, x) : x \in Box(size)} |->
       Selected(Strided(a))[[p EXCEPT ![1] = @ - end[1]]]]

LEMMA AddedFacts ==
    ASSUME NEW d, Extent(d), NEW a, a.count \in Nat, a.offset \in Nat, a.stride \in Nat \ {0},
           NEW end, end = <<d.size[1], 0, 0>>, NEW size, size = <<a.count, 1, 1>>
    PROVE  Added(d, AddedElements(a, end, size), calls + 1, size,
                 <<a.offset, 0, 0>>, <<a.stride, 1, 1>>)
  <1> DEFINE o == <<a.offset, 0, 0>>
             t == <<a.stride, 1, 1>>
             S == {Plus(end, x) : x \in Box(size)}
             who == calls + 1
             q(p) == [p EXCEPT ![1] = @ - end[1]]
             stored == [p \in S |-> Selected(Strided(a))[q(p)]]
  <1>1. d.size[1] \in Nat
    BY DEF Extent, Positive
  <1>2. end \in Nat \X Nat \X Nat /\ size \in Nat \X Nat \X Nat
    BY <1>1
  <1>3. Selected(Strided(a)) = [p \in Box(size) |-> <<who, [i \in Dim |-> o[i] + p[i] * t[i]]>>]
    <2> DEFINE c == a.offset + a.count * a.stride
    <2>1. Strided(a) = [size |-> <<c, 1, 1>>, count |-> size, offset |-> o, stride |-> t]
      BY DEF Strided
    <2> HIDE DEF o, t, c
    <2>2. Strided(a).count = size /\ Strided(a).offset = o /\ Strided(a).stride = t
      BY ONLY <2>1
    <2>3. QED
      BY ONLY <2>2 DEF Selected
  <1> HIDE DEF o, t
  <1>4. \A p : p \in S <=> Triple(p) /\ (\A i \in Dim : p[i] \in Nat) /\ Within(p, end, size)
    BY <1>2, ShiftedBox
  <1>5. ASSUME NEW p \in S
        PROVE  stored[p] = <<who, [i \in Dim |-> o[i] + (p[i] - end[i]) * t[i]]>>
    <2>1. Triple(p) /\ (\A i \in Dim : p[i] \in Nat) /\ Within(p, end, size)
      BY <1>4
    <2>2. /\ p[1] \in Nat /\ p[2] \in Nat /\ p[3] \in Nat /\ p = <<p[1], p[2], p[3]>>
          /\ end[1] \in Nat /\ end[2] = 0 /\ end[3] = 0
          /\ end[1] <= p[1] /\ p[1] < end[1] + size[1]
          /\ p[2] < 0 + size[2] /\ p[3] < 0 + size[3]
      <3>1. 1 \in Dim /\ 2 \in Dim /\ 3 \in Dim
        BY DEF Dim
      <3>2. end[1] \in Nat /\ end[2] = 0 /\ end[3] = 0
        BY <1>1
      <3>3. QED
        BY ONLY <2>1, <3>1, <3>2 DEF Triple, Within
    <2>3. q(p) = <<p[1] - end[1], p[2], p[3]>>
      BY ONLY <2>2
    <2>4. size[1] \in Nat /\ size[2] = 1 /\ size[3] = 1
      OBVIOUS
    <2>5. q(p) \in Box(size)
      <3>1. /\ p[1] - end[1] \in 0..size[1] - 1 /\ p[2] \in 0..size[2] - 1
            /\ p[3] \in 0..size[3] - 1
        BY ONLY <2>2, <2>4
      <3>2. QED
        BY ONLY <2>3, <3>1 DEF Box
    <2>6. \A i \in Dim : q(p)[i] = p[i] - end[i]
      BY ONLY <2>2, <2>3 DEF Dim
    <2>7. stored[p] = Selected(Strided(a))[q(p)]
      OBVIOUS
    <2> HIDE DEF q, stored
    <2>8. stored[p] = <<who, [i \in Dim |-> o[i] + q(p)[i] * t[i]]>>
      BY ONLY <1>3, <2>5, <2>7
    <2>9. QED
      BY ONLY <2>6, <2>8
  <1>6. DOMAIN stored = S
    OBVIOUS
  <1> HIDE DEF stored
  <1>7. Added(d, stored, who, size, o, t)
    BY ONLY <1>4, <1>5, <1>6, end = <<d.size[1], 0, 0>> DEF Added
  <1>8. QED
    BY ONLY <1>7 DEF stored, o, t, who, S, q, AddedElements


\* What was stored stays in its place as the dataset grows, and what is added goes
\* after it.
LEMMA GrowthHolds ==
    ASSUME NEW d, Extent(d), d.kind = "unlimited", d.ndims = 1, NEW old, Holds(d, old),
           NEW a, a.count \in Nat, a.offset \in Nat, a.stride \in Nat \ {0}, a.count > 0,
           NEW who, NEW end, end = <<d.size[1], 0, 0>>,
           NEW size, size = <<a.count, 1, 1>>,
           NEW o, o = <<a.offset, 0, 0>>, NEW t, t = <<a.stride, 1, 1>>,
           NEW new, Added(d, new, who, size, o, t),
           NEW e, e = Extend(d, a.count), NEW f, f = Write(e, Strided(a), end, who)
    PROVE  /\ AloneOK(e) /\ Holds(e, old)
           /\ AloneOK(f) /\ Holds(f, Updated(old, new))
           /\ e.kind = "unlimited" /\ f.kind = "unlimited"
  <1>1. /\ Extent(e)
        /\ e.kind = d.kind /\ e.ndims = 1
        /\ e.size = <<d.size[1] + a.count, d.size[2], d.size[3]>>
        /\ \A p \in Box(d.size) : p \in Box(e.size) /\ e.cells[p] = d.cells[p]
    BY ExtendFacts
  <1>2. \A v : SwapDims(v, 1) = v
    BY ONLY TRUE DEF SwapDims
  <1>3. /\ d.size \in Positive \X Positive \X Positive
        /\ \A i \in Dim : i > 1 => d.size[i] = 1
    BY DEF Extent
  <1>4. d.size[1] \in Nat /\ d.size[1] > 0 /\ d.size[2] = 1 /\ d.size[3] = 1
        /\ a.count \in Nat /\ a.count > 0
    BY ONLY <1>3, a.count \in Nat, a.count > 0 DEF Positive, Dim
  <1>5. /\ e.size[1] = d.size[1] + a.count /\ e.size[2] = 1 /\ e.size[3] = 1
        /\ e.size \in Nat \X Nat \X Nat /\ d.size \in Nat \X Nat \X Nat
    BY ONLY <1>1, <1>3, <1>4 DEF Positive
  <1>6. Holds(e, old)
    BY <1>1, <1>2 DEF Holds
  <1>7. AloneOK(e)
    BY <1>1 DEF AloneOK, DatasetOK
  <1>8. /\ end \in Nat \X Nat \X Nat /\ size \in Nat \X Nat \X Nat
        /\ o \in Nat \X Nat \X Nat /\ t \in Nat \X Nat \X Nat
        /\ end[1] = d.size[1] /\ end[2] = 0 /\ end[3] = 0
        /\ size[1] = a.count /\ size[2] = 1 /\ size[3] = 1
    BY <1>4
  <1>9. Stored(e, f, size, end, o, t, who)
    <2> DEFINE m == a.offset + a.count * a.stride
               s == <<m, 1, 1>>
    <2>1. m \in Nat /\ (m = a.count => a.offset = 0)
      BY StridedLonger
    <2>2. s \in Nat \X Nat \X Nat /\ (size = s => o = Zero)
      <3> HIDE DEF m
      <3>1. QED
        BY ONLY <2>1, size = <<a.count, 1, 1>>, o = <<a.offset, 0, 0>> DEF Zero
    <2>3. Strided(a) = [size |-> s, count |-> size, offset |-> o, stride |-> t]
      BY ONLY size = <<a.count, 1, 1>>, o = <<a.offset, 0, 0>>, t = <<a.stride, 1, 1>>
         DEF Strided
    <2>4. size # e.size
      BY ONLY <1>4, <1>5, <1>8
    <2>5. SwapDims(size, e.ndims) # e.size
      BY ONLY <1>1, <1>2, <2>4
    <2> HIDE DEF s
    <2>6. Stored(e, Write(e, [size |-> s, count |-> size, offset |-> o, stride |-> t], end, who),
                 size, end, o, t, who)
      BY <1>1, <1>8, <2>2, <2>5, WriteStores
    <2>7. QED
      BY ONLY <2>3, <2>6, f = Write(e, Strided(a), end, who)
  <1>10. /\ Extent(f) /\ f.kind = "unlimited" /\ f.ndims = 1 /\ f.size = e.size
         /\ \A p \in Box(e.size) :
              f.cells[p] = IF Within(p, end, size)
                           THEN <<who, [i \in Dim |-> o[i] + (p[i] - end[i]) * t[i]]>>
                           ELSE e.cells[p]
    BY ONLY <1>1, <1>2, <1>9, d.kind = "unlimited" DEF Stored
  <1>11. /\ \A p : p \in DOMAIN new <=> /\ Triple(p) /\ (\A i \in Dim : p[i] \in Nat)
                                        /\ Within(p, end, size)
         /\ \A p \in DOMAIN new :
              new[p] = <<who, [i \in Dim |-> o[i] + (p[i] - end[i]) * t[i]]>>
    BY ONLY Added(d, new, who, size, o, t), end = <<d.size[1], 0, 0>> DEF Added
  <1>12. ASSUME NEW p \in DOMAIN new
         PROVE  p \in Box(f.size) /\ f.cells[p] = new[p]
    <2>1. Triple(p) /\ (\A i \in Dim : p[i] \in Nat) /\ Within(p, end, size)
      BY <1>11
    <2>2. \A i \in Dim : p[i] < e.size[i]
      <3>1. \A i \in Dim : p[i] < end[i] + size[i] /\ p[i] \in Nat
        BY ONLY <2>1 DEF Within
      <3>2. QED
        BY ONLY <1>4, <1>5, <1>8, <3>1 DEF Dim
    <2>3. p \in Box(e.size)
      BY <1>5, <2>1, <2>2, BoxFacts
    <2>4. QED
      BY <1>10, <1>11, <2>1, <2>3
  <1>13. ASSUME NEW p \in DOMAIN old
         PROVE  p \in Box(f.size) /\ f.cells[p] = old[p]
    <2>1. p \in Box(d.size)
      BY <1>2 DEF Holds
    <2>2. p[1] \in Nat /\ p[1] < d.size[1]
      <3>1. \A i \in Dim : p[i] \in Nat /\ p[i] < d.size[i]
        BY <1>5, <2>1, BoxFacts
      <3>2. QED
        BY ONLY <3>1 DEF Dim
    <2>3. ~Within(p, end, size)
      BY ONLY <1>4, <1>8, <2>2 DEF Within, Dim
    <2>4. p \in Box(e.size) /\ e.cells[p] = old[p]
      BY <1>1, <1>2, <1>6 DEF Holds
    <2>5. QED
      BY <1>10, <2>3, <2>4
  <1>14. Holds(f, Updated(old, new))
    <2> DEFINE u == Updated(old, new)
    <2>1. /\ DOMAIN u = DOMAIN old \union DOMAIN new
          /\ \A x \in DOMAIN new : u[x] = new[x]
          /\ \A x \in DOMAIN old \ DOMAIN new : u[x] = old[x]
      BY UpdatedFacts
    <2> HIDE DEF u
    <2>2. \A p \in DOMAIN u : p \in Box(f.size) /\ f.cells[p] = u[p]
      BY ONLY <1>12, <1>13, <2>1
    <2>3. Holds(f, u)
      BY ONLY <1>2, <1>10, <2>2 DEF Holds
    <2>4. QED
      BY ONLY <2>3 DEF u
  <1>15. AloneOK(f)
    BY <1>10 DEF AloneOK, DatasetOK
  <1>16. QED
    BY <1>1, <1>6, <1>7, <1>10, <1>14, <1>15

\* append() to what is there.
LEMMA AppendNextStep ==
    ASSUME DataSetAssumption, DataInv, NEW a \in program.appends, AppendNext(a)
    PROVE  DataInv'
  <1> DEFINE end == <<LogicalSize(dset)[1], 0, 0>>
             size == <<a.count, 1, 1>>
             stored == [p \in {Plus(end, x) : x \in Box(size)} |->
                          Selected(Strided(a))[[p EXCEPT ![1] = @ - end[1]]]]
             e == Extend(dset, a.count)
             f == Write(e, Strided(a), end, calls + 1)
  <1>1. /\ ~program.parallel /\ MayCall /\ UNCHANGED <<program, local, pending>>
        /\ calls' = calls + 1
        /\ last' \in [call : {"write", "append"}, end : {"returned", "refused", "failed"}]
        /\ \/ UNCHANGED <<dset, expected>>
           \/ /\ a.count > 0 /\ CanExtend(dset)
              /\ \/ dset' \in {dset, e} /\ expected' = expected
                 \/ dset' = f /\ expected' = Updated(expected, stored)
    BY DEF AppendNext, Called
  <1>2. BasicsOK /\ DatasetOK(dset) /\ Holds(dset, expected) /\ Alone
    BY DEF DataInv
  <1>3. a.count \in Nat /\ a.offset \in Nat /\ a.stride \in Nat \ {0}
    BY <1>2, ProgramFacts DEF BasicsOK
  <1>4. AloneOK(dset)
    BY <1>1, <1>2 DEF Alone, AloneOK
  <1>5. CASE UNCHANGED <<dset, expected>>
    BY <1>1, <1>2, <1>4, <1>5, AloneStep
  <1>6. CASE a.count > 0 /\ CanExtend(dset)
    <2>1. dset.kind = "unlimited"
      BY <1>6 DEF CanExtend
    <2>2. Extent(dset) /\ dset.ndims = 1
      BY <1>2, <1>4, <2>1 DEF AloneOK, DatasetOK, NoDataset
    <2>3. LogicalSize(dset) = dset.size
      BY <2>1, <2>2 DEF LogicalSize, SwapDims
    <2>4. end = <<dset.size[1], 0, 0>> /\ size = <<a.count, 1, 1>>
      BY <2>3
    <2>5. /\ e = Extend(dset, a.count) /\ f = Write(e, Strided(a), end, calls + 1)
      OBVIOUS
    <2> HIDE DEF end, size, e, f
    <2>6. Added(dset, stored, calls + 1, size, <<a.offset, 0, 0>>, <<a.stride, 1, 1>>)
      <3>1. Added(dset, AddedElements(a, end, size), calls + 1, size, <<a.offset, 0, 0>>,
                  <<a.stride, 1, 1>>)
        BY <1>3, <2>2, <2>4, AddedFacts
      <3>2. QED
        BY ONLY <3>1 DEF AddedElements, stored
    <2> HIDE DEF stored
    <2>7. /\ AloneOK(e) /\ Holds(e, expected)
          /\ AloneOK(f) /\ Holds(f, Updated(expected, stored))
      BY <1>2, <1>3, <1>6, <2>1, <2>2, <2>4, <2>5, <2>6, GrowthHolds
    <2>8. CASE UNCHANGED <<dset, expected>>
      BY <1>5, <2>8
    <2>9. CASE dset' \in {dset, e} /\ expected' = expected
      <3>1. AloneOK(dset') /\ Holds(dset', expected')
        BY <1>2, <1>4, <2>7, <2>9
      <3>2. QED
        BY <1>1, <3>1, AloneStep
    <2>10. CASE dset' = f /\ expected' = Updated(expected, stored)
      <3>1. AloneOK(dset') /\ Holds(dset', expected')
        BY <2>7, <2>10
      <3>2. QED
        BY <1>1, <3>1, AloneStep
    <2>11. QED
      BY <1>1, <2>8, <2>9, <2>10
  <1>7. QED
    BY <1>1, <1>5, <1>6



LEMMA InitData ==
    ASSUME DataSetAssumption, Init
    PROVE  DataInv
  <1>1. /\ program \in Programs /\ calls = 0 /\ dset = NoDataset
        /\ local = [r \in Ranks |-> Zero] /\ pending = {} /\ expected = << >>
        /\ last = [call |-> "none", end |-> "returned"]
    BY DEF Init
  <1>2. program.calls \in Nat
    BY <1>1, ProgramFacts
  <1>3. BasicsOK
    BY <1>1, <1>2 DEF BasicsOK, Zero
  <1>4. DatasetOK(dset) /\ Holds(dset, expected) /\ Together /\ Alone
    BY <1>1 DEF DatasetOK, Holds, Together, Alone, HasCells, NoDataset
  <1>5. QED
    BY <1>3, <1>4 DEF DataInv

LEMMA DataStep ==
    ASSUME DataSetAssumption, DataInv, [Next]_vars
    PROVE  DataInv'
  <1>1. BasicsOK /\ program.calls \in Nat
    BY ProgramFacts DEF DataInv, BasicsOK
  <1>2. CASE CollectiveWrite
    BY <1>2, CollectiveStep DEF CollectiveWrite
  <1>3. CASE Reserve
    BY <1>3, CollectiveStep DEF Reserve
  <1>4. CASE CollectiveRefused
    <2>1. /\ UNCHANGED <<program, dset, local, pending, expected>>
          /\ calls' = calls + 1 /\ calls < program.calls
          /\ last' \in [call : {"write", "reserve"}, end : {"refused"}]
      BY <1>4 DEF CollectiveRefused, Called, MayCall
    <2>2. Ranks' = Ranks
      BY <2>1 DEF Ranks
    <2>3. BasicsOK'
      BY <1>1, <2>1, <2>2 DEF BasicsOK
    <2>4. QED
      BY <2>1, <2>3, RefusedStep
  <1>5. CASE \E r \in Ranks : Transfer(r)
    BY <1>5, TransferStep
  <1>6. CASE \E s \in program.selections : SerialWrite(s)
    BY <1>6, SerialWriteStep
  <1>7. CASE \E a \in program.appends : AppendFirst(a) \/ AppendNext(a)
    BY <1>7, AppendFirstStep, AppendNextStep
  <1>8. CASE RemoveDataset
    BY <1>8, RemoveStep
  <1>9. CASE UNCHANGED vars
    <2>1. /\ UNCHANGED <<program, dset, local, pending, expected>>
          /\ calls' = calls /\ last' = last
      BY <1>9 DEF vars
    <2>2. Ranks' = Ranks
      BY <2>1 DEF Ranks
    <2>3. BasicsOK'
      BY <1>1, <2>1, <2>2 DEF BasicsOK
    <2>4. QED
      BY <2>1, <2>3, RefusedStep
  <1>10. QED
    BY <1>2, <1>3, <1>4, <1>5, <1>6, <1>7, <1>8, <1>9 DEF Next

\* DCDataSet.cpp, ParallelDataCollector.cpp:1060-1161: extent, cells, chunks, the
\* parts of the processes and what has been stored stay in step, for any program,
\* in any order of the processes, and whatever fails.
THEOREM DatasetInvariant == Spec => []DataInv
  <1>1. Init => DataInv
    BY DataSetAssumption, InitData
  <1>2. DataInv /\ [Next]_vars => DataInv'
    BY DataSetAssumption, DataStep
  <1>3. QED
    BY <1>1, <1>2, PTL DEF Spec

\* DCDataSet and its callers keep their state in these sets.
THEOREM DatasetTypeCorrect == Spec => []TypeOK
  <1>1. DataInv => TypeOK
    <2>1. SUFFICES ASSUME DataInv PROVE TypeOK
      OBVIOUS
    <2>2. BasicsOK /\ DatasetOK(dset)
      BY <2>1 DEF DataInv
    <2>3. dset.kind \in Kinds
      BY <2>2 DEF DatasetOK, Extent, Kinds, NoDataset
    <2>4. HasCells =>
             /\ dset.ndims \in 1..3
             /\ DOMAIN dset.cells = Box(dset.size)
             /\ \A p \in DOMAIN dset.cells : Len(dset.cells[p]) \in {0, 2}
             /\ DOMAIN dset.chunk = 1..dset.ndims
      <3>1. SUFFICES ASSUME HasCells, Extent(dset)
                     PROVE  /\ dset.ndims \in 1..3
                            /\ DOMAIN dset.cells = Box(dset.size)
                            /\ \A p \in DOMAIN dset.cells : Len(dset.cells[p]) \in {0, 2}
                            /\ DOMAIN dset.chunk = 1..dset.ndims
        BY <2>2 DEF DatasetOK, HasCells, NoDataset
      <3>2. DOMAIN dset.cells = Box(dset.size)
        BY <3>1 DEF Extent
      <3>3. QED
        BY <3>1, <3>2 DEF Extent
    <2>5. QED
      BY <2>2, <2>3, <2>4 DEF TypeOK, BasicsOK
  <1>2. QED
    BY <1>1, DatasetInvariant, PTL

LEMMA TileWriters ==
    ASSUME DataSetAssumption, program \in Programs, ~GatherRefused, NEW l \in Layouts,
           NEW p \in Box(Gather(l, 0).size)
    PROVE  OneWriter(l, p)
  <1> DEFINE s == Gather(l, 0).size
  <1>1. s \in Nat \X Nat \X Nat /\ \A i \in Dim : s[i] = Start(l, i, Shape[i])
    BY WholeFacts DEF Knows
  <1>2. p \in Box(s)
    OBVIOUS
  <1> HIDE DEF s
  <1>3. \A i \in Dim : p[i] \in Nat /\ p[i] < Start(l, i, Shape[i])
    BY <1>1, <1>2, BoxFacts, SMTT(30)
  <1>4. QED
    BY <1>3, PartsTileBox

LEMMA TileFacts ==
    ASSUME DataSetAssumption, DataInv
    PROVE  PartsTile
  <1>1. SUFFICES ASSUME pending # {}
                 PROVE  LET part == [r \in Ranks |-> Gather(local, r)] IN
                        /\ \A r, s \in Ranks : part[r].size = part[s].size
                        /\ \A p \in Box(part[0].size) :
                             Cardinality({r \in Ranks :
                                            Within(p, part[r].offset, local[r])}) = 1
    BY DEF PartsTile
  <1> DEFINE part == [r \in Ranks |-> Gather(local, r)]
             writers(p) == {r \in Ranks : Within(p, part[r].offset, local[r])}
  <1>2. program \in Programs /\ ~GatherRefused /\ local \in Layouts
    <2>1. program \in Programs /\ program.parallel \in BOOLEAN
      BY <1>1, ProgramFacts DEF DataInv, BasicsOK
    <2>2. program.parallel /\ dset.kind # "none"
      BY <1>1, <2>1 DEF DataInv, Alone, Together
    <2>3. QED
      BY <1>1, <2>1, <2>2 DEF DataInv, Together
  <1>3. 0 \in Ranks /\ \A r \in Ranks : Knows(local, r)
    BY <1>2, WholeFacts
  <1>4. \A r \in Ranks : part[r] = Gather(local, r)
    OBVIOUS
  <1>5. \A r, s \in Ranks : part[r].size = part[s].size
    BY <1>3, <1>4 DEF Knows
  <1>6. ASSUME NEW p \in Box(part[0].size) PROVE Cardinality(writers(p)) = 1
    <2>1. p \in Box(Gather(local, 0).size)
      BY <1>3, <1>4
    <2>2. OneWriter(local, p)
      BY <1>2, <2>1, TileWriters
    <2>4. PICK r \in Ranks : \A q \in Ranks : Within(p, Gather(local, q).offset, local[q]) <=> q = r
      BY ONLY <2>2 DEF OneWriter
    <2>5. writers(p) = {r}
      BY <1>4, <2>4
    <2> HIDE DEF writers
    <2>6. QED
      BY <2>5, FS_Singleton
  <1>7. QED
    BY <1>5, <1>6

\* ParallelDataCollector.cpp:1096-1126: for every topology, and however the data is
\* cut, the processes agree on the whole and no two of them write the same element.
THEOREM PartsTileExactly == Spec => []PartsTile
  <1>1. DataInv => PartsTile
    BY DataSetAssumption, TileFacts
  <1>2. QED
    BY <1>1, DatasetInvariant, PTL

\* DCDataSet.cpp:530-668: what calls that returned have stored is in its place,
\* whichever processes write in whichever order and whatever fails.
THEOREM ContentsStayExact == Spec => []ContentsExact
  <1>1. DataInv => ContentsExact
    BY DEF DataInv, Holds, ContentsExact, HasCells
  <1>2. QED
    BY <1>1, DatasetInvariant, PTL

\* DCHelper.hpp:88-180: of data of any size, whatever the sizes of chunks.
THEOREM ChunksAlwaysFit == Spec => []ChunksFit
  <1>1. DataInv => ChunksFit
    <2>1. SUFFICES ASSUME DataInv, HasCells PROVE ChunksFit
      BY DEF ChunksFit
    <2>2. Extent(dset)
      BY <2>1 DEF DataInv, DatasetOK, HasCells, NoDataset
    <2>3. \A i \in 1..dset.ndims : dset.chunk[i] \in 1..dset.size[i]
      <3>1. SUFFICES ASSUME NEW i \in 1..dset.ndims PROVE dset.chunk[i] \in 1..dset.size[i]
        OBVIOUS
      <3>2. /\ dset.size \in Positive \X Positive \X Positive /\ dset.ndims \in 1..3
            /\ dset.chunk[i] \in Positive /\ dset.chunk[i] <= dset.size[i]
        BY <2>2 DEF Extent
      <3>3. i \in Dim
        BY <3>2 DEF Dim
      <3>4. dset.size[i] \in Positive
        BY <3>2, <3>3, VectorFacts
      <3>5. QED
        BY ONLY <3>2, <3>4 DEF Positive
    <2>4. QED
      BY <2>2, <2>3 DEF ChunksFit, Extent, HalfBytes, LeastChunk
  <1>2. QED
    BY <1>1, DatasetInvariant, PTL

-----------------------------------------------------------------------------
(* The domain of the data *)

\* What a caller passes.
Given(d) ==
    /\ d.class \in {"Grid", "Poly"}
    /\ d.local = [offset |-> d.local.offset, size |-> d.local.size]
    /\ d.global = [offset |-> d.global.offset, size |-> d.global.size]
    /\ d.local.offset \in Nat \X Nat \X Nat /\ d.local.size \in Nat \X Nat \X Nat
    /\ d.global.offset \in Nat \X Nat \X Nat /\ d.global.size \in Nat \X Nat \X Nat

\* Data of GridType that one process wrote does not grow, and its domain was never
\* smaller. (So its domain has elements, and a difference of the sizes is found.)
Covers(d, data) ==
    ~program.parallel /\ data.kind \in {"fixed", "unlimited"} /\ d.class = "Grid" =>
        /\ data.kind = "fixed"
        /\ \A i \in Dim : SwapDims(data.size, data.ndims)[i] <= d.local.size[i]

DomainOK(d) == d # NoDomain => Given(d) /\ Covers(d, dset)

\* With n attributes, only the last one can be without a value.
AttributesUpTo(n) ==
    /\ DOMAIN attrs = NamesUpTo(n) /\ unwritten \subseteq NameAt(n)
    /\ given # NoDomain => n = 5 /\ unwritten = {}

\* The attributes are those of one domain, or a call that writes them has failed.
AttributesOK ==
    /\ \E n \in 0..5 : AttributesUpTo(n)
    /\ torn \in BOOLEAN
    /\ dset.kind = "none" => attrs = << >> /\ annotating = NoDomain
    /\ given # NoDomain /\ ~torn => attrs = Values(given)

\* The inductive invariant of a dataset with its domain.
DomainInv == DataInv /\ AttributesOK /\ DomainOK(annotating) /\ DomainOK(given)


LEMMA NamesFacts ==
    /\ Len(Names) = 5
    /\ NamesUpTo(5) = {Names[i] : i \in DOMAIN Names}
    /\ NamesUpTo(5) = {"_class", "_size", "_start", "_global_size", "_global_start"}
    /\ \A n \in 0..4 : "_global_start" \notin NamesUpTo(n)
    /\ \A m, n \in 0..5 : m <= n => NamesUpTo(m) \subseteq NamesUpTo(n)
    /\ NamesUpTo(0) = {} /\ NameAt(0) = {} /\ NameAt(6) = {}
    /\ NameAt(5) = {"_global_start"}
    /\ \A n \in 1..5 : NameAt(n) = {Names[n]}
    /\ \A n \in 0..5 : NameAt(n) \subseteq NamesUpTo(n)
    /\ \A n \in 0..4 : NamesUpTo(n) \union NameAt(n + 1) = NamesUpTo(n + 1)
  <1>1. /\ Len(Names) = 5 /\ DOMAIN Names = 1..5
        /\ Names[1] = "_class" /\ Names[2] = "_size" /\ Names[3] = "_start"
        /\ Names[4] = "_global_size" /\ Names[5] = "_global_start"
    BY DEF Names
  <1>2. NamesUpTo(5) = {"_class", "_size", "_start", "_global_size", "_global_start"}
    <2>1. 1..5 = {1, 2, 3, 4, 5}
      OBVIOUS
    <2>2. NamesUpTo(5) = {Names[i] : i \in {1, 2, 3, 4, 5}}
      BY ONLY <2>1 DEF NamesUpTo
    <2>3. QED
      BY ONLY <1>1, <2>2
  <1>3. \A n \in 0..4 : "_global_start" \notin NamesUpTo(n)
    <2>1. SUFFICES ASSUME NEW n \in 0..4, NEW i \in 1..n PROVE "_global_start" # Names[i]
      BY DEF NamesUpTo
    <2>2. i = 1 \/ i = 2 \/ i = 3 \/ i = 4
      OBVIOUS
    <2>3. QED
      BY <1>1, <2>2
  <1>4. \A m, n \in 0..5 : m <= n => NamesUpTo(m) \subseteq NamesUpTo(n)
    BY DEF NamesUpTo
  <1>5. NamesUpTo(5) = {Names[i] : i \in DOMAIN Names} /\ NamesUpTo(0) = {}
    BY <1>1 DEF NamesUpTo
  <1>6. NameAt(0) = {} /\ NameAt(6) = {} /\ NameAt(5) = {"_global_start"}
    BY <1>1 DEF NameAt
  <1>7. ASSUME NEW n \in 1..5 PROVE NameAt(n) = {Names[n]}
    BY <1>1 DEF NameAt
  <1>8. ASSUME NEW n \in 0..5 PROVE NameAt(n) \subseteq NamesUpTo(n)
    <2>1. CASE n = 0
      BY <1>6, <2>1
    <2>2. CASE n \in 1..5
      BY <1>7, <2>2 DEF NamesUpTo
    <2>3. QED
      BY <2>1, <2>2
  <1>9. ASSUME NEW n \in 0..4 PROVE NamesUpTo(n) \union NameAt(n + 1) = NamesUpTo(n + 1)
    <2>1. NameAt(n + 1) = {Names[n + 1]}
      BY <1>7
    <2>2. 1..n + 1 = 1..n \union {n + 1}
      OBVIOUS
    <2>3. QED
      BY ONLY <2>1, <2>2 DEF NamesUpTo
  <1>10. QED
    BY <1>1, <1>2, <1>3, <1>4, <1>5, <1>6, <1>7, <1>8, <1>9

LEMMA ValuesFacts ==
    ASSUME NEW d
    PROVE  /\ DOMAIN Values(d) = NamesUpTo(5)
           /\ Values(d)["_class"] = d.class
           /\ Values(d)["_size"] = d.local.size /\ Values(d)["_start"] = d.local.offset
           /\ Values(d)["_global_size"] = d.global.size
           /\ Values(d)["_global_start"] = d.global.offset
           /\ Values(d) = [a \in NamesUpTo(5) |-> Values(d)[a]]
  <1> DEFINE v(a) == CASE a = "_class" -> d.class
                       [] a = "_size" -> d.local.size
                       [] a = "_start" -> d.local.offset
                       [] a = "_global_size" -> d.global.size
                       [] a = "_global_start" -> d.global.offset
  <1>1. Values(d) = [a \in NamesUpTo(5) |-> v(a)]
    BY NamesFacts DEF Values
  <1>2. /\ v("_class") = d.class /\ v("_size") = d.local.size /\ v("_start") = d.local.offset
        /\ v("_global_size") = d.global.size /\ v("_global_start") = d.global.offset
    OBVIOUS
  <1>3. /\ "_class" \in NamesUpTo(5) /\ "_size" \in NamesUpTo(5) /\ "_start" \in NamesUpTo(5)
        /\ "_global_size" \in NamesUpTo(5) /\ "_global_start" \in NamesUpTo(5)
    BY NamesFacts
  <1> HIDE DEF v
  <1>4. QED
    BY ONLY <1>1, <1>2, <1>3

LEMMA AttributesWritten ==
    ASSUME NEW old, NEW m \in 0..5, DOMAIN old = NamesUpTo(m), NEW d, NEW n \in 0..5
    PROVE  /\ m <= n => DOMAIN WithAttributes(old, d, n) = NamesUpTo(n)
           /\ n <= m => DOMAIN WithAttributes(old, d, n) = NamesUpTo(m)
           /\ n = 5 => WithAttributes(old, d, n) = Values(d)
  <1> DEFINE new == [a \in NamesUpTo(n) |-> Values(d)[a]]
             u == WithAttributes(old, d, n)
  <1>1. u = [x \in DOMAIN old \union DOMAIN new |-> IF x \in DOMAIN new THEN new[x] ELSE old[x]]
    BY DEF WithAttributes, Updated
  <1>2. DOMAIN new = NamesUpTo(n) /\ \A x \in NamesUpTo(n) : new[x] = Values(d)[x]
    OBVIOUS
  <1> HIDE DEF new, u
  <1>3. u = [x \in NamesUpTo(m) \union NamesUpTo(n) |->
               IF x \in NamesUpTo(n) THEN Values(d)[x] ELSE old[x]]
    BY ONLY <1>1, <1>2, DOMAIN old = NamesUpTo(m)
  <1>4. /\ m <= n => NamesUpTo(m) \union NamesUpTo(n) = NamesUpTo(n)
        /\ n <= m => NamesUpTo(m) \union NamesUpTo(n) = NamesUpTo(m)
    BY NamesFacts
  <1>5. ASSUME n = 5 PROVE u = Values(d)
    <2>1. m <= n
      BY <1>5
    <2>2. u = [x \in NamesUpTo(5) |-> Values(d)[x]]
      BY ONLY <1>3, <1>4, <1>5, <2>1
    <2>3. Values(d) = [a \in NamesUpTo(5) |-> Values(d)[a]]
      BY ValuesFacts
    <2>4. QED
      BY ONLY <2>2, <2>3
  <1>6. DOMAIN u = NamesUpTo(m) \union NamesUpTo(n)
    BY <1>3
  <1>7. QED
    BY ONLY <1>4, <1>5, <1>6 DEF u

LEMMA PlusFacts ==
    ASSUME NEW u \in Nat \X Nat \X Nat, NEW v \in Nat \X Nat \X Nat
    PROVE  /\ Plus(u, v) \in Nat \X Nat \X Nat
           /\ \A i \in Dim : Plus(u, v)[i] = u[i] + v[i] /\ u[i] <= Plus(u, v)[i]
                             /\ v[i] <= Plus(u, v)[i]
  <1> DEFINE w == Plus(u, v)
  <1>1. \A i \in Dim : u[i] \in Nat /\ v[i] \in Nat
    BY VectorFacts
  <1>2. w = [i \in Dim |-> u[i] + v[i]]
    BY DEF Plus
  <1> HIDE DEF w
  <1>3. \A i \in Dim : w[i] = u[i] + v[i]
    BY <1>2
  <1>4. w = [i \in Dim |-> w[i]]
    BY <1>2
  <1>5. \A i \in Dim : w[i] \in Nat /\ u[i] <= w[i] /\ v[i] <= w[i]
    BY ONLY <1>1, <1>3
  <1>6. Triple(w)
    BY <1>4, VectorFacts
  <1>7. w \in Nat \X Nat \X Nat
    BY <1>5, <1>6, VectorFacts
  <1>8. QED
    BY ONLY <1>3, <1>5, <1>7 DEF w

\* What a caller says of data of a size.
LEMMA DomainOfFacts ==
    ASSUME AnnotationAssumption, NEW a, NEW size \in Nat \X Nat \X Nat,
           a \in [class : {"Grid", "Poly"}, start : Nat \X Nat \X Nat, excess : Nat]
    PROVE  /\ Given(DomainOf(a, size)) /\ DomainOf(a, size).class = a.class
           /\ \A i \in Dim : size[i] <= DomainOf(a, size).local.size[i]
  <1> DEFINE more == <<a.excess, 0, 0>>
             said == Plus(size, more)
             all == Plus(a.start, said)
             global == [offset |-> DomainOffset, size |-> all]
             mine == LocalDomain([offset |-> a.start, size |-> said], global)
             d == DomainOf(a, size)
  <1>1. /\ a.class \in {"Grid", "Poly"} /\ a.start \in Nat \X Nat \X Nat
        /\ more \in Nat \X Nat \X Nat /\ DomainOffset \in Nat \X Nat \X Nat
    BY DEF AnnotationAssumption
  <1> HIDE DEF more
  <1>2. said \in Nat \X Nat \X Nat /\ \A i \in Dim : size[i] <= said[i]
    BY <1>1, PlusFacts
  <1> HIDE DEF said
  <1>3. all \in Nat \X Nat \X Nat /\ \A i \in Dim : said[i] <= all[i]
    BY <1>1, <1>2, PlusFacts
  <1> HIDE DEF all
  <1>4. \A i \in Dim : size[i] <= all[i]
    <2>1. \A i \in Dim : size[i] \in Nat /\ said[i] \in Nat /\ all[i] \in Nat
      BY <1>2, <1>3, VectorFacts
    <2>2. QED
      BY ONLY <1>2, <1>3, <2>1
  <1>5. d = [class |-> a.class, global |-> global, local |-> mine]
    BY DEF DomainOf, said, all, more
  <1>6. mine = IF program.parallel THEN [offset |-> Zero, size |-> all]
               ELSE [offset |-> a.start, size |-> said]
    BY DEF LocalDomain
  <1>7. /\ global = [offset |-> global.offset, size |-> global.size]
        /\ global.offset = DomainOffset /\ global.size = all
    OBVIOUS
  <1>8. Zero \in Nat \X Nat \X Nat
    BY DEF Zero
  <1> HIDE DEF mine, global, d
  <1>9. /\ mine = [offset |-> mine.offset, size |-> mine.size]
        /\ mine.offset \in Nat \X Nat \X Nat /\ mine.size \in Nat \X Nat \X Nat
        /\ \A i \in Dim : size[i] <= mine.size[i]
    <2>1. CASE program.parallel
      BY ONLY <1>3, <1>4, <1>6, <1>8, <2>1
    <2>2. CASE ~program.parallel
      BY ONLY <1>1, <1>2, <1>6, <2>2
    <2>3. QED
      BY <2>1, <2>2
  <1>10. d.class = a.class /\ d.global = global /\ d.local = mine
    BY ONLY <1>5
  <1>11. Given(d)
    BY ONLY <1>1, <1>3, <1>7, <1>9, <1>10 DEF Given
  <1>12. QED
    BY ONLY <1>9, <1>10, <1>11 DEF d


LEMMA BeginsFacts ==
    ASSUME AnnotationAssumption, program \in Programs, NEW a \in program.domains,
           NEW b, b = a \/ b = AsPoly(a), NEW size \in Nat \X Nat \X Nat, Begins(b, size)
    PROVE  \/ annotating' = NoDomain
           \/ /\ last'.end = "returned" /\ Given(annotating')
              /\ b = AsPoly(a) => annotating'.class = "Poly"
              /\ \A i \in Dim : size[i] <= annotating'.local.size[i]
  <1> DEFINE R == [class : {"Grid", "Poly"}, start : Nat \X Nat \X Nat, excess : Nat]
  <1>1. annotating' = IF b = Plain \/ last'.end # "returned" THEN NoDomain ELSE DomainOf(b, size)
    BY DEF Begins
  <1>2. SUFFICES ASSUME b # Plain, last'.end = "returned", annotating' = DomainOf(b, size)
                 PROVE  /\ Given(annotating')
                        /\ b = AsPoly(a) => annotating'.class = "Poly"
                        /\ \A i \in Dim : size[i] <= annotating'.local.size[i]
    BY <1>1
  <1>3. a # Plain
    BY <1>2 DEF AsPoly
  <1>4. a \in R
    BY <1>3 DEF AnnotationAssumption
  <1>5. AsPoly(a) = [a EXCEPT !.class = "Poly"]
    BY <1>3 DEF AsPoly
  <1>6. AsPoly(a) \in R /\ AsPoly(a).class = "Poly"
    BY ONLY <1>4, <1>5
  <1>7. b \in R
    BY ONLY <1>4, <1>6, b = a \/ b = AsPoly(a)
  <1>8. /\ Given(DomainOf(b, size)) /\ DomainOf(b, size).class = b.class
        /\ \A i \in Dim : size[i] <= DomainOf(b, size).local.size[i]
    BY <1>7, DomainOfFacts
  <1>9. QED
    BY ONLY <1>2, <1>6, <1>8

\* The dataset is new and has no domain yet.
LEMMA FreshStep ==
    ASSUME DataInv', Fresh, program' = program,
           \/ annotating' = NoDomain
           \/ dset'.kind # "none" /\ Given(annotating') /\ Covers(annotating', dset')
    PROVE  DomainInv'
  <1>1. attrs' = << >> /\ unwritten' = {} /\ given' = NoDomain /\ torn' = FALSE
    BY DEF Fresh
  <1>2. AttributesOK'
    <2>1. DOMAIN attrs' = {} /\ NamesUpTo(0) = {} /\ 0 \in 0..5
      BY <1>1, NamesFacts
    <2>2. AttributesUpTo(0)'
      BY <1>1, <2>1 DEF AttributesUpTo
    <2>3. QED
      BY <1>1, <2>1, <2>2 DEF AttributesOK
  <1>3. DomainOK(annotating)' /\ DomainOK(given)'
    BY <1>1 DEF DomainOK, Covers
  <1>4. QED
    BY <1>2, <1>3 DEF DomainInv

LEMMA WrittenKind ==
    ASSUME NEW d, "kind" \in DOMAIN d, NEW select, NEW dst, NEW who
    PROVE  Write(d, select, dst, who).kind = d.kind
  <1>1. CASE d.kind = "null"
    BY <1>1 DEF Write
  <1>2. CASE d.kind # "null"
    <2> DEFINE s == SwapSelection(select, d.ndims)
               to == IF SelectsTarget(d, s, SwapDims(dst, d.ndims))
                     THEN SwapDims(dst, d.ndims) ELSE Zero
               from == IF SelectsSource(s) THEN s.offset ELSE Zero
               f(c) == [p \in DOMAIN c |->
                          IF Within(p, to, s.count)
                          THEN <<who, SwapDims([i \in Dim |-> from[i]
                                                  + (p[i] - to[i]) * s.stride[i]], d.ndims)>>
                          ELSE c[p]]
    <2>1. Write(d, select, dst, who) = [d EXCEPT !.cells = f(@)]
      BY <1>2 DEF Write
    <2> HIDE DEF f
    <2>2. QED
      BY <2>1
  <1>3. QED
    BY <1>1, <1>2

\* A call that creates the dataset and returns has written the selection to it.
LEMMA MakesReturned ==
    ASSUME NEW call, NEW d, NEW select, NEW stored,
           CreateAndWrite(call, d, select, stored), last'.end = "returned"
    PROVE  dset' = Write(d, select, Zero, calls + 1)
  <1>1. CASE /\ ~WriteRefused(d, select, Zero)
             /\ dset' = Write(d, select, Zero, calls + 1)
    BY <1>1
  <1>2. CASE Called(call, "failed")
    BY <1>2 DEF Called
  <1>3. CASE Called(call, IF WriteRefused(d, select, Zero) THEN "refused" ELSE "failed")
    BY <1>3 DEF Called
  <1>4. QED
    BY ONLY <1>1, <1>2, <1>3, CreateAndWrite(call, d, select, stored) DEF CreateAndWrite

LEMMA WriteDomainStep ==
    ASSUME AnnotationAssumption, DataSetAssumption, DomainInv, DataInv',
           NEW a \in program.domains, NEW s \in program.selections, WriteDomain(s, a)
    PROVE  DomainInv'
  <1> DEFINE d == Create(s.count, program.ndims, FALSE)
             e == Write(d, s, Zero, calls + 1)
  <1>1. program \in Programs
    BY DEF DomainInv, DataInv, BasicsOK
  <1>2. /\ program' = program /\ ~program.parallel /\ Fresh /\ Begins(a, s.count)
        /\ CreateAndWrite("write", d, s, Selected(s))
    BY DEF WriteDomain, SerialWrite
  <1>3. last'.end = "returned" => dset' = e
    BY ONLY <1>2, MakesReturned DEF e
  <1>4. MadeOK(d, s, Selected(s), s.count, FALSE)
    BY <1>1, SerialWriteMakes
  <1>5. Sized(e, s.count, FALSE)
    BY ONLY <1>4 DEF MadeOK, e
  <1> HIDE DEF e, d
  <1>6. s.count \in Nat \X Nat \X Nat
    BY <1>1, ProgramFacts
  <1>7. \/ annotating' = NoDomain
        \/ /\ last'.end = "returned" /\ Given(annotating')
           /\ \A i \in Dim : s.count[i] <= annotating'.local.size[i]
    BY <1>1, <1>2, <1>6, BeginsFacts
  <1>8. CASE annotating' = NoDomain
    BY <1>2, <1>8, FreshStep
  <1>9. CASE /\ last'.end = "returned" /\ Given(annotating')
             /\ \A i \in Dim : s.count[i] <= annotating'.local.size[i]
    <2>1. dset' = e
      BY <1>3, <1>9
    <2>2. /\ dset'.kind # "none"
          /\ dset'.kind # "null" => /\ SwapDims(dset'.size, dset'.ndims) = s.count
                                    /\ dset'.kind = "fixed"
      BY ONLY <1>5, <2>1 DEF Sized
    <2>3. Covers(annotating', dset')
      BY ONLY <1>9, <2>2 DEF Covers
    <2>4. QED
      BY <1>2, <1>9, <2>2, <2>3, FreshStep
  <1>10. QED
    BY <1>7, <1>8, <1>9

LEMMA AppendDomainStep ==
    ASSUME AnnotationAssumption, DataSetAssumption, DomainInv, DataInv',
           NEW a \in program.domains, NEW x \in program.appends, AppendDomain(x, a)
    PROVE  DomainInv'
  <1> DEFINE size == <<x.count, 1, 1>>
  <1>1. program \in Programs /\ DatasetOK(dset) /\ AttributesOK
    BY DEF DomainInv, DataInv, BasicsOK
  <1>2. x.count \in Nat
    BY <1>1, ProgramFacts
  <1>3. size \in Nat \X Nat \X Nat
    BY <1>2
  <1>4. Begins(AsPoly(a), size)
    BY DEF AppendDomain
  <1> HIDE DEF size
  <1>5. \/ annotating' = NoDomain
        \/ last'.end = "returned" /\ Given(annotating') /\ annotating'.class = "Poly"
    BY <1>1, <1>3, <1>4, BeginsFacts
  <1>6. annotating' # NoDomain => \A data : Covers(annotating', data)
    BY <1>5 DEF Covers
  <1>7. CASE AppendFirst(x) /\ Fresh
    <2> DEFINE d == Create(<<x.count, 1, 1>>, 1, TRUE)
               e == Write(d, FirstSelection(x), Zero, calls + 1)
    <2>1. /\ program' = program
          /\ CreateAndWrite("append", d, FirstSelection(x), Selected(Strided(x)))
      BY <1>7 DEF AppendFirst
    <2>2. last'.end = "returned" => dset' = e
      BY ONLY <2>1, MakesReturned DEF e
    <2>3. MadeOK(d, FirstSelection(x), Selected(Strided(x)), <<x.count, 1, 1>>, TRUE)
      BY <1>1, AppendFirstMakes
    <2>4. e.kind # "none"
      BY ONLY <2>3 DEF MadeOK, Sized, e
    <2> HIDE DEF e, d
    <2>5. QED
      BY <1>5, <1>6, <1>7, <2>1, <2>2, <2>4, FreshStep
  <1>8. CASE AppendNext(x) /\ UNCHANGED <<attrs, unwritten, given, torn>>
    <2>1. program' = program /\ ~program.parallel /\ dset # NoDataset
      BY <1>8 DEF AppendNext
    <2>2. dset.kind # "none" /\ "kind" \in DOMAIN dset
      BY <1>1, <2>1 DEF DatasetOK, Extent, NoDataset
    <2>3. dset.kind # "unlimited" => dset' = dset
      BY <1>8 DEF AppendNext, CanExtend
    <2>4. dset.kind = "unlimited" => dset'.kind = "unlimited"
      <3>1. SUFFICES ASSUME dset.kind = "unlimited" PROVE dset'.kind = "unlimited"
        OBVIOUS
      <3> DEFINE e == Extend(dset, x.count)
                 f == Write(e, Strided(x), <<LogicalSize(dset)[1], 0, 0>>, calls + 1)
      <3>2. "kind" \in DOMAIN e /\ e.kind = "unlimited"
        BY <3>1 DEF Extend
      <3>3. dset' \in {dset, e, f}
        BY <1>8 DEF AppendNext
      <3> HIDE DEF e
      <3>4. f.kind = e.kind
        BY <3>2, WrittenKind
      <3> HIDE DEF f
      <3>5. QED
        BY <3>1, <3>2, <3>3, <3>4
    <2>5. AttributesOK'
      <3>1. dset'.kind # "none"
        BY <2>2, <2>3, <2>4
      <3>2. QED
        BY <1>1, <1>8, <3>1 DEF AttributesOK, AttributesUpTo
    <2>6. DomainOK(given)'
      <3>1. SUFFICES ASSUME given # NoDomain PROVE Given(given) /\ Covers(given, dset')
        BY <1>8, <2>1 DEF DomainOK, Covers
      <3>2. Given(given) /\ Covers(given, dset)
        BY <3>1 DEF DomainInv, DomainOK
      <3>3. CASE dset.kind # "unlimited"
        BY <2>3, <3>2, <3>3
      <3>4. CASE dset.kind = "unlimited"
        <4>1. given.class # "Grid"
          BY <2>1, <3>2, <3>4 DEF Covers
        <4>2. QED
          BY <3>2, <4>1 DEF Covers
      <3>5. QED
        BY <3>3, <3>4
    <2>7. DomainOK(annotating)'
      <3>1. annotating' # NoDomain => Given(annotating') /\ Covers(annotating', dset')
        BY <1>5, <1>6
      <3>2. QED
        BY <2>1, <3>1 DEF DomainOK, Covers
    <2>8. QED
      BY <2>5, <2>6, <2>7 DEF DomainInv
  <1>9. QED
    BY <1>7, <1>8 DEF AppendDomain

\* ParallelDomainCollector.cpp:62-98. All processes say the same.
LEMMA ParallelDomainStep ==
    ASSUME AnnotationAssumption, DataSetAssumption, DomainInv, DataInv', Fresh,
           NEW a \in program.domains, NEW call \in {"write", "reserve"},
           CollectiveCreate(call), Begins(a, Gather(local', 0).size)
    PROVE  DomainInv'
  <1> DEFINE size == Gather(local', 0).size
             d == Create(size, program.ndims, call = "reserve")
  <1>1. /\ program' = program /\ program.parallel /\ ~GatherRefused /\ local' \in Layouts
        /\ last'.end = "returned" => dset' = d
    <2>1. CASE dset' = d
      BY <2>1 DEF CollectiveCreate
    <2>2. CASE Called(call, "failed")
      BY <2>2 DEF CollectiveCreate, Called
    <2>3. QED
      BY <2>1, <2>2 DEF CollectiveCreate
  <1>2. program \in Programs
    BY DEF DomainInv, DataInv, BasicsOK
  <1>3. size \in Nat \X Nat \X Nat
    BY <1>1, <1>2, WholeFacts DEF Knows
  <1>4. Begins(a, size)
    OBVIOUS
  <1> HIDE DEF size
  <1>5. d.kind # "none"
    BY DEF Create
  <1> HIDE DEF d
  <1>6. \/ annotating' = NoDomain
        \/ last'.end = "returned" /\ Given(annotating')
    BY <1>2, <1>3, <1>4, BeginsFacts
  <1>7. Covers(annotating', dset')
    BY <1>1 DEF Covers
  <1>8. QED
    BY <1>1, <1>5, <1>6, <1>7, FreshStep

LEMMA CreatedFacts ==
    ASSUME NEW old, NEW created
    PROVE  DOMAIN WithCreated(old, created) = DOMAIN old \union created
  BY DEF WithCreated, Updated

\* DomainCollector.cpp:91-116. However many of the attributes are written, the
\* one that is written last has its value only if a call got that far.
LEMMA AttributesFailStep ==
    ASSUME NEW m \in 0..5, AttributesUpTo(m), NEW n \in 0..5, AttributesFail(n)
    PROVE  (\E k \in 0..5 : AttributesUpTo(k))' /\ torn' \in BOOLEAN /\ given' = given
  <1> DEFINE done == WithAttributes(attrs, annotating, n)
  <1>1. PICK created \in SUBSET (NameAt(n + 1) \ DOMAIN done) :
            /\ attrs' = WithCreated(done, created)
            /\ unwritten' = (unwritten \ NamesUpTo(n)) \union created
            /\ torn' = (torn \/ n > 0) /\ given' = given
    BY DEF AttributesFail
  <1>2. /\ DOMAIN attrs = NamesUpTo(m) /\ unwritten \subseteq NameAt(m)
        /\ given # NoDomain => m = 5 /\ unwritten = {}
    BY DEF AttributesUpTo
  <1>3. /\ m <= n => DOMAIN done = NamesUpTo(n)
        /\ n <= m => DOMAIN done = NamesUpTo(m)
    BY <1>2, AttributesWritten
  <1> HIDE DEF done
  <1>4. DOMAIN attrs' = DOMAIN done \union created
    BY <1>1, CreatedFacts
  <1>5. torn' \in BOOLEAN
    BY <1>1
  <1>6. CASE n < m
    <2>1. NameAt(n + 1) \subseteq NamesUpTo(m)
      <3>1. n + 1 \in 0..5 /\ n + 1 <= m
        BY ONLY <1>6, m \in 0..5, n \in 0..5
      <3>2. NameAt(n + 1) \subseteq NamesUpTo(n + 1) /\ NamesUpTo(n + 1) \subseteq NamesUpTo(m)
        BY <3>1, NamesFacts
      <3>3. QED
        BY ONLY <3>2
    <2>2. DOMAIN done = NamesUpTo(m)
      BY <1>3, <1>6
    <2>3. created = {}
      BY <1>1, <2>1, <2>2
    <2>4. AttributesUpTo(m)'
      BY <1>1, <1>2, <1>4, <2>2, <2>3 DEF AttributesUpTo
    <2>5. QED
      BY <1>1, <1>5, <2>4
  <1>7. CASE m <= n
    <2>1. DOMAIN done = NamesUpTo(n)
      BY <1>3, <1>7
    <2>2. unwritten' = created
      <3>1. NameAt(m) \subseteq NamesUpTo(m) /\ NamesUpTo(m) \subseteq NamesUpTo(n)
        BY <1>7, NamesFacts
      <3>2. QED
        BY ONLY <1>1, <1>2, <3>1
    <2>3. given' # NoDomain => n = 5
      BY <1>1, <1>2, <1>7
    <2>4. n = 5 => created = {}
      BY <1>1, NamesFacts
    <2>5. CASE created = {}
      <3>1. AttributesUpTo(n)'
        BY <1>4, <2>1, <2>2, <2>3, <2>5 DEF AttributesUpTo
      <3>2. QED
        BY <1>1, <1>5, <3>1
    <2>6. CASE created # {}
      <3>1. n \in 0..4
        BY <2>4, <2>6
      <3>2. n + 1 \in 0..5 /\ NamesUpTo(n) \union NameAt(n + 1) = NamesUpTo(n + 1)
        BY <3>1, NamesFacts
      <3>3. created = NameAt(n + 1)
        <4>1. NameAt(n + 1) = {Names[n + 1]}
          <5>1. n + 1 \in 1..5
            BY ONLY <3>1
          <5>2. QED
            BY <5>1, NamesFacts
        <4>2. QED
          BY <1>1, <2>6, <4>1
      <3>4. given' = NoDomain
        BY <2>3, <3>1
      <3>5. DOMAIN attrs' = NamesUpTo(n + 1)
        BY ONLY <1>4, <2>1, <3>2, <3>3
      <3>6. AttributesUpTo(n + 1)'
        BY ONLY <2>2, <3>3, <3>4, <3>5 DEF AttributesUpTo
      <3>7. QED
        BY <1>1, <1>5, <3>2, <3>6
    <2>7. QED
      BY <2>5, <2>6
  <1>8. QED
    BY <1>6, <1>7

\* A call that fails with its first attribute changes none that there is.
LEMMA NothingWritten ==
    ASSUME NEW d, attrs = Values(d), AttributesFail(0)
    PROVE  attrs' = attrs
  <1> DEFINE done == WithAttributes(attrs, annotating, 0)
             new == [a \in NamesUpTo(0) |-> Values(annotating)[a]]
             none == [a \in {} |-> NoValue(a)]
  <1>1. PICK created \in SUBSET (NameAt(0 + 1) \ DOMAIN done) : attrs' = WithCreated(done, created)
    BY DEF AttributesFail
  <1>2. attrs = [x \in NamesUpTo(5) |-> attrs[x]]
    BY ValuesFacts
  <1>3. done = attrs
    <2>1. DOMAIN new = {}
      BY NamesFacts
    <2>2. done = [x \in DOMAIN attrs \union DOMAIN new |->
                    IF x \in DOMAIN new THEN new[x] ELSE attrs[x]]
      BY DEF WithAttributes, Updated
    <2> HIDE DEF new, done
    <2>3. QED
      BY <1>2, <2>1, <2>2
  <1>4. created = {}
    <2>1. NameAt(0 + 1) \subseteq NamesUpTo(5)
      <3>1. 1 \in 0..5 /\ 5 \in 0..5 /\ 1 <= 5 /\ 0 + 1 = 1
        OBVIOUS
      <3>2. NameAt(1) \subseteq NamesUpTo(1) /\ NamesUpTo(1) \subseteq NamesUpTo(5)
        BY <3>1, NamesFacts
      <3>3. QED
        BY ONLY <3>1, <3>2
    <2>2. DOMAIN done = NamesUpTo(5)
      BY <1>2, <1>3
    <2>3. QED
      BY <1>1, <2>1, <2>2
  <1>5. attrs' = WithCreated(attrs, {})
    BY ONLY <1>1, <1>3, <1>4
  <1>6. WithCreated(attrs, {}) = [x \in DOMAIN attrs \union DOMAIN none |->
                                    IF x \in DOMAIN none THEN none[x] ELSE attrs[x]]
    BY DEF WithCreated, Updated
  <1>7. DOMAIN none = {}
    OBVIOUS
  <1> HIDE DEF none
  <1>8. QED
    BY <1>2, <1>5, <1>6, <1>7

LEMMA AttributesStep ==
    ASSUME DataSetAssumption, DomainInv, DataInv', WriteDomainAttributes
    PROVE  DomainInv'
  <1> DEFINE w == WithAttributes(attrs, annotating, 5)
  <1>1. /\ annotating # NoDomain /\ annotating' = NoDomain
        /\ program' = program /\ dset' = dset
    BY DEF WriteDomainAttributes, vars
  <1>2. Given(annotating) /\ Covers(annotating, dset) /\ dset.kind # "none"
    BY <1>1 DEF DomainInv, DomainOK, AttributesOK
  <1>3. PICK m \in 0..5 : AttributesUpTo(m)
    BY DEF DomainInv, AttributesOK
  <1>4. DomainOK(annotating)'
    BY <1>1 DEF DomainOK
  <1>5. CASE attrs' = w /\ unwritten' = {} /\ given' = annotating /\ torn' = FALSE
    <2>1. DOMAIN attrs' = NamesUpTo(5) /\ attrs' = Values(annotating)
      <3>1. DOMAIN w = NamesUpTo(5) /\ w = Values(annotating)
        BY <1>3, AttributesWritten DEF AttributesUpTo
      <3>2. QED
        BY ONLY <1>5, <3>1
    <2>2. AttributesUpTo(5)'
      BY ONLY <1>5, <2>1 DEF AttributesUpTo
    <2>3. AttributesOK'
      <3>1. 5 \in 0..5
        OBVIOUS
      <3>2. QED
        BY <1>1, <1>2, <1>5, <2>1, <2>2, <3>1 DEF AttributesOK
    <2>4. DomainOK(given)'
      BY <1>1, <1>2, <1>5 DEF DomainOK, Covers
    <2>5. QED
      BY <1>4, <2>3, <2>4 DEF DomainInv
  <1>6. CASE \E n \in 0..5 : AttributesFail(n)
    <2>1. PICK n \in 0..5 : AttributesFail(n)
      BY <1>6
    <2>2. (\E k \in 0..5 : AttributesUpTo(k))' /\ torn' \in BOOLEAN /\ given' = given
      BY <1>3, <2>1, AttributesFailStep
    <2>3. AttributesOK'
      <3>1. torn' = (torn \/ n > 0)
        BY <2>1 DEF AttributesFail
      <3>2. given' # NoDomain /\ ~torn' => attrs' = Values(given')
        <4>1. SUFFICES ASSUME given' # NoDomain, ~torn' PROVE attrs' = Values(given')
          OBVIOUS
        <4>2. given # NoDomain /\ ~torn /\ ~(n > 0) /\ given' = given
          BY <2>2, <3>1, <4>1
        <4>3. n = 0
          BY ONLY <4>2, n \in 0..5
        <4>4. attrs = Values(given)
          BY <4>2 DEF DomainInv, AttributesOK
        <4>5. attrs' = attrs
          BY <2>1, <4>3, <4>4, NothingWritten
        <4>6. QED
          BY ONLY <4>2, <4>4, <4>5
      <3>3. QED
        BY <1>1, <1>2, <2>2, <3>2 DEF AttributesOK
    <2>4. DomainOK(given)'
      BY <1>1, <2>2 DEF DomainInv, DomainOK, Covers
    <2>5. QED
      BY <1>4, <2>3, <2>4 DEF DomainInv
  <1>7. Len(Names) = 5
    BY NamesFacts
  <1> HIDE DEF w
  <1>8. \/ attrs' = w /\ unwritten' = {} /\ given' = annotating /\ torn' = FALSE
        \/ \E n \in 0..5 : AttributesFail(n)
    BY <1>7 DEF WriteDomainAttributes, w
  <1>9. QED
    BY <1>5, <1>6, <1>8

LEMMA UnchangedStep ==
    ASSUME DomainInv, DataInv', program' = program, UNCHANGED domainVars,
           dset'.kind = dset.kind, program.parallel \/ dset' = dset
    PROVE  DomainInv'
  <1>1. /\ attrs' = attrs /\ annotating' = annotating /\ given' = given /\ torn' = torn
        /\ unwritten' = unwritten
    BY DEF domainVars
  <1>2. AttributesOK'
    BY <1>1 DEF DomainInv, AttributesOK, AttributesUpTo
  <1>3. DomainOK(annotating)' /\ DomainOK(given)'
    BY <1>1 DEF DomainInv, DomainOK, Covers
  <1>4. QED
    BY <1>2, <1>3 DEF DomainInv

LEMMA TransferKind ==
    ASSUME DataInv, NEW r \in Ranks, Transfer(r)
    PROVE  program' = program /\ program.parallel /\ dset'.kind = dset.kind
  <1> DEFINE after == Write(dset, Whole(local[r]), Gather(local, r).offset, r)
  <1>1. program' = program /\ r \in pending /\ dset' \in {dset, after}
    BY DEF Transfer
  <1>2. program.parallel
    BY <1>1 DEF DataInv, Alone, BasicsOK, DataSetAssumption
  <1>3. "kind" \in DOMAIN dset
    BY DEF DataInv, DatasetOK, NoDataset, Extent
  <1>4. after.kind = dset.kind
    BY <1>3, WrittenKind
  <1> HIDE DEF after
  <1>5. QED
    BY <1>1, <1>2, <1>4

\* Every step of a dataset with its domain is one of a dataset, or leaves it alone.
LEMMA DomainStepIsStep ==
    ASSUME [DomainNext]_<<vars, domainVars>>
    PROVE  [Next]_vars
  <1>1. CASE \E a \in program.domains : \E s \in program.selections : WriteDomain(s, a)
    BY <1>1 DEF WriteDomain, Next
  <1>2. CASE \E a \in program.domains : \E x \in program.appends : AppendDomain(x, a)
    BY <1>2 DEF AppendDomain, Next
  <1>3. CASE \E a \in program.domains : ParallelWriteDomain(a)
    BY <1>3 DEF ParallelWriteDomain, Next
  <1>4. CASE \E a \in program.domains : ReserveDomain(a)
    BY <1>4 DEF ReserveDomain, Next
  <1>5. CASE WriteDomainAttributes
    BY <1>5 DEF WriteDomainAttributes
  <1>6. CASE RemoveDomain
    BY <1>6 DEF RemoveDomain, Next
  <1>7. CASE CollectiveRefused \/ \E r \in Ranks : Transfer(r)
    BY <1>7 DEF Next
  <1>8. CASE UNCHANGED <<vars, domainVars>>
    BY <1>8
  <1>9. QED
    BY <1>1, <1>2, <1>3, <1>4, <1>5, <1>6, <1>7, <1>8 DEF DomainNext

LEMMA DomainStep ==
    ASSUME AnnotationAssumption, DataSetAssumption, DomainInv,
           [DomainNext]_<<vars, domainVars>>
    PROVE  DomainInv'
  <1>1. DataInv'
    BY DomainStepIsStep, DataStep DEF DomainInv
  <1>2. CASE \E a \in program.domains : \E s \in program.selections : WriteDomain(s, a)
    BY <1>1, <1>2, WriteDomainStep
  <1>3. CASE \E a \in program.domains : \E x \in program.appends : AppendDomain(x, a)
    BY <1>1, <1>3, AppendDomainStep
  <1>4. CASE \E a \in program.domains : ParallelWriteDomain(a)
    <2>1. PICK a \in program.domains : ParallelWriteDomain(a)
      BY <1>4
    <2>2. CollectiveCreate("write") /\ Begins(a, Gather(local', 0).size) /\ Fresh
      BY <2>1 DEF ParallelWriteDomain, CollectiveWrite
    <2>3. QED
      BY <1>1, <2>2, ParallelDomainStep
  <1>5. CASE \E a \in program.domains : ReserveDomain(a)
    <2>1. PICK a \in program.domains : ReserveDomain(a)
      BY <1>5
    <2>2. CollectiveCreate("reserve") /\ Begins(a, Gather(local', 0).size) /\ Fresh
      BY <2>1 DEF ReserveDomain, Reserve
    <2>3. QED
      BY <1>1, <2>2, ParallelDomainStep
  <1>6. CASE WriteDomainAttributes
    BY <1>1, <1>6, AttributesStep
  <1>7. CASE RemoveDomain
    <2>1. program' = program /\ annotating' = NoDomain /\ Fresh
      BY <1>7 DEF RemoveDomain, RemoveDataset
    <2>2. QED
      BY <1>1, <2>1, FreshStep
  <1>8. CASE CollectiveRefused /\ UNCHANGED domainVars
    <2>1. program' = program /\ dset' = dset
      BY <1>8 DEF CollectiveRefused
    <2>2. QED
      BY <1>1, <1>8, <2>1, UnchangedStep
  <1>9. CASE (\E r \in Ranks : Transfer(r)) /\ UNCHANGED domainVars
    <2>1. program' = program /\ program.parallel /\ dset'.kind = dset.kind
      BY <1>9, TransferKind DEF DomainInv
    <2>2. QED
      BY <1>1, <1>9, <2>1, UnchangedStep
  <1>10. CASE UNCHANGED <<vars, domainVars>>
    <2>1. program' = program /\ dset' = dset /\ UNCHANGED domainVars
      BY <1>10 DEF vars
    <2>2. QED
      BY <1>1, <2>1, UnchangedStep
  <1>11. QED
    BY <1>2, <1>3, <1>4, <1>5, <1>6, <1>7, <1>8, <1>9, <1>10 DEF DomainNext

LEMMA DomainInitHolds ==
    ASSUME DataSetAssumption, DomainInit
    PROVE  DomainInv
  <1>1. /\ Init /\ attrs = << >> /\ unwritten = {}
        /\ annotating = NoDomain /\ given = NoDomain /\ torn = FALSE
    BY DEF DomainInit
  <1>2. DataInv
    BY <1>1, InitData
  <1>3. 0 \in 0..5 /\ AttributesUpTo(0)
    <2>1. DOMAIN attrs = {} /\ NamesUpTo(0) = {}
      BY <1>1, NamesFacts
    <2>2. QED
      BY <1>1, <2>1 DEF AttributesUpTo
  <1>4. AttributesOK /\ DomainOK(annotating) /\ DomainOK(given)
    BY <1>1, <1>3 DEF AttributesOK, DomainOK
  <1>5. QED
    BY <1>2, <1>4 DEF DomainInv

\* DomainCollector.cpp:91-116: the invariant of a dataset with its domain.
THEOREM DomainInvariant == DomainSpec => []DomainInv
  <1>1. DomainInit => DomainInv
    BY DataSetAssumption, DomainInitHolds
  <1>2. DomainInv /\ [DomainNext]_<<vars, domainVars>> => DomainInv'
    BY AnnotationAssumption, DataSetAssumption, DomainStep
  <1>3. QED
    BY <1>1, <1>2, PTL DEF DomainSpec

\* The collectors of domains write datasets as the plain collectors do: what holds
\* of those holds of theirs.
THEOREM DomainsAreDatasets == DomainSpec => Spec
  <1>1. DomainInit => Init
    BY DEF DomainInit
  <1>2. [DomainNext]_<<vars, domainVars>> => [Next]_vars
    BY DomainStepIsStep
  <1>3. QED
    BY <1>1, <1>2, PTL DEF Spec, DomainSpec

\* What is proved of datasets for those of the collectors of domains.
THEOREM DomainsKeepData == DomainSpec => [](PartsTile /\ ContentsExact /\ ChunksFit)
  BY DomainsAreDatasets, PartsTileExactly, ContentsStayExact, ChunksAlwaysFit, PTL

\* DomainCollector keeps its state in these sets, and no dataset has attributes
\* before it exists.
THEOREM AttributesTypeCorrect == DomainSpec => []AttributesTypeOK
  <1>1. DomainInv => (TypeOK => AttributesTypeOK)
    <2>1. SUFFICES ASSUME DomainInv, TypeOK PROVE AttributesTypeOK
      OBVIOUS
    <2>2. AttributesOK
      BY <2>1 DEF DomainInv
    <2>3. PICK n \in 0..5 : AttributesUpTo(n)
      BY <2>2 DEF AttributesOK
    <2>4. n \in 0..Len(Names) /\ DOMAIN attrs = NamesUpTo(n)
      BY <2>3, NamesFacts DEF AttributesUpTo
    <2>5. NamesUpTo(5) = {Names[i] : i \in DOMAIN Names}
      BY NamesFacts
    <2>6. given # NoDomain => DOMAIN attrs = {Names[i] : i \in DOMAIN Names}
      BY ONLY <2>3, <2>5 DEF AttributesUpTo
    <2>7. unwritten \subseteq DOMAIN attrs
      BY <2>3, NamesFacts DEF AttributesUpTo
    <2>8. QED
      BY <2>1, <2>2, <2>4, <2>6, <2>7 DEF AttributesTypeOK, AttributesOK
  <1>2. QED
    BY <1>1, DomainsAreDatasets, DatasetTypeCorrect, DomainInvariant, PTL

\* DomainCollector.cpp:91-116, ParallelDomainCollector.cpp:46-60: the dataset has
\* the domain of the last call that has written all of it, whatever the ones that
\* failed before have left behind.
THEOREM DomainIsWritten == DomainSpec => []DomainIsGiven
  <1>1. DomainInv => DomainIsGiven
    <2>1. SUFFICES ASSUME DomainInv, Annotated PROVE DomainIsGiven
      BY DEF DomainIsGiven
    <2>2. attrs = Values(given) /\ Given(given)
      BY <2>1 DEF DomainInv, AttributesOK, DomainOK, Annotated
    <2>3. /\ DOMAIN attrs = {"_class", "_size", "_start", "_global_size", "_global_start"}
          /\ attrs["_class"] = given.class
          /\ attrs["_size"] = given.local.size /\ attrs["_start"] = given.local.offset
          /\ attrs["_global_size"] = given.global.size
          /\ attrs["_global_start"] = given.global.offset
      <3>1. DOMAIN Values(given) = {"_class", "_size", "_start", "_global_size", "_global_start"}
        BY ValuesFacts, NamesFacts
      <3>2. QED
        BY <2>2, <3>1, ValuesFacts
    <2>4. GetLocalDomain = given.local
      <3>1. given.local = [offset |-> given.local.offset, size |-> given.local.size]
        BY <2>2 DEF Given
      <3>2. QED
        BY ONLY <2>3, <3>1 DEF GetLocalDomain
    <2>5. GetGlobalDomain = given.global
      <3>1. given.global = [offset |-> given.global.offset, size |-> given.global.size]
        BY <2>2 DEF Given
      <3>2. QED
        BY ONLY <2>3, <3>1 DEF GetGlobalDomain
    <2>6. GlobalDomainKnown
      BY ONLY <2>3 DEF GlobalDomainKnown
    <2>7. QED
      BY <2>3, <2>4, <2>5, <2>6 DEF DomainIsGiven
  <1>2. QED
    BY <1>1, DomainInvariant, PTL

\* DCAttribute.cpp:76-83, DomainCollector.cpp:369-387, ParallelDomainCollector.cpp:
\* 113-124: readDomain() never goes by attributes whose value was not written, but
\* for the last one of calls that all have failed.
THEOREM HalfWrittenIsNotRead == DomainSpec => []HalfWrittenNotRead
  <1>1. DomainInv => HalfWrittenNotRead
    <2>1. SUFFICES ASSUME DomainInv, Readable
                   PROVE  unwritten \subseteq
                            (IF given = NoDomain THEN {"_global_start"} ELSE {})
      BY DEF HalfWrittenNotRead
    <2>2. PICK n \in 0..5 : AttributesUpTo(n)
      BY <2>1 DEF DomainInv, AttributesOK
    <2>3. "_global_start" \in NamesUpTo(n)
      <3>1. "_global_start" \in Needed
        BY NamesFacts DEF Needed
      <3>2. QED
        BY <2>1, <2>2, <3>1 DEF Readable, AttributesUpTo
    <2>4. n = 5
      <3>1. n \notin 0..4
        BY <2>3, NamesFacts
      <3>2. QED
        BY ONLY <3>1, n \in 0..5
    <2>5. unwritten \subseteq {"_global_start"} /\ (given # NoDomain => unwritten = {})
      BY <2>2, <2>4, NamesFacts DEF AttributesUpTo
    <2>6. QED
      BY ONLY <2>5
  <1>2. QED
    BY <1>1, DomainInvariant, PTL

\* Along one axis a request for z from o meets data of s from c: k elements of it,
\* from f on, go to d in the buffer, and these are all that lie in both.
Met(o, z, c, s, d, f, k) ==
    /\ d \in Nat /\ f \in Nat /\ k \in Nat \ {0}
    /\ d + k <= z /\ f + k <= s /\ c + f = o + d
    /\ \A q \in 0..z - 1 : d <= q /\ q < d + k <=> c <= o + q /\ o + q < c + s

LEMMA MetAxis ==
    ASSUME NEW o \in Nat, NEW c \in Nat, NEW z \in Nat \ {0}, NEW s \in Nat \ {0},
           o < c + s, c < o + z,
           NEW f, f = IF o <= c THEN 0 ELSE o - c
    PROVE  Met(o, z, c, s, IF c > o THEN c - o ELSE 0, f,
               IF o + z >= c + s THEN s - f ELSE o + z - (c + f))
  <1>1. CASE o <= c
    BY ONLY <1>1, o \in Nat, c \in Nat, z \in Nat \ {0}, s \in Nat \ {0},
            o < c + s, c < o + z, f = IF o <= c THEN 0 ELSE o - c DEF Met
  <1>2. CASE ~(o <= c)
    BY ONLY <1>2, o \in Nat, c \in Nat, z \in Nat \ {0}, s \in Nat \ {0},
            o < c + s, c < o + z, f = IF o <= c THEN 0 ELSE o - c DEF Met
  <1>3. QED
    BY <1>1, <1>2

\* A request that readDomain() may be called with: it wants something along each
\* axis, and the one place there is along those the data does not have.
Wants(request, n, client) ==
    /\ request.offset \in Nat \X Nat \X Nat
    /\ request.size \in Positive \X Positive \X Positive
    /\ \A i \in Dim : i > n => request.offset[i] = client.offset[i] /\ request.size[i] = 1

\* Where place q of the buffer of a request lies in the data.
Shifted(o, q, c) == [i \in Dim |-> o[i] + q[i] - c[i]]

\* What a read of a dataset brings to place q of the buffer.
Brings(data, z, d, k, f, s, q, p) ==
    Read(data, z, d, k, f)[SwapDims(q, data.ndims)] =
      IF Within(p, Zero, s) THEN data.cells[SwapDims(p, data.ndims)] ELSE Fill

\* DCDataSet.cpp:246-340. A read brings the elements that are in the request and in
\* the data to their places in the buffer, and nothing to the others.
LEMMA ReadFacts ==
    ASSUME NEW data, data.ndims \in 1..3,
           NEW o \in Nat \X Nat \X Nat, NEW z \in Nat \X Nat \X Nat,
           NEW c \in Nat \X Nat \X Nat, NEW s \in Nat \X Nat \X Nat,
           NEW d \in Nat \X Nat \X Nat, NEW f \in Nat \X Nat \X Nat,
           NEW k \in Nat \X Nat \X Nat,
           \A i \in Dim : Met(o[i], z[i], c[i], s[i], d[i], f[i], k[i]),
           NEW q \in Box(z), NEW p, p = Shifted(o, q, c)
    PROVE  Brings(data, z, d, k, f, s, q, p)
  <1> DEFINE n == data.ndims
             sw(v) == SwapDims(v, n)
             x(r) == [i \in Dim |-> sw(f)[i] + r[i] - sw(d)[i]]
  <1>1. /\ Triple(o) /\ Triple(z) /\ Triple(c) /\ Triple(s) /\ Triple(d) /\ Triple(f)
        /\ Triple(k)
        /\ \A i \in Dim : /\ o[i] \in Nat /\ z[i] \in Nat /\ c[i] \in Nat /\ s[i] \in Nat
                          /\ d[i] \in Nat /\ f[i] \in Nat /\ k[i] \in Nat
    BY VectorFacts
  <1>2. Triple(q) /\ \A i \in Dim : q[i] \in Nat /\ q[i] < z[i]
    BY BoxFacts
  <1>3. Triple(p) /\ \A i \in Dim : p[i] = o[i] + q[i] - c[i]
    <2>1. p = [i \in Dim |-> p[i]] /\ \A i \in Dim : p[i] = o[i] + q[i] - c[i]
      BY ONLY p = Shifted(o, q, c) DEF Shifted
    <2>2. Triple(p)
      BY ONLY <2>1, TripleOf DEF Triple
    <2>3. QED
      BY ONLY <2>1, <2>2
  <1>4. n \in 1..3
    OBVIOUS
  <1>5. Read(data, z, d, k, f) =
          [r \in Box(sw(z)) |-> IF Within(r, sw(d), sw(k)) THEN data.cells[x(r)] ELSE Fill]
    BY DEF Read
  <1> HIDE DEF n
  <1>6. sw(q) \in Box(sw(z))
    BY <1>4, SwapBox
  <1>7. Within(sw(q), sw(d), sw(k)) <=> Within(q, d, k)
    BY <1>1, <1>2, <1>4, SwapWithin
  <1>8. Within(q, d, k) <=> Within(p, Zero, s)
    <2>1. ASSUME NEW i \in Dim
          PROVE  (d[i] <= q[i] /\ q[i] < d[i] + k[i]) <=>
                   (Zero[i] <= p[i] /\ p[i] < Zero[i] + s[i])
      <3>1. /\ o[i] \in Nat /\ c[i] \in Nat /\ s[i] \in Nat /\ q[i] \in Nat
            /\ z[i] \in Nat /\ q[i] < z[i] /\ p[i] = o[i] + q[i] - c[i]
            /\ Met(o[i], z[i], c[i], s[i], d[i], f[i], k[i])
        BY <1>1, <1>2, <1>3
      <3>2. Zero[i] = 0
        BY DEF Zero, Dim
      <3>3. q[i] \in 0..z[i] - 1
        BY ONLY <3>1
      <3>4. (d[i] <= q[i] /\ q[i] < d[i] + k[i]) <=>
              (c[i] <= o[i] + q[i] /\ o[i] + q[i] < c[i] + s[i])
        BY ONLY <3>1, <3>3 DEF Met
      <3>5. QED
        BY ONLY <3>1, <3>2, <3>4
    <2>2. QED
      BY <2>1 DEF Within
  <1>9. x(sw(q)) = sw(p)
    <2>1. /\ \A i \in Dim : Axis(n, i) \in Dim
          /\ Triple(sw(p))
          /\ \A i \in Dim : /\ sw(p)[i] = p[Axis(n, i)] /\ sw(q)[i] = q[Axis(n, i)]
                            /\ sw(d)[i] = d[Axis(n, i)] /\ sw(f)[i] = f[Axis(n, i)]
      BY <1>1, <1>2, <1>3, <1>4, SwapFacts, AxisSwaps
    <2>2. ASSUME NEW i \in Dim PROVE f[i] + q[i] - d[i] = p[i]
      <3>1. /\ o[i] \in Nat /\ c[i] \in Nat /\ q[i] \in Nat /\ d[i] \in Nat /\ f[i] \in Nat
            /\ p[i] = o[i] + q[i] - c[i] /\ c[i] + f[i] = o[i] + d[i]
        BY <1>1, <1>2, <1>3 DEF Met
      <3>2. QED
        BY ONLY <3>1
    <2>3. \A i \in Dim : sw(f)[i] + sw(q)[i] - sw(d)[i] = sw(p)[i]
      BY ONLY <2>1, <2>2
    <2> DEFINE y == sw(p)
               u == x(sw(q))
    <2>4. u = [i \in Dim |-> y[i]]
      BY ONLY <2>3
    <2>5. y = [i \in Dim |-> y[i]]
      BY <2>1, VectorFacts
    <2>6. QED
      BY ONLY <2>4, <2>5
  <1> HIDE DEF sw, x
  <1>10. Read(data, z, d, k, f)[sw(q)] =
           IF Within(p, Zero, s) THEN data.cells[sw(p)] ELSE Fill
    <2>1. Read(data, z, d, k, f)[sw(q)] =
            IF Within(sw(q), sw(d), sw(k)) THEN data.cells[x(sw(q))] ELSE Fill
      BY ONLY <1>5, <1>6
    <2>2. QED
      BY ONLY <1>7, <1>8, <1>9, <2>1
  <1>11. QED
    BY <1>10 DEF sw, n, Brings

\* What is read for a request that meets the data, along the axes it has and does
\* not have.
LEMMA ArgsFacts ==
    ASSUME dset.ndims \in 1..3, NEW client, client = ClientDomain,
           client.offset \in Nat \X Nat \X Nat,
           client.size \in Positive \X Positive \X Positive,
           \A i \in Dim : i > dset.ndims => client.size[i] = 1,
           NEW request, Wants(request, dset.ndims, client), Intersect(request, client),
           NEW args, args = PieceArgs(request)
    PROVE  /\ args.dst \in Nat \X Nat \X Nat /\ args.src \in Nat \X Nat \X Nat
           /\ args.size \in Nat \X Nat \X Nat
           /\ \A i \in Dim : Met(request.offset[i], request.size[i], client.offset[i],
                                 client.size[i], args.dst[i], args.src[i], args.size[i])
  <1> DEFINE n == dset.ndims
             o(i) == request.offset[i]
             z(i) == request.size[i]
             c(i) == client.offset[i]
             s(i) == client.size[i]
             F(i) == IF o(i) <= c(i) THEN 0 ELSE o(i) - c(i)
             D(i) == IF c(i) > o(i) THEN c(i) - o(i) ELSE 0
             K(i) == IF o(i) + z(i) >= c(i) + s(i) THEN s(i) - F(i)
                     ELSE o(i) + z(i) - (c(i) + F(i))
             piece == Piece(request, client)
  <1>1. \A i \in Dim : /\ o(i) \in Nat /\ z(i) \in Nat \ {0} /\ c(i) \in Nat /\ s(i) \in Nat \ {0}
                       /\ o(i) < c(i) + s(i) /\ c(i) < o(i) + z(i)
    BY VectorFacts DEF Wants, Intersect, Positive
  <1>2. \A i \in Dim : n < i => o(i) = c(i) /\ z(i) = 1 /\ s(i) = 1
    BY DEF Wants
  <1>3. \A i \in Dim : /\ piece[i]["dst"] = D(i) /\ piece[i]["src"] = F(i)
                       /\ piece[i]["size"] = K(i)
    <2>1. SUFFICES ASSUME NEW i \in Dim
                   PROVE  /\ piece[i]["dst"] = D(i) /\ piece[i]["src"] = F(i)
                          /\ piece[i]["size"] = K(i)
      OBVIOUS
    <2>2. piece[i]["dst"] = D(i)
      BY ONLY i \in Dim DEF Piece
    <2>3. piece[i]["src"] = F(i)
      BY ONLY i \in Dim DEF Piece
    <2>4. piece[i]["size"] = K(i)
      <3>1. o(i) \in Nat /\ z(i) \in Nat /\ c(i) \in Nat /\ s(i) \in Nat
        BY <1>1
      <3>2. CASE o(i) <= c(i)
        BY ONLY <3>1, <3>2, i \in Dim DEF Piece
      <3>3. CASE ~(o(i) <= c(i))
        BY ONLY <3>1, <3>3, i \in Dim DEF Piece
      <3>4. QED
        BY <3>2, <3>3
    <2>5. QED
      BY <2>2, <2>3, <2>4
  <1>4. args = [dst |-> [i \in Dim |-> IF i <= n THEN piece[i]["dst"] ELSE 0],
                src |-> [i \in Dim |-> IF i <= n THEN piece[i]["src"] ELSE 0],
                size |-> [i \in Dim |-> IF i <= n THEN piece[i]["size"] ELSE 1]]
    BY DEF PieceArgs
  <1>5. n \in Nat
    BY ONLY dset.ndims \in 1..3
  <1> HIDE DEF o, z, c, s, piece, n
  <1>6. \A i \in Dim : Met(o(i), z(i), c(i), s(i), D(i), F(i), K(i))
    BY ONLY <1>1, MetAxis
  <1>7. ASSUME NEW i \in Dim, ~(i <= n) PROVE D(i) = 0 /\ F(i) = 0 /\ K(i) = 1
    <2>1. i \in Nat
      BY DEF Dim
    <2>2. /\ o(i) = c(i) /\ z(i) = 1 /\ s(i) = 1 /\ c(i) \in Nat
      BY ONLY <1>1, <1>2, <1>5, <1>7, <2>1
    <2>3. QED
      BY ONLY <2>2
  <1> HIDE DEF D, F, K
  <1>9. /\ args.dst = [i \in Dim |-> IF i <= n THEN piece[i]["dst"] ELSE 0]
        /\ args.src = [i \in Dim |-> IF i <= n THEN piece[i]["src"] ELSE 0]
        /\ args.size = [i \in Dim |-> IF i <= n THEN piece[i]["size"] ELSE 1]
    BY ONLY <1>4
  <1>10. /\ args.dst = [i \in Dim |-> D(i)] /\ args.src = [i \in Dim |-> F(i)]
         /\ args.size = [i \in Dim |-> K(i)]
    BY ONLY <1>3, <1>7, <1>9
  <1>11. \A i \in Dim : D(i) \in Nat /\ F(i) \in Nat /\ K(i) \in Nat
    BY ONLY <1>6 DEF Met
  <1>12. /\ \A i \in Dim : args.dst[i] = D(i) /\ args.src[i] = F(i) /\ args.size[i] = K(i)
         /\ args.dst = [i \in Dim |-> args.dst[i]] /\ args.src = [i \in Dim |-> args.src[i]]
         /\ args.size = [i \in Dim |-> args.size[i]]
    BY ONLY <1>10
  <1>13. Triple(args.dst) /\ Triple(args.src) /\ Triple(args.size)
    BY <1>12, VectorFacts
  <1>14. /\ args.dst \in Nat \X Nat \X Nat /\ args.src \in Nat \X Nat \X Nat
         /\ args.size \in Nat \X Nat \X Nat
    <2>1. \A i \in Dim : args.dst[i] \in Nat /\ args.src[i] \in Nat /\ args.size[i] \in Nat
      BY ONLY <1>11, <1>12
    <2>2. args.dst \in Nat \X Nat \X Nat
      BY <1>13, <2>1, VectorFacts
    <2>3. args.src \in Nat \X Nat \X Nat
      BY <1>13, <2>1, VectorFacts
    <2>4. args.size \in Nat \X Nat \X Nat
      BY <1>13, <2>1, VectorFacts
    <2>5. QED
      BY ONLY <2>2, <2>3, <2>4
  <1>15. \A i \in Dim : Met(o(i), z(i), c(i), s(i), args.dst[i], args.src[i], args.size[i])
    BY ONLY <1>6, <1>12
  <1>16. QED
    BY <1>14, <1>15 DEF o, z, c, s

\* The requests the property speaks of are such requests, where data has elements
\* and one place along the axes it does not have.
LEMMA RequestsFacts ==
    ASSUME dset.ndims \in 1..3, NEW client, client = ClientDomain,
           client.offset \in Nat \X Nat \X Nat,
           client.size \in Positive \X Positive \X Positive,
           \A i \in Dim : i > dset.ndims => client.size[i] = 1,
           NEW request \in Requests
    PROVE  Wants(request, dset.ndims, client)
  <1> DEFINE n == dset.ndims
             b(i) == client.offset[i]
             s(i) == client.size[i]
             along(i) == IF i > n THEN {<<b(i), 1>>}
                         ELSE (0..b(i) + s(i)) \X (1..s(i) + 1)
             others(i) == {<<b(i), s(i)>>}
                          \union (IF s(i) > 1 THEN {<<b(i) + s(i) - 1, 1>>} ELSE {})
             ranges(k, i) == IF i = k THEN along(i) ELSE others(i)
             good(i, x) == /\ x[1] \in Nat /\ x[2] \in Positive
                           /\ i > n => x[1] = b(i) /\ x[2] = 1
  <1>1. \A i \in Dim : /\ b(i) \in Nat /\ s(i) \in Nat \ {0} /\ i \in Nat
                       /\ i > n => s(i) = 1
    <2>1. \A i \in Dim : i \in Nat
      BY DEF Dim
    <2>2. QED
      BY <2>1, VectorFacts DEF Positive
  <1>2. Requests = {[offset |-> [i \in Dim |-> e[i][1]], size |-> [i \in Dim |-> e[i][2]]] :
                      e \in UNION {ranges(k, 1) \X ranges(k, 2) \X ranges(k, 3) : k \in Dim}}
    BY DEF Requests
  <1>3. n \in Nat
    BY ONLY dset.ndims \in 1..3
  <1> HIDE DEF n, b, s
  <1>4. ASSUME NEW i \in Dim, NEW x \in along(i) PROVE good(i, x)
    <2>1. CASE i > n
      BY ONLY <1>1, <1>3, <2>1, x \in along(i), i \in Dim DEF Positive
    <2>2. CASE ~(i > n)
      BY ONLY <1>1, <1>3, <2>2, x \in along(i), i \in Dim DEF Positive
    <2>3. QED
      BY <2>1, <2>2
  <1>5. ASSUME NEW i \in Dim, NEW x \in others(i) PROVE good(i, x)
    <2>1. /\ b(i) \in Nat /\ s(i) \in Nat \ {0} /\ (i > n => s(i) = 1)
      BY <1>1
    <2>2. CASE x = <<b(i), s(i)>>
      BY ONLY <2>1, <2>2 DEF Positive
    <2>3. CASE s(i) > 1 /\ x = <<b(i) + s(i) - 1, 1>>
      BY ONLY <2>1, <2>3 DEF Positive
    <2>4. QED
      BY <2>2, <2>3
  <1>6. \A k \in Dim : \A i \in Dim : \A x \in ranges(k, i) : good(i, x)
    BY <1>4, <1>5
  <1> HIDE DEF along, others, ranges
  <1>7. PICK k \in Dim : \E e \in ranges(k, 1) \X ranges(k, 2) \X ranges(k, 3) :
             request = [offset |-> [i \in Dim |-> e[i][1]], size |-> [i \in Dim |-> e[i][2]]]
    BY <1>2
  <1>7a. PICK e \in ranges(k, 1) \X ranges(k, 2) \X ranges(k, 3) :
             request = [offset |-> [i \in Dim |-> e[i][1]], size |-> [i \in Dim |-> e[i][2]]]
    BY <1>7
  <1>8. \A i \in Dim : e[i] \in ranges(k, i)
    BY <1>7a DEF Dim
  <1>9. \A i \in Dim : good(i, e[i])
    BY <1>6, <1>8
  <1>10. /\ \A i \in Dim : request.offset[i] = e[i][1] /\ request.size[i] = e[i][2]
         /\ request.offset = [i \in Dim |-> request.offset[i]]
         /\ request.size = [i \in Dim |-> request.size[i]]
    BY ONLY <1>7a
  <1>11. Triple(request.offset) /\ Triple(request.size)
    BY <1>10, VectorFacts
  <1>12. \A i \in Dim : request.offset[i] \in Nat /\ request.size[i] \in Positive
    BY ONLY <1>9, <1>10
  <1>13. /\ request.offset \in Nat \X Nat \X Nat
         /\ request.size \in Positive \X Positive \X Positive
    BY <1>11, <1>12, VectorFacts
  <1>14. QED
    BY <1>9, <1>10, <1>13 DEF Wants, n, b

LEMMA AnnotatedFacts ==
    ASSUME DomainInv, Annotated, HasCells
    PROVE  /\ Readable /\ Given(given) /\ Covers(given, dset) /\ Extent(dset)
           /\ attrs["_class"] = given.class /\ attrs["_size"] = given.local.size
           /\ ClientDomain = [offset |-> Plus(given.local.offset, given.global.offset),
                              size |-> given.local.size]
           /\ ClientDomain.offset \in Nat \X Nat \X Nat
           /\ ClientDomain.size = given.local.size
           /\ LogicalSize(dset) = SwapDims(dset.size, dset.ndims)
           /\ LogicalSize(dset) \in Positive \X Positive \X Positive
           /\ \A i \in Dim : i > dset.ndims => LogicalSize(dset)[i] = 1
  <1>1. attrs = Values(given) /\ Given(given) /\ Covers(given, dset) /\ Extent(dset)
    BY DEF DomainInv, AttributesOK, DomainOK, Annotated, DataInv, DatasetOK, HasCells,
           NoDataset
  <1>2. /\ DOMAIN attrs = NamesUpTo(5)
        /\ attrs["_class"] = given.class
        /\ attrs["_size"] = given.local.size /\ attrs["_start"] = given.local.offset
        /\ attrs["_global_start"] = given.global.offset
    BY <1>1, ValuesFacts
  <1>3. Readable
    BY <1>2, NamesFacts DEF Readable, Needed
  <1>4. ClientDomain = [offset |-> Plus(given.local.offset, given.global.offset),
                        size |-> given.local.size]
    BY ONLY <1>2 DEF ClientDomain
  <1>5. /\ ClientDomain.offset = Plus(given.local.offset, given.global.offset)
        /\ ClientDomain.size = given.local.size
    BY ONLY <1>4
  <1>6. ClientDomain.offset \in Nat \X Nat \X Nat
    BY <1>1, <1>5, PlusFacts DEF Given
  <1>7. LogicalSize(dset) = SwapDims(dset.size, dset.ndims)
    BY <1>1 DEF LogicalSize, Extent
  <1>8. LogicalSize(dset) \in Positive \X Positive \X Positive
    BY <1>1, <1>7, SwapType DEF Extent
  <1>9. ASSUME NEW i \in Dim, i > dset.ndims PROVE LogicalSize(dset)[i] = 1
    <2>1. /\ dset.ndims \in 1..3 /\ Triple(dset.size)
          /\ \A j \in Dim : j > dset.ndims => dset.size[j] = 1
      BY <1>1, VectorFacts DEF Extent
    <2>2. LogicalSize(dset)[i] = dset.size[Axis(dset.ndims, i)]
      BY <1>7, <2>1, SwapFacts
    <2>3. Axis(dset.ndims, i) \in Dim /\ Axis(dset.ndims, i) > dset.ndims
      <3>1. dset.ndims = 1 \/ dset.ndims = 2 \/ dset.ndims = 3
        BY ONLY <2>1
      <3>2. i = 1 \/ i = 2 \/ i = 3
        BY DEF Dim
      <3>3. QED
        BY ONLY <1>9, <3>1, <3>2 DEF Axis, Dim
    <2>4. QED
      BY <2>1, <2>2, <2>3
  <1>10. QED
    BY <1>1, <1>2, <1>3, <1>4, <1>5, <1>6, <1>7, <1>8, <1>9

\* What stands in the dataset where something was stored is what was stored.
LEMMA StoredIsRead ==
    ASSUME DomainInv, NEW p \in DOMAIN expected
    PROVE  dset.cells[SwapDims(p, dset.ndims)] = expected[p]
  BY DEF DomainInv, DataInv, Holds

\* DomainCollector.cpp:403-411: data that has not the size of its domain.
LEMMA WrongSizeRefused ==
    ASSUME DomainInv, Annotated, HasCells,
           given.class = "Grid", LogicalSize(dset) # given.local.size,
           NEW request, Found(request)
    PROVE  ReadDomainRefused(request)
  <1> DEFINE L == LogicalSize(dset)
             S == given.local.size
  <1>1. /\ attrs["_class"] = "Grid" /\ attrs["_size"] = S
        /\ Given(given) /\ Covers(given, dset) /\ L = SwapDims(dset.size, dset.ndims)
        /\ L \in Positive \X Positive \X Positive
    BY AnnotatedFacts
  <1>2. S \in Nat \X Nat \X Nat
    BY <1>1 DEF Given
  <1>3. ~program.parallel => Scalar(S) # 0
    <2>1. SUFFICES ASSUME ~program.parallel PROVE Scalar(S) # 0
      OBVIOUS
    <2>2. \A i \in Dim : L[i] <= S[i]
      BY <1>1, <2>1 DEF Covers, HasCells
    <2>3. \A i \in Dim : L[i] \in Nat \ {0} /\ S[i] \in Nat
      BY <1>1, <1>2, VectorFacts DEF Positive
    <2>4. \A i \in Dim : S[i] # 0
      BY ONLY <2>2, <2>3
    <2>5. QED
      BY <1>2, <2>4, ScalarFacts
  <1>4. L # S
    OBVIOUS
  <1> HIDE DEF L, S
  <1>5. SizesDiffer
    BY <1>1, <1>3, <1>4 DEF SizesDiffer, L
  <1>6. QED
    BY <1>1, <1>5 DEF ReadDomainRefused

\* ParallelDomainCollector.cpp:263-329: GridType data of the size of its domain.
LEMMA GridReadExact ==
    ASSUME DomainInv, Annotated, HasCells,
           given.class = "Grid", LogicalSize(dset) = given.local.size,
           NEW request \in Requests, Intersect(request, ClientDomain)
    PROVE  ~ReadDomainRefused(request) /\ BufferExact(request)
  <1> DEFINE n == dset.ndims
             S == LogicalSize(dset)
             client == ClientDomain
             args == PieceArgs(request)
             o == request.offset
             z == request.size
             c == client.offset
             d == args.dst
             f == args.src
             k == args.size
  <1>1. /\ Readable /\ attrs["_class"] = "Grid" /\ attrs["_size"] = S /\ Extent(dset)
        /\ c \in Nat \X Nat \X Nat /\ client.size = S
        /\ S \in Positive \X Positive \X Positive
        /\ \A i \in Dim : i > n => S[i] = 1
    BY AnnotatedFacts
  <1>2. n \in 1..3
    BY <1>1 DEF Extent
  <1>3. Wants(request, n, client)
    BY <1>1, <1>2, RequestsFacts
  <1>4. /\ d \in Nat \X Nat \X Nat /\ f \in Nat \X Nat \X Nat /\ k \in Nat \X Nat \X Nat
        /\ \A i \in Dim : Met(o[i], z[i], c[i], client.size[i], d[i], f[i], k[i])
    BY <1>1, <1>2, <1>3, ArgsFacts
  <1>5. \A i \in Dim : Met(o[i], z[i], c[i], S[i], d[i], f[i], k[i])
    BY <1>1, <1>4
  <1>6. o \in Nat \X Nat \X Nat /\ z \in Nat \X Nat \X Nat /\ S \in Nat \X Nat \X Nat
    <2>1. z \in Positive \X Positive \X Positive /\ o \in Nat \X Nat \X Nat
      BY <1>3 DEF Wants
    <2>2. Positive \X Positive \X Positive \subseteq Nat \X Nat \X Nat
      BY DEF Positive
    <2>3. QED
      BY <1>1, <2>1, <2>2
  <1>7. ~SizesDiffer
    BY <1>1 DEF SizesDiffer
  <1>8. ~ReadRefused(dset, z, d, k, f)
    <2>1. ASSUME NEW i \in Dim
          PROVE  d[i] + (k[i] - 1) * Ones[i] < z[i] /\ f[i] + (k[i] - 1) * Ones[i] < S[i]
      <3>1. Ones[i] = 1
        BY DEF Ones, Dim
      <3>2. z[i] \in Nat /\ S[i] \in Nat
        BY <1>6, VectorFacts
      <3>3. Met(o[i], z[i], c[i], S[i], d[i], f[i], k[i])
        BY <1>5
      <3> HIDE DEF S, d, f, k, o, z, c
      <3>4. QED
        BY ONLY <3>1, <3>2, <3>3 DEF Met
    <2>2. QED
      BY <2>1 DEF ReadRefused, SelectionFits
  <1>9. ~ReadDomainRefused(request)
    BY <1>1, <1>7, <1>8 DEF ReadDomainRefused
  <1>10. ReadDomain(request) = Read(dset, z, d, k, f)
    BY <1>1 DEF ReadDomain
  <1>11. ASSUME NEW q \in Box(z), NEW p, p = [i \in Dim |-> o[i] + q[i] - c[i]]
         PROVE  /\ Within(p, Zero, S) /\ p \in DOMAIN expected =>
                     Read(dset, z, d, k, f)[SwapDims(q, n)] = expected[p]
                /\ ~Within(p, Zero, S) => Read(dset, z, d, k, f)[SwapDims(q, n)] = Fill
    <2>1. Read(dset, z, d, k, f)[SwapDims(q, n)] =
            IF Within(p, Zero, S) THEN dset.cells[SwapDims(p, n)] ELSE Fill
      <3>1. p = Shifted(o, q, c) /\ dset.ndims \in 1..3
        BY ONLY <1>2, <1>11 DEF Shifted
      <3> HIDE DEF S, d, f, k, o, z, c
      <3>2. Brings(dset, z, d, k, f, S, q, p)
        BY ONLY <1>1, <1>4, <1>5, <1>6, <1>11, <3>1, ReadFacts, ZenonT(40)
      <3>3. QED
        BY ONLY <3>2 DEF Brings, n
    <2>2. p \in DOMAIN expected => dset.cells[SwapDims(p, n)] = expected[p]
      BY StoredIsRead
    <2> HIDE DEF S, d, f, k, o, z, c, n
    <2>3. QED
      BY ONLY <2>1, <2>2
  <1>12. BufferExact(request)
    BY <1>1, <1>10, <1>11 DEF BufferExact
  <1>13. QED
    BY <1>9, <1>12

\* ParallelDomainCollector.cpp:126-128: of PolyType data everything is read.
LEMMA PolyReadExact ==
    ASSUME DomainInv, Annotated, HasCells, given.class # "Grid", NEW request
    PROVE  ~ReadDomainRefused(request) /\ BufferExact(request)
  <1> DEFINE n == dset.ndims
             S == LogicalSize(dset)
             c == ClientDomain.offset
  <1>1. /\ Readable /\ attrs["_class"] # "Grid" /\ Extent(dset)
        /\ c \in Nat \X Nat \X Nat /\ S \in Positive \X Positive \X Positive
    BY AnnotatedFacts
  <1>2. n \in 1..3
    BY <1>1 DEF Extent
  <1>3. S \in Nat \X Nat \X Nat /\ Zero \in Nat \X Nat \X Nat
    BY <1>1 DEF Positive, Zero
  <1>4. ASSUME NEW i \in Dim PROVE Met(c[i], S[i], c[i], S[i], Zero[i], Zero[i], S[i])
    <2>1. Zero[i] = 0
      BY DEF Zero, Dim
    <2>2. c[i] \in Nat /\ S[i] \in Nat \ {0}
      BY <1>1, VectorFacts DEF Positive
    <2> HIDE DEF c, S
    <2>3. QED
      BY ONLY <2>1, <2>2 DEF Met
  <1>5. ReadDomain(request) = Read(dset, S, Zero, S, Zero)
    BY <1>1 DEF ReadDomain
  <1>6. ASSUME NEW q \in Box(S), NEW p, p = [i \in Dim |-> c[i] + q[i] - c[i]]
         PROVE  /\ Within(p, Zero, S) /\ p \in DOMAIN expected =>
                     Read(dset, S, Zero, S, Zero)[SwapDims(q, n)] = expected[p]
                /\ ~Within(p, Zero, S) => Read(dset, S, Zero, S, Zero)[SwapDims(q, n)] = Fill
    <2>1. Read(dset, S, Zero, S, Zero)[SwapDims(q, n)] =
            IF Within(p, Zero, S) THEN dset.cells[SwapDims(p, n)] ELSE Fill
      <3>1. p = Shifted(c, q, c) /\ dset.ndims \in 1..3
        BY ONLY <1>2, <1>6 DEF Shifted
      <3> HIDE DEF S, c
      <3>2. Brings(dset, S, Zero, S, Zero, S, q, p)
        BY ONLY <1>1, <1>3, <1>4, <1>6, <3>1, ReadFacts
      <3>3. QED
        BY ONLY <3>2 DEF Brings, n
    <2>2. p \in DOMAIN expected => dset.cells[SwapDims(p, n)] = expected[p]
      BY StoredIsRead
    <2> HIDE DEF S, c, n
    <2>3. QED
      BY ONLY <2>1, <2>2
  <1>7. BufferExact(request)
    BY <1>1, <1>5, <1>6 DEF BufferExact
  <1>8. QED
    BY <1>1, <1>7 DEF ReadDomainRefused

\* ParallelDomainCollector.cpp:126-128, 263-329, DomainCollector.cpp:403-411, 486-601:
\* every request that meets the data (with a DomainCollector: that begins in it)
\* brings each element that was stored to its place.
THEOREM DomainReadIsExact == DomainSpec => []DomainReadExact
  <1>1. DomainInv => DomainReadExact
    <2>1. SUFFICES ASSUME DomainInv PROVE DomainReadExact
      OBVIOUS
    <2>2. SUFFICES ASSUME Annotated, HasCells, NEW request \in Requests, Found(request)
                   PROVE  IF given.class = "Grid" /\ LogicalSize(dset) # given.local.size
                          THEN ReadDomainRefused(request)
                          ELSE Intersect(request, ClientDomain) =>
                                  ~ReadDomainRefused(request) /\ BufferExact(request)
      BY DEF DomainReadExact
    <2>3. CASE given.class = "Grid" /\ LogicalSize(dset) # given.local.size
      BY <2>1, <2>2, <2>3, WrongSizeRefused
    <2>4. CASE given.class = "Grid" /\ LogicalSize(dset) = given.local.size
      BY <2>1, <2>2, <2>4, GridReadExact
    <2>5. CASE given.class # "Grid"
      BY <2>1, <2>2, <2>5, PolyReadExact
    <2>6. QED
      BY <2>3, <2>4, <2>5
  <1>2. QED
    BY <1>1, DomainInvariant, PTL
=============================================================================
