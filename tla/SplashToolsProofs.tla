------------------------- MODULE SplashToolsProofs --------------------------
(***************************************************************************)
(* Proofs about SplashTools for any number of processes, any topology and   *)
(* any files missing or damaged: every file is tested by one process, and a *)
(* damaged one is reported.                                                 *)
(***************************************************************************)
EXTENDS SplashTools, NumberLemmas, SequenceTheorems

-----------------------------------------------------------------------------
(* Positions *)

LEMMA CountFacts ==
    ASSUME NEW s \in Topologies
    PROVE  /\ s[1] \in Nat \ {0} /\ s[2] \in Nat \ {0} /\ s[3] \in Nat \ {0}
           /\ Count(s) \in Nat \ {0}
  <1>1. PICK X \in Nat \ {0}, Y \in Nat \ {0}, Z \in Nat \ {0} : s = <<X, Y, Z>>
    BY LaunchAssumption
  <1>2. s[1] = X /\ s[2] = Y /\ s[3] = Z
    BY <1>1
  <1>3. X * Y \in Nat \ {0}
    OBVIOUS
  <1>4. X * Y * Z \in Nat \ {0}
    BY <1>3
  <1>5. QED
    BY <1>2, <1>4 DEF Count

\* indexToPos() yields a position of the topology, and from it the index can be
\* computed.
LEMMA PosFacts ==
    ASSUME NEW s \in Topologies, NEW i \in 0..(Count(s) - 1)
    PROVE  LET pos == IndexToPos(i, s) IN
           /\ pos \in PositionsOf(s)
           /\ i = pos[3] + pos[2] * s[3] + pos[1] * s[3] * s[2]
  <1> DEFINE X == s[1]
             Y == s[2]
             Z == s[3]
             j == i \div Z
  <1>1. X \in Nat \ {0} /\ Y \in Nat \ {0} /\ Z \in Nat \ {0} /\ Count(s) \in Nat \ {0}
    BY CountFacts
  <1>2. Count(s) = X * Y * Z
    BY DEF Count
  <1> HIDE DEF X, Y, Z
  <1>3. i \in Nat /\ i < X * Y * Z
    BY <1>1, <1>2
  <1>4. Y * Z \in Nat \ {0} /\ Y * Z = Z * Y
    BY <1>1
  <1>5. j \in Nat /\ i % Z \in 0..(Z - 1)
    BY <1>1, <1>3, DivMod
  <1> HIDE DEF j
  <1>6. j % Y \in 0..(Y - 1)
    BY <1>1, <1>5, DivMod
  <1> DEFINE x == i \div (Y * Z)
             m == i % (Y * Z)
  <1>7. x \in Nat /\ m \in 0..(Y * Z - 1) /\ i = (Y * Z) * x + m
    BY <1>3, <1>4, DivMod
  <1> HIDE DEF x, m
  <1>8. x < X
    <2>1. SUFFICES ASSUME ~(x < X) PROVE FALSE
      OBVIOUS
    <2> DEFINE d == Y * Z
    <2>2. d \in Nat \ {0} /\ X * Y * Z = d * X
      BY <1>1, <1>4
    <2>3. x = X \/ x > X
      BY <1>1, <1>7, <2>1
    <2>4. i = d * x + m /\ m \in Nat /\ i < d * X
      BY <1>3, <1>4, <1>7, <2>2
    <2> HIDE DEF d
    <2>5. CASE x = X
      BY <1>1, <1>3, <2>2, <2>4, <2>5
    <2>6. CASE x > X
      <3>1. d * x >= d * X + d
        BY <1>1, <1>7, <2>2, <2>6, ProductStep
      <3>2. d * x \in Nat /\ d * X \in Nat
        BY <1>1, <1>7, <2>2
      <3>3. QED
        BY <1>3, <2>2, <2>4, <3>1, <3>2
    <2>7. QED
      BY <2>3, <2>5, <2>6
  <1>9. (i % Z) + (j % Y) * Z + x * Z * Y = i
    BY <1>1, <1>3, GridRoundTrip DEF j, x
  <1>10. IndexToPos(i, s) = <<x, j % Y, i % Z>>
    BY DEF IndexToPos, x, j, Y, Z
  <1>11. x \in 0..(X - 1)
    BY <1>1, <1>7, <1>8
  <1>12. IndexToPos(i, s) \in PositionsOf(s)
    BY <1>5, <1>6, <1>10, <1>11 DEF PositionsOf, X, Y, Z
  <1>13. QED
    BY <1>9, <1>10, <1>12 DEF Y, Z

LEMMA PosInjective ==
    ASSUME NEW s \in Topologies, NEW i \in 0..(Count(s) - 1), NEW k \in 0..(Count(s) - 1),
           IndexToPos(i, s) = IndexToPos(k, s)
    PROVE  i = k
  <1> DEFINE pos == IndexToPos(i, s)
             qos == IndexToPos(k, s)
  <1>1. i = pos[3] + pos[2] * s[3] + pos[1] * s[3] * s[2]
    BY PosFacts
  <1>2. k = qos[3] + qos[2] * s[3] + qos[1] * s[3] * s[2]
    BY PosFacts
  <1>3. QED
    BY <1>1, <1>2

\* Every position of the topology has an index.
LEMMA PosSurjective ==
    ASSUME NEW s \in Topologies, NEW pos \in PositionsOf(s)
    PROVE  \E i \in 0..(Count(s) - 1) : IndexToPos(i, s) = pos
  <1> DEFINE X == s[1]
             Y == s[2]
             Z == s[3]
  <1>1. X \in Nat \ {0} /\ Y \in Nat \ {0} /\ Z \in Nat \ {0} /\ Count(s) \in Nat \ {0}
    BY CountFacts
  <1>2. Count(s) = X * Y * Z
    BY DEF Count
  <1>3. PICK x \in 0..(X - 1), y \in 0..(Y - 1), z \in 0..(Z - 1) : pos = <<x, y, z>>
    BY DEF PositionsOf
  <1> DEFINE d == Y * Z
             j == x * Y + y
             i == j * Z + z
  <1>4. IndexToPos(i, s) = <<i \div d, (i \div Z) % Y, i % Z>>
    BY DEF IndexToPos
  <1> HIDE DEF X, Y, Z
  <1>5. x \in Nat /\ y \in Nat /\ z \in Nat /\ x < X /\ y < Y /\ z < Z
    BY <1>1
  <1>6. d \in Nat \ {0} /\ j \in Nat /\ i \in Nat
    BY <1>1, <1>5
  <1>7. i = Z * j + z /\ j = Y * x + y
    BY <1>1, <1>5
  <1>8. i \div Z = j
    BY <1>1, <1>5, <1>6, <1>7, DivUnique
  <1>9. j \div Y = x
    BY <1>1, <1>5, <1>6, <1>7, DivUnique
  <1>10. i % Z = z
    <2>1. i = Z * (i \div Z) + (i % Z) /\ i % Z \in 0..(Z - 1)
      BY <1>1, <1>6, DivMod
    <2> HIDE DEF i, j
    <2>2. Z * j \in Nat
      BY <1>1, <1>6
    <2>3. QED
      BY <1>1, <1>5, <1>7, <1>8, <2>1, <2>2
  <1>11. j % Y = y
    <2>1. j = Y * (j \div Y) + (j % Y) /\ j % Y \in 0..(Y - 1)
      BY <1>1, <1>6, DivMod
    <2> HIDE DEF i, j
    <2>2. Y * x \in Nat
      BY <1>1, <1>5
    <2>3. QED
      BY <1>1, <1>5, <1>7, <1>9, <2>1, <2>2
  <1>12. i = d * x + (y * Z + z)
    BY <1>1, <1>5
  <1>13. y * Z + z \in 0..(d - 1)
    <2>1. Z * Y >= Z * y + Z
      BY <1>1, <1>5, ProductStep
    <2>2. Z * y \in Nat /\ Z * y = y * Z /\ Z * Y = Y * Z
      BY <1>1, <1>5
    <2>3. QED
      BY <1>1, <1>5, <2>1, <2>2
  <1>14. i \div d = x
    <2> DEFINE m == y * Z + z
    <2> HIDE DEF m, i, d
    <2>1. i = d * x + m /\ m \in 0..(d - 1)
      BY <1>12, <1>13 DEF m
    <2>2. QED
      BY <1>5, <1>6, <2>1, DivUnique
  <1>15. i < X * Y * Z
    <2>1. d * X >= d * x + d
      BY <1>1, <1>5, <1>6, ProductStep
    <2>2. X * Y * Z = d * X
      BY <1>1
    <2>3. d * x \in Nat /\ d * X \in Nat
      BY <1>1, <1>5, <1>6
    <2> DEFINE m == y * Z + z
               e == d * x
               f == d * X
    <2>4. i = e + m /\ m \in 0..(d - 1) /\ e \in Nat /\ f \in Nat
          /\ f >= e + d /\ X * Y * Z = f
      BY <1>12, <1>13, <2>1, <2>2, <2>3
    <2> HIDE DEF m, e, f, d, i, j
    <2>5. e + m < f
      BY <1>6, <2>4
    <2>6. QED
      BY <2>4, <2>5
  <1> HIDE DEF d, i, j
  <1>16. i \in 0..(Count(s) - 1)
    BY <1>1, <1>2, <1>6, <1>15
  <1>17. QED
    BY <1>3, <1>4, <1>8, <1>10, <1>11, <1>14, <1>16


-----------------------------------------------------------------------------
(* Shares *)

\* filesToProcesses() for process p of n and f files.
ShareOf(n, f, p) ==
    IF n >= f THEN IF p < f THEN [start |-> p, end |-> p] ELSE NoRange
    ELSE [start |-> p * (f \div n),
          end |-> IF p = n - 1 THEN f - 1 ELSE (p + 1) * (f \div n) - 1]

Holds(n, f, p, i) == ShareOf(n, f, p).start <= i /\ i <= ShareOf(n, f, p).end

LEMMA ShareSize ==
    ASSUME NEW n \in Nat \ {0}, NEW f \in Nat, n < f
    PROVE  /\ f \div n \in Nat \ {0}
           /\ n * (f \div n) <= f
  <1> DEFINE s == f \div n
             r == f % n
  <1>1. s \in Nat /\ r \in 0..(n - 1) /\ f = n * s + r
    BY DivMod
  <1> HIDE DEF s, r
  <1>2. n * s \in Nat
    BY <1>1
  <1>3. CASE s = 0
    BY <1>1, <1>3
  <1>4. QED
    BY <1>1, <1>2, <1>3 DEF s

\* A share is empty, or a range of file indices.
LEMMA ShareRange ==
    ASSUME NEW n \in Nat \ {0}, NEW f \in Nat \ {0}, NEW p \in 0..(n - 1)
    PROVE  LET s == ShareOf(n, f, p) IN
           /\ s = [start |-> s.start, end |-> s.end]
           /\ \/ s = NoRange
              \/ s.start \in Nat /\ s.end \in Nat /\ s.start <= s.end /\ s.end <= f - 1
  <1>1. CASE n >= f
    BY <1>1 DEF ShareOf, NoRange
  <1>2. CASE ~(n >= f)
    <2> DEFINE d == f \div n
    <2>1. d \in Nat \ {0} /\ n * d <= f /\ p \in Nat /\ p < n
      BY <1>2, ShareSize
    <2>2. ShareOf(n, f, p) = [start |-> p * d,
                              end |-> IF p = n - 1 THEN f - 1 ELSE (p + 1) * d - 1]
      BY <1>2 DEF ShareOf
    <2> HIDE DEF d
    <2>3. p * d \in Nat /\ p * d = d * p /\ n * d = d * n /\ n * d \in Nat
      BY <2>1
    <2>4. d * n >= d * p + d
      BY <2>1, ProductStep
    <2>5. p * d + d <= f
      BY <2>1, <2>3, <2>4
    <2>6. (p + 1) * d = p * d + d
      BY <2>1
    <2> DEFINE a == p * d
               b == (p + 1) * d
    <2>7. a \in Nat /\ b = a + d /\ b <= f
      BY <2>3, <2>5, <2>6
    <2> HIDE DEF a, b
    <2>8. ShareOf(n, f, p) = [start |-> a, end |-> IF p = n - 1 THEN f - 1 ELSE b - 1]
      BY <2>2 DEF a, b
    <2>9. QED
      BY <2>1, <2>7, <2>8
  <1>3. QED
    BY <1>1, <1>2

\* A file belongs to one process.
LEMMA ShareDisjoint ==
    ASSUME NEW n \in Nat \ {0}, NEW f \in Nat \ {0}, NEW p \in 0..(n - 1),
           NEW q \in 0..(n - 1), NEW i \in Nat, Holds(n, f, p, i), Holds(n, f, q, i)
    PROVE  ~(p < q)
  <1>1. CASE n >= f
    BY <1>1 DEF Holds, ShareOf, NoRange
  <1>2. CASE ~(n >= f)
    <2>1. SUFFICES ASSUME p < q PROVE FALSE
      OBVIOUS
    <2> DEFINE d == f \div n
    <2>2. d \in Nat \ {0}
      BY <1>2, ShareSize
    <2>3. ShareOf(n, f, p).end = (p + 1) * d - 1 /\ ShareOf(n, f, q).start = q * d
      BY <1>2, <2>1 DEF ShareOf
    <2>4. i <= (p + 1) * d - 1 /\ q * d <= i
      BY <2>3 DEF Holds
    <2> HIDE DEF d
    <2>5. d * q >= d * p + d
      BY <2>1, <2>2, ProductStep
    <2>6. (p + 1) * d = d * p + d /\ q * d = d * q /\ d * p \in Nat /\ d * q \in Nat
      BY <2>2
    <2>7. QED
      BY <2>2, <2>4, <2>5, <2>6
  <1>3. QED
    BY <1>1, <1>2

\* Every file belongs to a process.
LEMMA ShareCovers ==
    ASSUME NEW n \in Nat \ {0}, NEW f \in Nat \ {0}, NEW i \in 0..(f - 1)
    PROVE  \E p \in 0..(n - 1) : Holds(n, f, p, i)
  <1>1. CASE n >= f
    <2>1. i \in 0..(n - 1) /\ Holds(n, f, i, i)
      BY <1>1 DEF Holds, ShareOf
    <2>2. QED
      BY <2>1
  <1>2. CASE ~(n >= f)
    <2> DEFINE d == f \div n
               q == i \div d
    <2>1. d \in Nat \ {0}
      BY <1>2, ShareSize
    <2>2. \A p : ShareOf(n, f, p) = [start |-> p * d,
                     end |-> IF p = n - 1 THEN f - 1 ELSE (p + 1) * d - 1]
      BY <1>2 DEF ShareOf
    <2> HIDE DEF d
    <2>3. q \in Nat /\ i % d \in 0..(d - 1) /\ i = d * q + (i % d)
      <3>1. i \in Nat
        OBVIOUS
      <3>2. QED
        BY <2>1, <3>1, DivMod
    <2> DEFINE r == i % d
    <2> HIDE DEF q, r
    <2>4. r \in 0..(d - 1) /\ i = d * q + r /\ d * q \in Nat /\ q * d = d * q
          /\ (q + 1) * d = d * q + d
      BY <2>1, <2>3 DEF r
    <2>5. CASE q <= n - 2
      <3>1. q \in 0..(n - 1) /\ q # n - 1
        BY <2>3, <2>5
      <3>2. ShareOf(n, f, q) = [start |-> q * d, end |-> (q + 1) * d - 1]
        BY <2>2, <3>1
      <3>3. q * d <= i /\ i <= (q + 1) * d - 1
        BY <2>1, <2>4
      <3>4. Holds(n, f, q, i)
        BY <3>2, <3>3 DEF Holds
      <3>5. QED
        BY <3>1, <3>4
    <2>6. CASE ~(q <= n - 2)
      <3> DEFINE m == n - 1
      <3>1. m \in 0..(n - 1) /\ m \in Nat /\ m <= q
        BY <2>3, <2>6
      <3>2. ShareOf(n, f, m) = [start |-> m * d, end |-> f - 1]
        BY <2>2
      <3> HIDE DEF m
      <3>3. d * m <= d * q
        <4>1. CASE m = q
          BY <2>4, <4>1
        <4>2. CASE q > m
          <5>1. d * q >= d * m + d
            BY <2>1, <2>3, <3>1, <4>2, ProductStep
          <5>2. d * m \in Nat
            BY <2>1, <3>1
          <5>3. QED
            BY <2>1, <2>4, <5>1, <5>2
        <4>3. QED
          BY <2>3, <3>1, <4>1, <4>2
      <3>4. m * d <= i
        <4>1. m * d = d * m /\ d * m \in Nat
          BY <2>1, <3>1
        <4>2. QED
          BY <2>1, <2>4, <3>3, <4>1
      <3>5. Holds(n, f, m, i)
        BY <3>2, <3>4 DEF Holds
      <3>6. QED
        BY <3>1, <3>5
    <2>7. QED
      BY <2>5, <2>6
  <1>3. QED
    BY <1>1, <1>2


-----------------------------------------------------------------------------
(* The invariant *)

Functions == {"-c", "-l"}

Places == {"start", "main", "detect", "receive", "construct", "tool", "barrier",
           "finished", "killed"}

\* How many files the run has, as far as the processes find out.
Files == IF options.singleFile THEN 1 ELSE Count(Detected)

\* Options and size are parameters, as they never change.
NameOf(o, size, i) ==
    IF o.singleFile THEN <<>> ELSE IF o.parallelFile THEN <<i>> ELSE IndexToPos(i, size)

CheckOf(o, size, p, i) == [proc |-> p, index |-> i, file |-> NameOf(o, size, i)]

WorldTypes ==
    /\ launch \in Launches /\ topology \in Topologies
    /\ options.result \in {"OK", "ERROR"}
    /\ options.singleFile \in BOOLEAN /\ options.parallelFile \in BOOLEAN
    /\ options.functions \in Seq(Functions)

\* All broadcasts send the same size. A collector of all processes is only
\* constructed when there is one process.
Types ==
    /\ pc \in [Procs -> Places]
    /\ todo \in [Procs -> Seq(Functions)]
    /\ result \in [Procs -> {"OK", "ERROR"}]
    /\ sent \in Seq({Detected})
    /\ sent # <<>> => ~options.singleFile /\ (options.parallelFile => launch.procs = 1)
    /\ received \in [Procs -> Nat]
    /\ range \in [Procs -> [start : Int, end : Int]]
    /\ index \in [Procs -> Int]

\* Where a process is, what it still has to do, and its share of the files.
PlaceInv(p) ==
    LET share == ShareOf(launch.procs, Files, p) IN
    /\ pc[p] \in {"detect", "receive", "construct", "tool"} => todo[p] # <<>>
    /\ pc[p] \in {"barrier", "finished"} => todo[p] = <<>>
    /\ pc[p] \in {"detect", "receive"} => ~options.singleFile
    /\ pc[p] = "detect" => p = 0
    /\ range[p] \in {NoRange, share}
    /\ pc[p] \in {"construct", "tool"} =>
         /\ Files > 0
         /\ ~options.singleFile => sent # <<>>
         /\ range[p] = share
         /\ share.start # -1
         /\ share.start <= index[p] /\ index[p] <= share.end
    /\ pc[p] = "construct" => index[p] = share.start
    /\ received[p] <= Len(sent)

\* The files of p below index k have been tested.
DoneBelow(p, k) ==
    \A i \in 0..(Files - 1) :
        Holds(launch.procs, Files, p, i) /\ i < k =>
            CheckOf(options, Detected, p, i) \in checked

\* A check goes through the files of a process in order, and is only taken from
\* the list of functions when all of them have been tested.
Progress(p) ==
    /\ pc[p] = "tool" /\ Head(todo[p]) = "-c" => DoneBelow(p, index[p])
    /\ /\ pc[p] \notin {"start", "killed"} /\ options.result = "OK"
       /\ \E k \in DOMAIN options.functions : options.functions[k] = "-c"
       /\ \A k \in DOMAIN todo[p] : todo[p][k] # "-c"
       => DoneBelow(p, Files)

\* With nothing else to do, the result of a process is that of its check.
Report(p) ==
    options.functions = <<"-c">> =>
        /\ todo[p] \in {<<>>, <<"-c">>}
        /\ \/ pc[p] \in {"start", "detect", "receive", "construct"}
           \/ pc[p] = "main" /\ todo[p] # <<>>
           => \A c \in checked : c.proc # p
        /\ \A c \in checked : c.proc = p /\ c.file \in bad => result[p] = "ERROR"
        /\ Files = 0 /\ pc[p] \notin {"start", "killed"} /\ todo[p] = <<>> =>
             result[p] = "ERROR"

ProcInv(p) == PlaceInv(p) /\ Progress(p) /\ Report(p)

\* Every test was one of a file of the process that made it.
CheckedInv ==
    \A c \in checked :
        /\ c.proc \in Procs /\ c.index \in 0..(Files - 1)
        /\ c = CheckOf(options, Detected, c.proc, c.index)
        /\ Holds(launch.procs, Files, c.proc, c.index)
        /\ ~options.singleFile => sent # <<>>

IndInv ==
    /\ WorldTypes /\ Types /\ CheckedInv
    /\ \A p \in Procs : ProcInv(p)

LEMMA WorldFacts ==
    ASSUME WorldTypes
    PROVE  /\ launch.procs \in Nat \ {0} /\ Procs = 0..(launch.procs - 1)
           /\ Detected \in {<<launch.procs, 1, 1>>, <<0, 0, 0>>, topology}
           /\ Files \in Nat
  <1>1. launch.procs \in Nat \ {0}
    BY LaunchAssumption DEF WorldTypes
  <1>2. Detected \in {<<launch.procs, 1, 1>>, <<0, 0, 0>>, topology}
    BY DEF Detected
  <1>3. Count(<<launch.procs, 1, 1>>) \in Nat /\ Count(<<0, 0, 0>>) \in Nat
    BY <1>1 DEF Count
  <1>4. Count(topology) \in Nat
    BY CountFacts DEF WorldTypes
  <1>5. Files \in Nat
    BY <1>2, <1>3, <1>4 DEF Files
  <1>6. QED
    BY <1>1, <1>2, <1>5 DEF Procs

LEMMA WorldKeeps ==
    ASSUME UNCHANGED world, WorldTypes
    PROVE  /\ WorldTypes' /\ Procs' = Procs /\ Detected' = Detected /\ Files' = Files
           /\ launch' = launch /\ options' = options /\ bad' = bad
  <1>1. launch' = launch /\ options' = options /\ topology' = topology /\ bad' = bad
    BY DEF world
  <1>2. Detected' = Detected
    BY <1>1 DEF Detected, Master
  <1>3. QED
    BY <1>1, <1>2 DEF WorldTypes, Procs, Files

\* What a process does leaves the others as they are.
LEMMA OthersKeep ==
    ASSUME WorldTypes, Types, UNCHANGED world, NEW q \in Procs, ProcInv(q),
           pc'[q] = pc[q], todo'[q] = todo[q], result'[q] = result[q],
           received'[q] = received[q], range'[q] = range[q], index'[q] = index[q],
           sent' = sent \/ sent' = Append(sent, Detected),
           checked \subseteq checked', \A c \in checked' \ checked : c.proc # q
    PROVE  ProcInv(q)'
  <1>1. /\ Detected' = Detected /\ Files' = Files /\ Procs' = Procs
        /\ launch' = launch /\ options' = options /\ bad' = bad
    BY WorldKeeps
  <1>2. (sent # <<>> => sent' # <<>>) /\ received[q] <= Len(sent')
    <2>1. sent \in Seq({Detected}) /\ received[q] <= Len(sent) /\ received[q] \in Nat
      BY DEF Types, ProcInv, PlaceInv
    <2>2. Len(sent) \in Nat
      BY <2>1, LenProperties
    <2>3. CASE sent' = Append(sent, Detected)
      <3>1. sent' # <<>> /\ Len(sent') = Len(sent) + 1
        BY <2>1, <2>3, AppendProperties
      <3>2. QED
        BY <2>1, <2>2, <3>1
    <2>4. QED
      BY <2>1, <2>3
  <1>3. PlaceInv(q)'
    BY <1>1, <1>2 DEF ProcInv, PlaceInv
  <1>4. Progress(q)'
    BY <1>1 DEF ProcInv, Progress, DoneBelow
  <1>5. Report(q)'
    BY <1>1 DEF ProcInv, Report
  <1>6. QED
    BY <1>3, <1>4, <1>5 DEF ProcInv

-----------------------------------------------------------------------------
(* Every step keeps the invariant *)

LEMMA InitInv == Init => IndInv
  <1> SUFFICES ASSUME Init PROVE IndInv
    OBVIOUS
  <1> DEFINE args == launch.args
             asked == {args[i] : i \in Given(args)}
             single == Stops(args) = {} /\ Filename(args) = "out.h5"
             parallel == "-p" \in asked
             returned == IF Stops(args) # {}
                         THEN (IF args[FirstStop(args)] = "-h" THEN "OK" ELSE "ERROR")
                         ELSE IF Filename(args) = "" THEN "ERROR" ELSE "OK"
             checks == IF "-c" \in asked THEN <<"-c">> ELSE <<>>
             lists == IF "-l" \in asked THEN <<"-l">> ELSE <<>>
  <1>a. options = [result |-> returned, filename |-> Filename(args),
                   singleFile |-> single, parallelFile |-> parallel,
                   functions |-> checks \o lists]
    BY DEF Init, ParseCmdLine
  <1>b. returned \in {"OK", "ERROR"} /\ single \in BOOLEAN /\ parallel \in BOOLEAN
        /\ checks \in {<<>>, <<"-c">>} /\ lists \in {<<>>, <<"-l">>}
    OBVIOUS
  <1> HIDE DEF args, asked, single, parallel, returned, checks, lists
  <1>1. options.result \in {"OK", "ERROR"} /\ options.singleFile \in BOOLEAN
        /\ options.parallelFile \in BOOLEAN
    BY <1>a, <1>b
  <1>2. options.functions \in Seq(Functions)
    <2>1. options.functions = checks \o lists
      BY <1>a
    <2>2. <<>> \in Seq(Functions) /\ <<"-c">> \in Seq(Functions) /\ <<"-l">> \in Seq(Functions)
      BY DEF Functions
    <2>3. checks \in Seq(Functions) /\ lists \in Seq(Functions)
      BY <1>b, <2>2
    <2>4. QED
      BY <2>1, <2>3, ConcatProperties
  <1>3. WorldTypes
    BY <1>1, <1>2 DEF Init, WorldTypes
  <1>4. sent = <<>> /\ checked = {} /\ Len(sent) = 0
    BY DEF Init
  <1>5. sent \in Seq({Detected})
    BY <1>4
  <1>6. <<>> \in Seq(Functions)
    OBVIOUS
  <1>7. Types
    BY <1>4, <1>5, <1>6 DEF Init, Types, Places, NoRange
  <1>8. CheckedInv
    BY <1>4 DEF CheckedInv
  <1>9. ASSUME NEW p \in Procs PROVE ProcInv(p)
    <2>1. pc[p] = "start" /\ todo[p] = <<>> /\ range[p] = NoRange /\ received[p] = 0
      BY DEF Init
    <2>2. PlaceInv(p)
      BY <1>4, <2>1 DEF PlaceInv
    <2>3. Progress(p) /\ Report(p)
      BY <1>4, <2>1 DEF Progress, Report
    <2>4. QED
      BY <2>2, <2>3 DEF ProcInv
  <1>10. QED
    BY <1>3, <1>7, <1>8, <1>9 DEF IndInv

\* It is enough to look at the process that takes the step.
LEMMA OneProcess ==
    ASSUME IndInv, UNCHANGED world, NEW p \in Procs, Types', CheckedInv', ProcInv(p)',
           sent' = sent \/ sent' = Append(sent, Detected),
           checked \subseteq checked', \A c \in checked' \ checked : c.proc = p,
           \A q \in Procs \ {p} :
               /\ pc'[q] = pc[q] /\ todo'[q] = todo[q] /\ result'[q] = result[q]
               /\ received'[q] = received[q] /\ range'[q] = range[q] /\ index'[q] = index[q]
    PROVE  IndInv'
  <1>1. WorldTypes' /\ Procs' = Procs
    BY WorldKeeps DEF IndInv
  <1>2. ASSUME NEW q \in Procs, q # p PROVE ProcInv(q)'
    BY <1>2, OthersKeep DEF IndInv
  <1>3. QED
    BY <1>1, <1>2 DEF IndInv

\* Tests that were made stay what they were.
LEMMA ChecksKeep ==
    ASSUME IndInv, UNCHANGED world, UNCHANGED checked, sent # <<>> => sent' # <<>>
    PROVE  CheckedInv'
  <1>1. /\ Detected' = Detected /\ Files' = Files /\ Procs' = Procs
        /\ launch' = launch /\ options' = options
    BY WorldKeeps DEF IndInv
  <1>2. QED
    BY <1>1 DEF IndInv, CheckedInv

LEMMA StartInv ==
    ASSUME IndInv, NEW p \in Procs, Start(p)
    PROVE  IndInv'
  <1>1. UNCHANGED world /\ UNCHANGED checked /\ UNCHANGED sent
    BY DEF Start
  <1>2. /\ Detected' = Detected /\ Files' = Files /\ Procs' = Procs
        /\ launch' = launch /\ options' = options /\ bad' = bad /\ WorldTypes'
    BY <1>1, WorldKeeps DEF IndInv
  <1>3. <<>> \in Seq(Functions) /\ "main" \in Places
    BY DEF Places
  <1>4. Types'
    BY <1>2, <1>3 DEF IndInv, Types, WorldTypes, Start
  <1>5. CheckedInv'
    BY <1>1, ChecksKeep
  <1>6. /\ pc'[p] = "main" /\ result'[p] = options.result
        /\ todo'[p] = IF options.result = "OK" THEN options.functions ELSE <<>>
        /\ range'[p] = range[p] /\ received'[p] = received[p] /\ index'[p] = index[p]
        /\ sent' = sent /\ pc[p] = "start"
    BY DEF IndInv, Types, Start
  <1>7. PlaceInv(p)'
    BY <1>2, <1>6 DEF IndInv, ProcInv, PlaceInv
  <1>8. Progress(p)'
    BY <1>2, <1>6 DEF Progress
  <1>9. Report(p)'
    BY <1>1, <1>2, <1>6 DEF IndInv, ProcInv, Report, WorldTypes
  <1>10. ProcInv(p)'
    BY <1>7, <1>8, <1>9 DEF ProcInv
  <1>11. QED
    BY <1>1, <1>4, <1>5, <1>10, OneProcess DEF Start, IndInv, Types

LEMMA FinishInv ==
    ASSUME IndInv, NEW p \in Procs, Finish(p)
    PROVE  IndInv'
  <1>1. UNCHANGED world /\ UNCHANGED checked /\ UNCHANGED sent
    BY DEF Finish
  <1>2. /\ Detected' = Detected /\ Files' = Files /\ Procs' = Procs
        /\ launch' = launch /\ options' = options /\ bad' = bad
    BY <1>1, WorldKeeps DEF IndInv
  <1>3. Types'
    BY <1>2 DEF IndInv, Types, Finish, Places
  <1>4. CheckedInv'
    BY <1>1, ChecksKeep
  <1>5. /\ pc'[p] = "barrier" /\ pc[p] = "main" /\ todo[p] = <<>>
        /\ UNCHANGED <<todo, result, sent, received, range, index, checked>>
    BY DEF IndInv, Types, Finish
  <1>6. PlaceInv(p)'
    BY <1>2, <1>5 DEF IndInv, ProcInv, PlaceInv
  <1>7. Progress(p)'
    BY <1>2, <1>5 DEF IndInv, ProcInv, Progress, DoneBelow
  <1>8. Report(p)'
    BY <1>2, <1>5 DEF IndInv, ProcInv, Report
  <1>9. ProcInv(p)'
    BY <1>6, <1>7, <1>8 DEF ProcInv
  <1>10. QED
    BY <1>1, <1>3, <1>4, <1>9, OneProcess DEF Finish, IndInv, Types

LEMMA ExecuteInv ==
    ASSUME IndInv, NEW p \in Procs, Execute(p)
    PROVE  IndInv'
  <1>1. UNCHANGED world /\ UNCHANGED checked /\ UNCHANGED sent
    BY DEF Execute
  <1>2. /\ Detected' = Detected /\ Files' = Files /\ Procs' = Procs
        /\ launch' = launch /\ options' = options /\ bad' = bad
    BY <1>1, WorldKeeps DEF IndInv
  <1>3. Types'
    BY <1>2 DEF IndInv, Types, Execute, Places
  <1>4. CheckedInv'
    BY <1>1, ChecksKeep
  <1>5. /\ pc'[p] \in {"detect", "receive"} /\ pc[p] = "main" /\ todo[p] # <<>>
        /\ pc'[p] = "detect" => p = 0
        /\ ~options.singleFile
        /\ UNCHANGED <<todo, result, sent, received, range, index, checked>>
    BY DEF IndInv, Types, Execute
  <1>6. PlaceInv(p)'
    BY <1>2, <1>5 DEF IndInv, ProcInv, PlaceInv
  <1>7. Progress(p)'
    BY <1>2, <1>5 DEF IndInv, ProcInv, Progress, DoneBelow
  <1>8. Report(p)'
    BY <1>2, <1>5 DEF IndInv, ProcInv, Report
  <1>9. ProcInv(p)'
    BY <1>6, <1>7, <1>8 DEF ProcInv
  <1>10. QED
    BY <1>1, <1>3, <1>4, <1>9, OneProcess DEF Execute, IndInv, Types

\* A collector of all processes is only constructed by a process that is alone.
LEMMA DetectFileMPISizeInv ==
    ASSUME IndInv, NEW p \in Procs, DetectFileMPISize(p)
    PROVE  IndInv'
  <1>1. UNCHANGED world /\ UNCHANGED checked
    BY DEF DetectFileMPISize
  <1>2. /\ Detected' = Detected /\ Files' = Files /\ Procs' = Procs
        /\ launch' = launch /\ options' = options /\ bad' = bad
    BY <1>1, WorldKeeps DEF IndInv
  <1>3. /\ sent \in Seq({Detected}) /\ sent' = Append(sent, Detected)
        /\ received[p] <= Len(sent) /\ received[p] \in Nat /\ Len(sent) \in Nat
    BY LenProperties DEF IndInv, Types, DetectFileMPISize, ProcInv, PlaceInv
  <1>4. sent' \in Seq({Detected}) /\ Len(sent') = Len(sent) + 1
    <2>1. \A S, seq, elt : seq \in Seq(S) /\ elt \in S =>
              Append(seq, elt) \in Seq(S) /\ Len(Append(seq, elt)) = Len(seq) + 1
      BY AppendProperties
    <2>2. QED
      BY <1>3, <2>1
  <1>5. sent' # <<>> /\ received[p] <= Len(sent')
    BY <1>3, <1>4
  <1>6. pc[p] = "detect" /\ ~options.singleFile
    BY DEF IndInv, ProcInv, PlaceInv, DetectFileMPISize
  <1>7. ASSUME options.parallelFile PROVE launch.procs = 1
    <2>1. \A q \in Procs : pc[q] \in {"detect", "construct"}
      BY <1>7 DEF DetectFileMPISize, Constructs
    <2>2. SUFFICES ASSUME launch.procs # 1 PROVE FALSE
      OBVIOUS
    <2>3. 1 \in Procs
      BY <2>2, WorldFacts DEF IndInv
    <2>4. pc[1] = "construct"
      BY <2>1, <2>3 DEF IndInv, ProcInv, PlaceInv
    <2>5. sent # <<>>
      BY <1>6, <2>3, <2>4 DEF IndInv, ProcInv, PlaceInv
    <2>6. QED
      BY <1>7, <2>2, <2>5 DEF IndInv, Types
  <1>8. Types'
    BY <1>2, <1>4, <1>6, <1>7 DEF IndInv, Types, DetectFileMPISize, Places
  <1>9. CheckedInv'
    BY <1>1, <1>5, ChecksKeep
  <1>10. /\ pc'[p] = "receive"
         /\ UNCHANGED <<todo, result, received, range, index, checked>>
    BY DEF IndInv, Types, DetectFileMPISize
  <1>11. PlaceInv(p)'
    BY <1>2, <1>5, <1>6, <1>10 DEF IndInv, ProcInv, PlaceInv
  <1>12. Progress(p)'
    BY <1>2, <1>6, <1>10 DEF IndInv, ProcInv, Progress, DoneBelow
  <1>13. Report(p)'
    BY <1>2, <1>6, <1>10 DEF IndInv, ProcInv, Report
  <1>14. ProcInv(p)'
    BY <1>11, <1>12, <1>13 DEF ProcInv
  <1>15. QED
    BY <1>1, <1>3, <1>8, <1>9, <1>14, OneProcess DEF DetectFileMPISize, IndInv, Types

\* The step of the process, and nothing else, as far as the processes go.
OnlyOf(p) ==
    \A q \in Procs \ {p} :
        /\ pc'[q] = pc[q] /\ todo'[q] = todo[q] /\ result'[q] = result[q]
        /\ received'[q] = received[q] /\ range'[q] = range[q] /\ index'[q] = index[q]

LEMMA ListFacts ==
    ASSUME NEW s \in Seq(Functions), s # <<>>
    PROVE  /\ Head(s) \in Functions /\ Tail(s) \in Seq(Functions)
           /\ Head(s) = s[1] /\ 1 \in DOMAIN s
           /\ s = <<"-c">> => Tail(s) = <<>> /\ Head(s) = "-c"
           /\ \A k \in DOMAIN s : k # 1 => k - 1 \in DOMAIN Tail(s) /\ s[k] = Tail(s)[k - 1]
  <1>1. /\ Len(s) \in Nat \ {0} /\ DOMAIN s = 1..Len(s) /\ Head(s) = s[1]
        /\ Tail(s) \in Seq(Functions) /\ Len(Tail(s)) = Len(s) - 1
        /\ \A i \in 1..(Len(s) - 1) : Tail(s)[i] = s[i + 1]
    OBVIOUS
  <1>2. Head(s) \in Functions
    BY <1>1
  <1>3. s = <<"-c">> => Tail(s) = <<>> /\ Head(s) = "-c"
    OBVIOUS
  <1>4. DOMAIN Tail(s) = 1..(Len(s) - 1)
    BY <1>1
  <1>5. ASSUME NEW k \in DOMAIN s, k # 1
        PROVE  k - 1 \in DOMAIN Tail(s) /\ s[k] = Tail(s)[k - 1]
    <2>1. k - 1 \in 1..(Len(s) - 1) /\ (k - 1) + 1 = k
      BY <1>1, <1>5
    <2>2. QED
      BY <1>1, <1>4, <2>1
  <1>6. QED
    BY <1>1, <1>2, <1>3, <1>5

\* executeToolFunction() returns: a check is only taken from the list when it has
\* tested all files of the process.
LEMMA ReturnInv ==
    ASSUME IndInv, UNCHANGED world, NEW p \in Procs, NEW r, Return(p, r),
           todo[p] # <<>>, pc[p] \notin {"start", "killed"}, UNCHANGED sent,
           range'[p] \in {NoRange, ShareOf(launch.procs, Files, p)},
           received'[p] <= Len(sent),
           checked \subseteq checked',
           Head(todo[p]) = "-c" => DoneBelow(p, Files)',
           options.functions = <<"-c">> =>
               /\ \A c \in checked' : c.proc = p /\ c.file \in bad => r = "ERROR"
               /\ Files = 0 => r = "ERROR"
    PROVE  ProcInv(p)'
  <1>1. /\ Detected' = Detected /\ Files' = Files /\ Procs' = Procs
        /\ launch' = launch /\ options' = options /\ bad' = bad
    BY WorldKeeps DEF IndInv
  <1>2. todo[p] \in Seq(Functions)
    BY DEF IndInv, Types
  <1>3. /\ pc'[p] = "main" /\ todo'[p] = Tail(todo[p]) /\ result'[p] = r
    BY DEF IndInv, Types, Return
  <1>4. PlaceInv(p)'
    BY <1>1, <1>3 DEF PlaceInv
  <1>5. Progress(p)'
    <2>1. SUFFICES ASSUME options.result = "OK",
                          \E k \in DOMAIN options.functions : options.functions[k] = "-c",
                          \A k \in DOMAIN todo'[p] : todo'[p][k] # "-c"
                   PROVE  DoneBelow(p, Files)'
      BY <1>1, <1>3 DEF Progress
    <2>2. CASE Head(todo[p]) = "-c"
      BY <2>2
    <2>3. CASE Head(todo[p]) # "-c"
      <3>1. ASSUME NEW k \in DOMAIN todo[p] PROVE todo[p][k] # "-c"
        <4>1. CASE k = 1
          BY <1>2, <2>3, <4>1, ListFacts
        <4>2. CASE k # 1
          BY <1>2, <1>3, <2>1, <3>1, <4>2, ListFacts, ZenonT(40)
        <4>3. QED
          BY <4>1, <4>2
      <3>2. DoneBelow(p, Files)
        BY <2>1, <3>1 DEF IndInv, ProcInv, Progress
      <3>3. QED
        BY <1>1, <3>2 DEF DoneBelow
    <2>4. QED
      BY <2>2, <2>3
  <1>6. Report(p)'
    <2>1. SUFFICES ASSUME options.functions = <<"-c">> PROVE Report(p)'
      BY <1>1 DEF Report
    <2>2. todo[p] = <<"-c">>
      BY <2>1 DEF IndInv, ProcInv, Report
    <2>3. todo'[p] = <<>>
      BY <1>2, <1>3, <2>2, ListFacts
    <2>4. QED
      BY <1>1, <1>3, <2>2, <2>3 DEF Report
  <1>7. QED
    BY <1>4, <1>5, <1>6 DEF ProcInv

\* What Return changes.
LEMMA ReturnTypes ==
    ASSUME IndInv, UNCHANGED world, NEW p \in Procs, NEW r \in {"OK", "ERROR"},
           Return(p, r), todo[p] # <<>>
    PROVE  /\ pc' \in [Procs' -> Places] /\ todo' \in [Procs' -> Seq(Functions)]
           /\ result' \in [Procs' -> {"OK", "ERROR"}]
           /\ \A q \in Procs \ {p} :
                  pc'[q] = pc[q] /\ todo'[q] = todo[q] /\ result'[q] = result[q]
  <1>1. Procs' = Procs
    BY WorldKeeps DEF IndInv
  <1>2. Tail(todo[p]) \in Seq(Functions)
    BY ListFacts DEF IndInv, Types
  <1>3. QED
    BY <1>1, <1>2 DEF Return, IndInv, Types, Places

LEMMA SingleShare ==
    ASSUME IndInv, NEW p \in Procs, options.singleFile
    PROVE  /\ Files = 1
           /\ p = 0 => ShareOf(launch.procs, Files, p) = [start |-> 0, end |-> 0]
           /\ \A i \in Nat : Holds(launch.procs, Files, p, i) => p = 0
  <1>1. launch.procs \in Nat \ {0} /\ p \in 0..(launch.procs - 1) /\ Files = 1
    BY WorldFacts DEF IndInv, Files
  <1>2. ShareOf(launch.procs, 1, p) = IF p < 1 THEN [start |-> p, end |-> p] ELSE NoRange
    BY <1>1 DEF ShareOf
  <1>3. QED
    BY <1>1, <1>2 DEF Holds, NoRange

LEMMA ExecuteOnSingleFileInv ==
    ASSUME IndInv, NEW p \in Procs, ExecuteOnSingleFile(p)
    PROVE  IndInv'
  <1>1. UNCHANGED world /\ UNCHANGED checked /\ UNCHANGED sent /\ options.singleFile
        /\ UNCHANGED received /\ pc[p] = "main" /\ todo[p] # <<>>
    BY DEF ExecuteOnSingleFile
  <1>2. /\ Detected' = Detected /\ Files' = Files /\ Procs' = Procs
        /\ launch' = launch /\ options' = options /\ bad' = bad
    BY <1>1, WorldKeeps DEF IndInv
  <1>3. CheckedInv'
    BY <1>1, ChecksKeep
  <1>4. /\ Files = 1
        /\ p = 0 => ShareOf(launch.procs, Files, p) = [start |-> 0, end |-> 0]
        /\ \A i \in Nat : Holds(launch.procs, Files, p, i) => p = 0
    BY <1>1, SingleShare
  <1>5. CASE p = 0
    <2>a. /\ pc' = [pc EXCEPT ![p] = "construct"] /\ todo' = todo
          /\ range' = [range EXCEPT ![p] = [start |-> 0, end |-> 0]]
          /\ index' = [index EXCEPT ![p] = 0] /\ result' = [result EXCEPT ![p] = "OK"]
      BY <1>5 DEF ExecuteOnSingleFile
    <2>b. /\ "construct" \in Places /\ 0 \in Int
          /\ [start |-> 0, end |-> 0] \in [start : Int, end : Int]
      BY DEF Places
    <2>c. /\ pc' \in [Procs -> Places] /\ range' \in [Procs -> [start : Int, end : Int]]
          /\ index' \in [Procs -> Int] /\ result' \in [Procs -> {"OK", "ERROR"}]
      BY <2>a, <2>b DEF IndInv, Types
    <2>1. Types'
      BY <1>1, <1>2, <2>a, <2>c DEF IndInv, Types
    <2>2. /\ pc'[p] = "construct" /\ range'[p] = [start |-> 0, end |-> 0] /\ index'[p] = 0
          /\ result'[p] = "OK" /\ todo' = todo
      BY <1>5 DEF IndInv, Types, ExecuteOnSingleFile
    <2>3. PlaceInv(p)'
      BY <1>1, <1>2, <1>4, <1>5, <2>2 DEF IndInv, ProcInv, PlaceInv, NoRange
    <2>4. Progress(p)'
      BY <1>1, <1>2, <2>2 DEF IndInv, ProcInv, Progress, DoneBelow
    <2>5. Report(p)'
      BY <1>1, <1>2, <2>2 DEF IndInv, ProcInv, Report
    <2>6. ProcInv(p)'
      BY <2>3, <2>4, <2>5 DEF ProcInv
    <2>7. OnlyOf(p)
      BY <1>1, <1>5 DEF OnlyOf, ExecuteOnSingleFile, IndInv, Types
    <2>8. QED
      BY <1>1, <1>3, <2>1, <2>6, <2>7, OneProcess DEF OnlyOf
  <1>6. CASE p # 0
    <2>1. Return(p, "OK") /\ UNCHANGED <<range, index>>
      BY <1>6 DEF ExecuteOnSingleFile
    <2>2. Types'
      BY <1>1, <1>2, <2>1, ReturnTypes DEF IndInv, Types
    <2>3. DoneBelow(p, Files)'
      BY <1>2, <1>4, <1>6 DEF DoneBelow
    <2>4. \A c \in checked' : c.proc # p
      BY <1>1, <1>4, <1>6 DEF IndInv, CheckedInv
    <2>5. range[p] \in {NoRange, ShareOf(launch.procs, Files, p)} /\ received[p] <= Len(sent)
      BY DEF IndInv, ProcInv, PlaceInv
    <2>6. ProcInv(p)'
      <3>1. range'[p] = range[p] /\ received'[p] = received[p] /\ Files # 0
        BY <1>1, <1>4, <2>1
      <3>2. QED
        BY <1>1, <2>1, <2>3, <2>4, <2>5, <3>1, ReturnInv
    <2>7. OnlyOf(p)
      BY <1>1, <2>1, ReturnTypes DEF OnlyOf
    <2>8. QED
      BY <1>1, <1>3, <2>2, <2>6, <2>7, OneProcess DEF OnlyOf
  <1>7. QED
    BY <1>5, <1>6

\* What filesToProcesses() computes is the share of the process.
LEMMA RangeIsShare ==
    ASSUME IndInv, NEW p \in Procs
    PROVE  FilesToProcesses(p, Files) = ShareOf(launch.procs, Files, p)
  <1>1. launch.procs \in Nat \ {0} /\ p \in 0..(launch.procs - 1) /\ Files \in Nat
    BY WorldFacts DEF IndInv
  <1>2. range[p] \in {NoRange, ShareOf(launch.procs, Files, p)}
    BY DEF IndInv, ProcInv, PlaceInv
  <1>3. QED
    BY <1>1, <1>2 DEF FilesToProcesses, ShareOf

LEMMA ReceiveInv ==
    ASSUME IndInv, NEW p \in Procs, Receive(p)
    PROVE  IndInv'
  <1> DEFINE share == ShareOf(launch.procs, Files, p)
  <1>1. UNCHANGED world /\ UNCHANGED checked /\ UNCHANGED sent
        /\ pc[p] = "receive" /\ todo[p] # <<>> /\ ~options.singleFile
        /\ received' = [received EXCEPT ![p] = @ + 1]
    BY DEF Receive, IndInv, ProcInv, PlaceInv
  <1>2. /\ Detected' = Detected /\ Files' = Files /\ Procs' = Procs
        /\ launch' = launch /\ options' = options /\ bad' = bad
    BY <1>1, WorldKeeps DEF IndInv
  <1>3. CheckedInv'
    BY <1>1, ChecksKeep
  <1>4. /\ received[p] \in Nat /\ received[p] < Len(sent) /\ sent \in Seq({Detected})
        /\ Len(sent) \in Nat
    BY LenProperties DEF Receive, IndInv, Types
  <1>5. sent[received[p] + 1] = Detected /\ sent # <<>>
    <2>1. received[p] + 1 \in 1..Len(sent)
      BY <1>4
    <2>2. QED
      BY <1>4, <2>1
  <1>6. Count(sent[received[p] + 1]) = Files
    BY <1>1, <1>5 DEF Files
  <1>7. FilesToProcesses(p, Files) = share
    BY RangeIsShare
  <1>8. /\ received' \in [Procs -> Nat] /\ received'[p] = received[p] + 1
        /\ received'[p] <= Len(sent)
        /\ \A q \in Procs \ {p} : received'[q] = received[q]
    BY <1>1, <1>4 DEF IndInv, Types
  <1>9. launch.procs \in Nat \ {0} /\ p \in 0..(launch.procs - 1) /\ Files \in Nat
    BY WorldFacts DEF IndInv
  <1>10. CASE Files = 0
    <2>1. Return(p, "ERROR") /\ UNCHANGED <<range, index>>
      BY <1>6, <1>10 DEF Receive
    <2>2. Types'
      BY <1>1, <1>2, <1>8, <2>1, ReturnTypes DEF IndInv, Types
    <2>3. DoneBelow(p, Files)'
      BY <1>2, <1>10 DEF DoneBelow
    <2>4. range'[p] \in {NoRange, share}
      BY <2>1 DEF IndInv, ProcInv, PlaceInv
    <2>5. ProcInv(p)'
      BY <1>1, <1>8, <2>1, <2>3, <2>4, ReturnInv
    <2>6. OnlyOf(p)
      BY <1>1, <1>8, <2>1, ReturnTypes DEF OnlyOf
    <2>7. QED
      BY <1>1, <1>3, <2>2, <2>5, <2>6, OneProcess DEF OnlyOf
  <1>11. ASSUME Files # 0
         PROVE  /\ share = [start |-> share.start, end |-> share.end]
                /\ \/ share = NoRange
                   \/ share.start \in Nat /\ share.end \in Nat /\ share.start <= share.end
                      /\ share.end <= Files - 1
                /\ range' = [range EXCEPT ![p] = share]
                /\ range' \in [Procs -> [start : Int, end : Int]] /\ range'[p] = share
                /\ \A q \in Procs \ {p} : range'[q] = range[q]
    <2>1. /\ share = [start |-> share.start, end |-> share.end]
          /\ \/ share = NoRange
             \/ share.start \in Nat /\ share.end \in Nat /\ share.start <= share.end
                /\ share.end <= Files - 1
      BY <1>9, <1>11, ShareRange
    <2>2. range' = [range EXCEPT ![p] = share]
      BY <1>6, <1>7, <1>11 DEF Receive
    <2>3. share \in [start : Int, end : Int]
      BY <2>1 DEF NoRange
    <2> HIDE DEF share
    <2>4. QED
      BY <2>1, <2>2, <2>3 DEF IndInv, Types
  <1>12. CASE Files # 0 /\ share.start = -1
    <2>1. Return(p, "OK") /\ UNCHANGED index
      BY <1>6, <1>7, <1>12 DEF Receive
    <2>2. Types'
      BY <1>1, <1>2, <1>8, <1>11, <1>12, <2>1, ReturnTypes DEF IndInv, Types
    <2>3. share = NoRange
      <3>1. ~(share.start \in Nat)
        BY <1>12
      <3>2. QED
        BY <1>11, <1>12, <3>1
    <2>4. DoneBelow(p, Files)'
      BY <1>2, <2>3 DEF DoneBelow, Holds, NoRange
    <2>5. \A c \in checked : c.proc # p
      <3>1. ASSUME NEW c \in checked, c.proc = p PROVE FALSE
        BY <1>9, <2>3, <3>1 DEF IndInv, CheckedInv, Holds, NoRange
      <3>2. QED
        BY <3>1
    <2>6. ProcInv(p)'
      BY <1>1, <1>8, <1>11, <1>12, <2>1, <2>4, <2>5, ReturnInv
    <2>7. OnlyOf(p)
      BY <1>1, <1>8, <1>11, <1>12, <2>1, ReturnTypes DEF OnlyOf
    <2>8. QED
      BY <1>1, <1>3, <2>2, <2>6, <2>7, OneProcess DEF OnlyOf
  <1>13. CASE Files # 0 /\ share.start # -1
    <2>1. /\ pc' = [pc EXCEPT ![p] = "construct"] /\ todo' = todo
          /\ index' = [index EXCEPT ![p] = share.start]
          /\ result' = [result EXCEPT ![p] = "OK"]
      BY <1>6, <1>7, <1>13 DEF Receive
    <2>2. share.start \in Nat /\ share.end \in Nat /\ share.start <= share.end
      BY <1>11, <1>13 DEF NoRange
    <2> DEFINE first == share.start
    <2>3. first \in Int
      BY <2>2
    <2>4. /\ pc' \in [Procs -> Places] /\ index' \in [Procs -> Int]
          /\ result' \in [Procs -> {"OK", "ERROR"}]
          /\ pc'[p] = "construct" /\ index'[p] = first /\ result'[p] = "OK"
          /\ \A q \in Procs \ {p} :
                 pc'[q] = pc[q] /\ index'[q] = index[q] /\ result'[q] = result[q]
      <3>1. index' = [index EXCEPT ![p] = first] /\ "construct" \in Places
        BY <2>1 DEF Places
      <3> HIDE DEF first
      <3>2. QED
        BY <2>1, <2>3, <3>1 DEF IndInv, Types
    <2>5. Types'
      BY <1>1, <1>2, <1>8, <1>11, <1>13, <2>1, <2>4 DEF IndInv, Types
    <2>6. PlaceInv(p)'
      BY <1>1, <1>2, <1>5, <1>8, <1>9, <1>11, <1>13, <2>1, <2>2, <2>4 DEF PlaceInv
    <2>7. Progress(p)'
      BY <1>1, <1>2, <2>1, <2>4 DEF IndInv, ProcInv, Progress, DoneBelow
    <2>8. Report(p)'
      BY <1>1, <1>2, <2>1, <2>4 DEF IndInv, ProcInv, Report
    <2>9. ProcInv(p)'
      BY <2>6, <2>7, <2>8 DEF ProcInv
    <2>10. OnlyOf(p)
      BY <1>8, <1>11, <1>13, <2>1, <2>4 DEF OnlyOf
    <2>11. QED
      BY <1>1, <1>3, <2>5, <2>9, <2>10, OneProcess DEF OnlyOf
  <1>14. QED
    BY <1>10, <1>12, <1>13

LEMMA ConstructInv ==
    ASSUME IndInv, NEW p \in Procs, Construct(p)
    PROVE  IndInv'
  <1>1. UNCHANGED world /\ UNCHANGED checked /\ UNCHANGED sent
    BY DEF Construct
  <1>2. /\ Detected' = Detected /\ Files' = Files /\ Procs' = Procs
        /\ launch' = launch /\ options' = options /\ bad' = bad
    BY <1>1, WorldKeeps DEF IndInv
  <1>3. Types'
    BY <1>2 DEF IndInv, Types, Construct, Places
  <1>4. CheckedInv'
    BY <1>1, ChecksKeep
  <1>5. /\ pc'[p] = "tool" /\ pc[p] = "construct"
        /\ UNCHANGED <<todo, result, sent, received, range, index, checked>>
    BY DEF IndInv, Types, Construct
  <1>6. PlaceInv(p)'
    BY <1>2, <1>5 DEF IndInv, ProcInv, PlaceInv
  <1>7. Progress(p)'
    <2>1. DoneBelow(p, index[p])
      <3>1. index[p] = ShareOf(launch.procs, Files, p).start /\ index[p] \in Int
        BY <1>5 DEF IndInv, ProcInv, PlaceInv, Types
      <3>2. QED
        BY <3>1 DEF DoneBelow, Holds
    <2>2. QED
      BY <1>2, <1>5, <2>1 DEF IndInv, ProcInv, Progress, DoneBelow
  <1>8. Report(p)'
    BY <1>2, <1>5 DEF IndInv, ProcInv, Report
  <1>9. ProcInv(p)'
    BY <1>6, <1>7, <1>8 DEF ProcInv
  <1>10. QED
    BY <1>1, <1>3, <1>4, <1>9, OneProcess DEF Construct, IndInv, Types

\* A process at work is in its share.
LEMMA AtWork ==
    ASSUME IndInv, NEW p \in Procs, pc[p] = "tool"
    PROVE  LET share == ShareOf(launch.procs, Files, p) IN
           /\ todo[p] # <<>> /\ todo[p] \in Seq(Functions)
           /\ range[p] = share /\ Files > 0
           /\ index[p] \in 0..(Files - 1) /\ share.start \in Nat /\ share.end \in Nat
           /\ index[p] <= share.end /\ Holds(launch.procs, Files, p, index[p])
           /\ ~options.singleFile => sent # <<>>
           /\ received[p] <= Len(sent)
  <1> DEFINE share == ShareOf(launch.procs, Files, p)
  <1>1. /\ todo[p] # <<>> /\ range[p] = share /\ Files > 0 /\ share.start # -1
        /\ share.start <= index[p] /\ index[p] <= share.end
        /\ ~options.singleFile => sent # <<>>
        /\ received[p] <= Len(sent)
    BY DEF IndInv, ProcInv, PlaceInv
  <1>2. launch.procs \in Nat \ {0} /\ p \in 0..(launch.procs - 1) /\ Files \in Nat \ {0}
    BY <1>1, WorldFacts DEF IndInv
  <1>3. \/ share = NoRange
        \/ share.start \in Nat /\ share.end \in Nat /\ share.start <= share.end
           /\ share.end <= Files - 1
    BY <1>2, ShareRange
  <1>4. share.start \in Nat /\ share.end \in Nat /\ share.end <= Files - 1
    BY <1>1, <1>3 DEF NoRange
  <1>5. index[p] \in Int /\ todo[p] \in Seq(Functions)
    BY DEF IndInv, Types
  <1>6. Holds(launch.procs, Files, p, index[p])
    BY <1>1 DEF Holds
  <1> HIDE DEF share
  <1>7. index[p] \in 0..(Files - 1)
    BY <1>1, <1>2, <1>4, <1>5
  <1>8. QED
    BY <1>1, <1>4, <1>5, <1>6, <1>7 DEF share

\* The tool function has worked on a file. A check has tested it.
LEMMA AdvanceInv ==
    ASSUME IndInv, NEW p \in Procs, pc[p] = "tool", NEW r \in {"OK", "ERROR"},
           Advance(p, r), UNCHANGED world, UNCHANGED <<sent, received, range>>,
           CheckedInv', checked \subseteq checked', \A c \in checked' \ checked : c.proc = p,
           Head(todo[p]) = "-c" =>
               /\ CheckOf(options, Detected, p, index[p]) \in checked'
               /\ \A c \in checked' \ checked : c.file \in bad => r = "ERROR"
    PROVE  IndInv'
  <1> DEFINE share == ShareOf(launch.procs, Files, p)
             s == Combine(result[p], r)
  <1>1. /\ Detected' = Detected /\ Files' = Files /\ Procs' = Procs
        /\ launch' = launch /\ options' = options /\ bad' = bad
    BY WorldKeeps DEF IndInv
  <1>2. /\ todo[p] # <<>> /\ todo[p] \in Seq(Functions)
        /\ range[p] = share /\ Files > 0
        /\ index[p] \in 0..(Files - 1) /\ share.start \in Nat /\ share.end \in Nat
        /\ index[p] <= share.end /\ received[p] <= Len(sent) /\ share.start <= index[p]
        /\ share.start # -1 /\ (~options.singleFile => sent # <<>>)
    BY AtWork DEF IndInv, ProcInv, PlaceInv
  <1>3. s \in {"OK", "ERROR"} /\ (r = "ERROR" => s = "ERROR")
        /\ (result[p] = "ERROR" => s = "ERROR")
    BY DEF Combine
  <1>4. Head(todo[p]) = "-c" =>
            \A i \in 0..(Files - 1) :
                Holds(launch.procs, Files, p, i) /\ i < index[p] + 1 =>
                    CheckOf(options, Detected, p, i) \in checked'
    <2>1. SUFFICES ASSUME Head(todo[p]) = "-c", NEW i \in 0..(Files - 1),
                          Holds(launch.procs, Files, p, i), i < index[p] + 1
                   PROVE  CheckOf(options, Detected, p, i) \in checked'
      OBVIOUS
    <2>2. CASE i = index[p]
      BY <2>1, <2>2
    <2>3. CASE i # index[p]
      <3>1. i < index[p]
        BY <1>2, <2>1, <2>3
      <3>2. DoneBelow(p, index[p])
        BY <2>1 DEF IndInv, ProcInv, Progress
      <3>3. QED
        BY <2>1, <3>1, <3>2 DEF DoneBelow
    <2>4. QED
      BY <2>2, <2>3
  <1>5. options.functions = <<"-c">> =>
            \A c \in checked' : c.proc = p /\ c.file \in bad => s = "ERROR"
    <2>1. SUFFICES ASSUME options.functions = <<"-c">>, NEW c \in checked', c.proc = p,
                          c.file \in bad
                   PROVE  s = "ERROR"
      OBVIOUS
    <2>2. todo[p] = <<"-c">> /\ Head(todo[p]) = "-c"
      BY <1>2, <2>1, ListFacts DEF IndInv, ProcInv, Report
    <2>3. CASE c \in checked
      BY <1>3, <2>1, <2>3 DEF IndInv, ProcInv, Report
    <2>4. CASE c \notin checked
      BY <1>3, <2>1, <2>2, <2>4
    <2>5. QED
      BY <2>3, <2>4
  <1> HIDE DEF s
  <1>6. CASE index[p] = range[p].end
    <2>1. Return(p, s) /\ UNCHANGED index
      BY <1>6 DEF Advance, s
    <2>2. Types'
      BY <1>1, <1>3, <1>2, <2>1, ReturnTypes DEF IndInv, Types
    <2>3. Head(todo[p]) = "-c" => DoneBelow(p, Files)'
      <3>1. ASSUME NEW i \in 0..(Files - 1), Holds(launch.procs, Files, p, i)
            PROVE  i < index[p] + 1
        BY <1>2, <1>6, <3>1 DEF Holds
      <3>2. QED
        BY <1>1, <1>4, <3>1 DEF DoneBelow
    <2>4. ProcInv(p)'
      BY <1>2, <1>5, <2>1, <2>3, ReturnInv
    <2>5. OnlyOf(p)
      BY <1>2, <1>3, <2>1, ReturnTypes DEF OnlyOf
    <2>6. QED
      BY <2>2, <2>4, <2>5, OneProcess DEF OnlyOf
  <1>7. CASE index[p] # range[p].end
    <2>1. /\ index' = [index EXCEPT ![p] = @ + 1] /\ pc' = pc /\ todo' = todo
          /\ result' = [result EXCEPT ![p] = s]
      BY <1>7 DEF Advance, s
    <2>2. index[p] + 1 \in Int /\ index[p] + 1 <= share.end
      BY <1>2, <1>7
    <2>3. /\ index' \in [Procs -> Int] /\ result' \in [Procs -> {"OK", "ERROR"}]
          /\ index'[p] = index[p] + 1 /\ result'[p] = s
          /\ \A q \in Procs \ {p} : index'[q] = index[q] /\ result'[q] = result[q]
      BY <1>3, <2>1, <2>2 DEF IndInv, Types
    <2>4. Types'
      BY <1>1, <2>1, <2>3 DEF IndInv, Types
    <2>5. PlaceInv(p)'
      <3>1. share.start <= index[p] + 1
        BY <1>2
      <3>2. QED
        BY <1>1, <1>2, <2>1, <2>2, <2>3, <3>1 DEF PlaceInv
    <2>6. Progress(p)'
      <3>1. DoneBelow(p, Files) => DoneBelow(p, Files)'
        BY <1>1 DEF DoneBelow
      <3>2. Progress(p)
        BY DEF IndInv, ProcInv
      <3>3. Head(todo[p]) = "-c" => DoneBelow(p, index[p])'
        BY <1>1, <1>4, <2>3 DEF DoneBelow
      <3>4. QED
        BY <1>1, <2>1, <2>3, <3>1, <3>2, <3>3 DEF Progress
    <2>7. Report(p)'
      <3>1. Report(p)
        BY DEF IndInv, ProcInv
      <3>2. QED
        BY <1>1, <1>2, <1>5, <2>1, <2>3, <3>1 DEF Report
    <2>8. ProcInv(p)'
      BY <2>5, <2>6, <2>7 DEF ProcInv
    <2>9. OnlyOf(p)
      BY <2>1, <2>3 DEF OnlyOf
    <2>10. QED
      BY <2>4, <2>8, <2>9, OneProcess DEF OnlyOf
  <1>8. QED
    BY <1>6, <1>7

LEMMA TestFileIntegrityInv ==
    ASSUME IndInv, NEW p \in Procs, TestFileIntegrity(p)
    PROVE  IndInv'
  <1> DEFINE file == FileAt(index[p], Size)
             c == [proc |-> p, index |-> index[p], file |-> file]
             r == IF file \in bad THEN "ERROR" ELSE "OK"
  <1>1. /\ UNCHANGED world /\ UNCHANGED <<sent, received, range>> /\ pc[p] = "tool"
        /\ Advance(p, r) /\ checked' = checked \union {c}
    BY DEF TestFileIntegrity
  <1>2. /\ Detected' = Detected /\ Files' = Files /\ Procs' = Procs
        /\ launch' = launch /\ options' = options /\ bad' = bad
    BY <1>1, WorldKeeps DEF IndInv
  <1>3. /\ index[p] \in 0..(Files - 1) /\ Holds(launch.procs, Files, p, index[p])
        /\ ~options.singleFile => sent # <<>>
    BY <1>1, AtWork
  <1>4. ~options.singleFile => Size = Detected
    <2>1. SUFFICES ASSUME ~options.singleFile PROVE Size = Detected
      OBVIOUS
    <2>2. sent \in Seq({Detected}) /\ sent # <<>>
      BY <1>3, <2>1 DEF IndInv, Types
    <2>3. Len(sent) \in 1..Len(sent)
      BY <2>2
    <2>4. sent[Len(sent)] = Detected
      BY <2>2, <2>3
    <2>5. QED
      BY <2>2, <2>4 DEF Size
  <1>5. c = CheckOf(options, Detected, p, index[p])
    BY <1>4 DEF CheckOf, NameOf, FileAt
  <1>6. c.proc = p /\ c.index = index[p] /\ c.file = file
    OBVIOUS
  <1> HIDE DEF file, c
  <1>7. CheckedInv'
    BY <1>1, <1>2, <1>3, <1>5, <1>6 DEF IndInv, CheckedInv
  <1>8. r \in {"OK", "ERROR"} /\ (c.file \in bad => r = "ERROR")
    BY <1>6
  <1> HIDE DEF r
  <1>9. QED
    BY <1>1, <1>5, <1>6, <1>7, <1>8, AdvanceInv

LEMMA ListAvailableDatasetsInv ==
    ASSUME IndInv, NEW p \in Procs, ListAvailableDatasets(p)
    PROVE  IndInv'
  <1>1. /\ UNCHANGED world /\ UNCHANGED <<sent, received, range, checked>> /\ pc[p] = "tool"
        /\ Advance(p, "OK") /\ Head(todo[p]) = "-l"
    BY DEF ListAvailableDatasets
  <1>2. CheckedInv'
    BY <1>1, ChecksKeep
  <1>3. QED
    BY <1>1, <1>2, AdvanceInv

\* A step that only moves processes to places where nothing is left to be said.
LEMMA MoveInv ==
    ASSUME IndInv, pc' \in [Procs -> Places],
           UNCHANGED <<world, todo, result, sent, received, range, index, checked>>,
           \A q \in Procs : \/ pc'[q] = pc[q]
                            \/ pc'[q] = "killed"
                            \/ pc'[q] = "finished" /\ pc[q] = "barrier"
    PROVE  IndInv'
  <1>1. UNCHANGED world /\ UNCHANGED checked /\ UNCHANGED sent
    OBVIOUS
  <1>2. /\ Detected' = Detected /\ Files' = Files /\ Procs' = Procs /\ WorldTypes'
        /\ launch' = launch /\ options' = options /\ bad' = bad
    BY <1>1, WorldKeeps DEF IndInv
  <1>3. Types'
    BY <1>2 DEF IndInv, Types
  <1>4. CheckedInv'
    BY <1>1, ChecksKeep
  <1>5. ASSUME NEW q \in Procs PROVE ProcInv(q)'
    <2>1. PlaceInv(q)'
      BY <1>2 DEF IndInv, ProcInv, PlaceInv
    <2>2. Progress(q)'
      BY <1>2 DEF IndInv, ProcInv, Progress, DoneBelow
    <2>3. Report(q)'
      BY <1>2 DEF IndInv, ProcInv, Report
    <2>4. QED
      BY <2>1, <2>2, <2>3 DEF ProcInv
  <1>6. QED
    BY <1>2, <1>3, <1>4, <1>5 DEF IndInv

LEMMA ListThrowsInv ==
    ASSUME IndInv, NEW p \in Procs, ListThrows(p)
    PROVE  IndInv'
  <1>1. pc' = [q \in Procs |-> IF pc[q] = "finished" THEN pc[q] ELSE "killed"]
    BY DEF ListThrows
  <1>2. pc' \in [Procs -> Places]
    BY <1>1 DEF Places
  <1>3. QED
    BY <1>1, <1>2, MoveInv DEF ListThrows

LEMMA BarrierInv ==
    ASSUME IndInv, Barrier
    PROVE  IndInv'
  <1>1. pc' = [q \in Procs |-> "finished"]
    BY DEF Barrier
  <1>2. pc' \in [Procs -> Places]
    BY <1>1 DEF Places
  <1>3. QED
    BY <1>1, <1>2, MoveInv DEF Barrier

LEMMA StutterInv ==
    ASSUME IndInv, UNCHANGED vars
    PROVE  IndInv'
  <1>1. pc' \in [Procs -> Places]
    BY DEF vars, IndInv, Types
  <1>2. QED
    BY <1>1, MoveInv DEF vars, world

LEMMA StepInv == IndInv /\ [Next]_vars => IndInv'
  <1> SUFFICES ASSUME IndInv, [Next]_vars PROVE IndInv'
    OBVIOUS
  <1>1. ASSUME NEW p \in Procs, Step(p) PROVE IndInv'
    BY <1>1, StartInv, FinishInv, ExecuteOnSingleFileInv, ExecuteInv, DetectFileMPISizeInv,
       ReceiveInv, ConstructInv, TestFileIntegrityInv, ListAvailableDatasetsInv,
       ListThrowsInv DEF Step
  <1>2. CASE Barrier
    BY <1>2, BarrierInv
  <1>3. CASE UNCHANGED vars
    BY <1>3, StutterInv
  <1>4. QED
    BY <1>1, <1>2, <1>3 DEF Next

\* Types, who works on which file, what has been tested and what it was reported
\* as stay in step, for any launch, topology and damage (splashtools.cpp:335-480).
THEOREM Invariance == Spec => []IndInv
  BY InitInv, StepInv, PTL DEF Spec


-----------------------------------------------------------------------------
(* What follows from it *)

\* Without base names of its own the size is that of the run, unless the master
\* file cannot be read.
LEMMA NamedByPosition ==
    ASSUME WorldTypes, ~options.singleFile, ~options.parallelFile, Files > 0
    PROVE  /\ Detected = topology /\ Files = Count(topology)
           /\ \A i : NameOf(options, Detected, i) = IndexToPos(i, topology)
  <1>1. Files = Count(Detected) /\ Detected \in {<<0, 0, 0>>, topology}
    BY DEF Files, Detected
  <1>2. Count(<<0, 0, 0>>) = 0
    BY DEF Count
  <1>3. Detected = topology
    BY <1>1, <1>2
  <1>4. QED
    BY <1>1, <1>3 DEF NameOf

LEMMA ImpliesTypes == IndInv => TypeOK
  <1> SUFFICES ASSUME IndInv PROVE TypeOK
    OBVIOUS
  <1>1. ASSUME NEW c \in checked
        PROVE  c.file \in PositionsOf(topology) \union {<<>>, <<0>>}
    <2>1. /\ c.proc \in Procs /\ c.index \in 0..(Files - 1)
          /\ c = CheckOf(options, Detected, c.proc, c.index)
          /\ ~options.singleFile => sent # <<>>
      BY DEF IndInv, CheckedInv
    <2>2. c.file = NameOf(options, Detected, c.index)
      BY <2>1 DEF CheckOf
    <2>3. CASE options.singleFile
      BY <2>2, <2>3 DEF NameOf
    <2>4. CASE ~options.singleFile /\ options.parallelFile
      <3>1. Detected = <<1, 1, 1>>
        BY <2>1, <2>4 DEF IndInv, Types, Detected
      <3>2. Count(<<1, 1, 1>>) = 1
        BY DEF Count
      <3>3. c.index = 0
        BY <2>1, <2>4, <3>1, <3>2 DEF Files
      <3>4. QED
        BY <2>2, <2>4, <3>3 DEF NameOf
    <2>5. CASE ~options.singleFile /\ ~options.parallelFile
      <3>1. Files > 0
        BY <2>1, WorldFacts DEF IndInv
      <3>2. c.file = IndexToPos(c.index, topology) /\ Files = Count(topology)
        BY <2>2, <2>5, <3>1, NamedByPosition DEF IndInv
      <3>3. topology \in Topologies
        BY DEF IndInv, WorldTypes
      <3>4. QED
        BY <2>1, <3>2, <3>3, PosFacts
    <2>6. QED
      BY <2>3, <2>4, <2>5 DEF IndInv, WorldTypes
  <1>2. \A p \in Procs : received[p] <= Len(sent)
    BY DEF IndInv, ProcInv, PlaceInv
  <1>3. QED
    BY <1>1, <1>2 DEF IndInv, WorldTypes, Types, TypeOK, Places

\* Whatever was tested is a file of the run, and no process takes part in a
\* broadcast that was not sent (splashtools.cpp:335-480).
THEOREM TypeCorrect == Spec => []TypeOK
  BY Invariance, ImpliesTypes, PTL

\* Two tests of one file are the same test: its index is unique, and so is the
\* process that has the index.
LEMMA TestedOnce ==
    ASSUME IndInv, NEW c \in checked, NEW d \in checked, c.file = d.file
    PROVE  c = d
  <1>1. /\ c.proc \in Procs /\ c.index \in 0..(Files - 1)
        /\ c = CheckOf(options, Detected, c.proc, c.index)
        /\ Holds(launch.procs, Files, c.proc, c.index)
    BY DEF IndInv, CheckedInv
  <1>2. /\ d.proc \in Procs /\ d.index \in 0..(Files - 1)
        /\ d = CheckOf(options, Detected, d.proc, d.index)
        /\ Holds(launch.procs, Files, d.proc, d.index)
    BY DEF IndInv, CheckedInv
  <1>3. /\ launch.procs \in Nat \ {0} /\ Procs = 0..(launch.procs - 1)
        /\ Files \in Nat /\ WorldTypes
    BY WorldFacts DEF IndInv
  <1>4. Files \in Nat \ {0}
    BY <1>1, <1>3
  <1>5. c.index = d.index
    <2>1. NameOf(options, Detected, c.index) = NameOf(options, Detected, d.index)
      BY <1>1, <1>2 DEF CheckOf
    <2>2. CASE options.singleFile
      BY <1>1, <1>2, <2>2 DEF Files
    <2>3. CASE ~options.singleFile /\ options.parallelFile
      BY <2>1, <2>3 DEF NameOf
    <2>4. CASE ~options.singleFile /\ ~options.parallelFile
      <3>1. /\ Files = Count(topology)
            /\ IndexToPos(c.index, topology) = IndexToPos(d.index, topology)
        BY <1>3, <1>4, <2>1, <2>4, NamedByPosition
      <3>2. topology \in Topologies
        BY <1>3 DEF WorldTypes
      <3>3. QED
        BY <1>1, <1>2, <3>1, <3>2, PosInjective
    <2>5. QED
      BY <1>3, <2>2, <2>3, <2>4 DEF WorldTypes
  <1>6. c.proc = d.proc
    <2>1. c.index \in Nat /\ c.proc \in 0..(launch.procs - 1)
          /\ d.proc \in 0..(launch.procs - 1)
      BY <1>1, <1>2, <1>3
    <2>2. ~(c.proc < d.proc)
      BY <1>1, <1>2, <1>3, <1>4, <1>5, <2>1, ShareDisjoint
    <2>3. ~(d.proc < c.proc)
      BY <1>1, <1>2, <1>3, <1>4, <1>5, <2>1, ShareDisjoint
    <2>4. QED
      BY <1>3, <2>1, <2>2, <2>3
  <1>7. QED
    BY <1>1, <1>2, <1>5, <1>6

\* Every position has an index, every index a process, and a process that is done
\* has tested all of its files.
LEMMA AllTested ==
    ASSUME IndInv, Finished,
           \E k \in DOMAIN options.functions : options.functions[k] = "-c",
           options.result = "OK", ~options.singleFile, ~options.parallelFile,
           Detected = topology
    PROVE  {c.file : c \in checked} = PositionsOf(topology)
  <1>1. Detected = topology /\ Files = Count(topology)
    BY DEF Files
  <1>2. topology \in Topologies
    BY DEF IndInv, WorldTypes
  <1>3. /\ launch.procs \in Nat \ {0} /\ Procs = 0..(launch.procs - 1)
        /\ Files \in Nat
    BY WorldFacts DEF IndInv
  <1>4. ASSUME NEW c \in checked PROVE c.file \in PositionsOf(topology)
    <2>1. c.index \in 0..(Files - 1) /\ c = CheckOf(options, Detected, c.proc, c.index)
      BY DEF IndInv, CheckedInv
    <2>2. c.file = IndexToPos(c.index, topology)
      <3>1. c.file = NameOf(options, Detected, c.index)
        BY <2>1 DEF CheckOf
      <3>2. QED
        BY <1>1, <3>1 DEF NameOf
    <2>3. QED
      BY <1>1, <1>2, <2>1, <2>2, PosFacts
  <1>5. ASSUME NEW x \in PositionsOf(topology) PROVE \E c \in checked : c.file = x
    <2>1. PICK i \in 0..(Count(topology) - 1) : IndexToPos(i, topology) = x
      BY <1>2, PosSurjective
    <2>2. i \in 0..(Files - 1) /\ Files \in Nat \ {0} /\ i \in Nat /\ i < Files
      <3>1. i \in 0..(Files - 1)
        BY <1>1, <2>1
      <3>2. QED
        BY <1>3, <3>1
    <2>3. PICK p \in 0..(launch.procs - 1) : Holds(launch.procs, Files, p, i)
      BY <1>3, <2>2, ShareCovers
    <2>4. p \in Procs /\ pc[p] = "finished"
      BY <1>3 DEF Finished
    <2>5. todo[p] = <<>>
      BY <2>4 DEF IndInv, ProcInv, PlaceInv
    <2>6. DoneBelow(p, Files)
      <3>1. DOMAIN todo[p] = {}
        BY <2>5
      <3>2. QED
        BY <2>4, <3>1 DEF IndInv, ProcInv, Progress
    <2>7. CheckOf(options, Detected, p, i) \in checked
      BY <2>2, <2>3, <2>6 DEF DoneBelow
    <2>8. CheckOf(options, Detected, p, i).file = x
      BY <1>1, <2>1 DEF CheckOf, NameOf
    <2>9. QED
      BY <2>7, <2>8
  <1>6. QED
    BY <1>4, <1>5

\* After a check every file of the run has been tested by one process, and by that
\* one once, for every topology and any number of processes
\* (splashtools.cpp:387-420).
THEOREM EachFileOnce == Spec => []EveryFileOnce
  <1>1. "-c" \in {options.functions[i] : i \in DOMAIN options.functions} =>
            \E k \in DOMAIN options.functions : options.functions[k] = "-c"
    OBVIOUS
  <1>2. options.filename # "" /\ ~options.parallelFile /\ Master \notin bad =>
            Detected = topology
    BY DEF Detected
  <1>3. IndInv => EveryFileOnce
    BY <1>1, <1>2, TestedOnce, AllTested, Zenon DEF EveryFileOnce
  <1>4. QED
    BY <1>3, Invariance, PTL

\* A damaged file makes some process exit with an error, and a master file that
\* cannot be read makes all of them (splashtools.cpp:384-420, 537-552).
THEOREM FailuresReported == Spec => []FailureReported
  <1>1. ASSUME IndInv, Finished, options.functions = <<"-c">>
        PROVE  /\ (\E c \in checked : c.file \in bad) => \E p \in Procs : result[p] = "ERROR"
               /\ ~options.singleFile /\ ~options.parallelFile /\ Master \in bad =>
                    \A p \in Procs : result[p] = "ERROR"
    <2>1. ASSUME NEW c \in checked, c.file \in bad PROVE \E p \in Procs : result[p] = "ERROR"
      BY <1>1, <2>1 DEF IndInv, CheckedInv, ProcInv, Report
    <2>2. ASSUME ~options.singleFile, ~options.parallelFile, Master \in bad, NEW p \in Procs
          PROVE  result[p] = "ERROR"
      <3>1. Detected = <<0, 0, 0>> /\ Files = Count(<<0, 0, 0>>)
        BY <2>2 DEF Detected, Files
      <3>2. Files = 0
        BY <3>1 DEF Count
      <3>3. pc[p] = "finished" /\ todo[p] = <<>>
        BY <1>1 DEF Finished, IndInv, ProcInv, PlaceInv
      <3>4. QED
        BY <1>1, <3>2, <3>3 DEF IndInv, ProcInv, Report
    <2>3. QED
      BY <2>1, <2>2
  <1>2. IndInv => FailureReported
    BY <1>1 DEF FailureReported
  <1>3. QED
    BY <1>2, Invariance, PTL
=============================================================================
