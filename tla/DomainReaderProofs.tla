------------------------- MODULE DomainReaderProofs -------------------------
(***************************************************************************)
(* readDomain finds the files of a request, for every topology, every grid, *)
(* every rotation of the grid over the files and every request.             *)
(*                                                                          *)
(* The proof follows the loops. The grid behind the files (GridInv) is a    *)
(* line of slots in every dimension, which begins at some position k. The   *)
(* search for k (ZeroInv) keeps k in its range or one step before it. The   *)
(* search for the first file f (FirstInv) keeps f in a range that k does    *)
(* not divide. The walk (WalkState) stands at a place relative to f and has *)
(* seen exactly what lies before it. Theorem Searches puts them together.   *)
(***************************************************************************)
EXTENDS DomainReader, NumberLemmas, FiniteSetTheorems, SequenceTheorems

\* A file and a request that meet in a dimension.
Meets(r, c, i) ==
    /\ r.offset[i] \in Nat /\ r.size[i] \in Nat \ {0}
    /\ c.offset[i] \in Nat /\ c.size[i] \in Nat \ {0}
    /\ r.offset[i] < r.offset[i] + r.size[i]
    /\ r.offset[i] < c.offset[i] + c.size[i]
    /\ c.offset[i] < r.offset[i] + r.size[i]

Common(r, c, i) ==
    {g \in c.offset[i]..End(c)[i] - 1 : r.offset[i] <= g /\ g < End(r)[i]}

\* DomainCollector.cpp:213-246. In one dimension the four cases of
\* readGridInternal() compute the cells that file and request have in common:
\* each goes from its place in the file to its place in the buffer.
LEMMA PieceExact ==
    ASSUME NEW r, NEW c, NEW i \in Dim, Meets(r, c, i)
    PROVE  LET piece == GridPiece(r, c, i) IN
           {<<piece.src + k, piece.dst + k>> : k \in 0..piece.size - 1}
             = {<<g - c.offset[i], g - r.offset[i]>> : g \in Common(r, c, i)}
  <1> DEFINE ro == r.offset[i]
             cs == c.size[i]
             co == c.offset[i]
             re == r.offset[i] + r.size[i]
             ce == c.offset[i] + c.size[i]
             piece == GridPiece(r, c, i)
             first == IF ro <= co THEN co ELSE ro
             last == IF re >= ce THEN ce ELSE re
  <1>1. /\ ro \in Nat /\ co \in Nat /\ re \in Nat /\ ce \in Nat
        /\ ro < ce /\ co < re /\ co < ce /\ ro < re
    BY DEF Meets
  <1>2. End(r)[i] = re /\ End(c)[i] = ce
    BY DEF End
  <1>3. /\ piece.src = first - co
        /\ piece.dst = first - ro
        /\ piece.size = last - first
    <2>1. piece.src = IF ro <= co THEN 0 ELSE ro - co
      BY Zenon DEF GridPiece
    <2>2. piece.dst = IF co > ro THEN co - ro ELSE 0
      BY Zenon DEF GridPiece
    <2>3. piece.size = IF re >= ce THEN cs - piece.src ELSE re - (co + piece.src)
      BY <1>2, Zenon DEF GridPiece
    <2>4. cs \in Nat /\ ce = co + cs
      BY DEF Meets
    <2> HIDE DEF piece, ro, co, re, ce, cs
    <2> QED
      BY <1>1, <2>1, <2>2, <2>3, <2>4 DEF first, last
  <1>4. Common(r, c, i) = first..last - 1
    BY <1>1, <1>2, SMT DEF Common
  <1>5. first \in Nat /\ last \in Nat /\ first < last
    BY <1>1
  <1> HIDE DEF piece, first, last, ro, co, re, ce
  <1>6. ASSUME NEW k \in 0..piece.size - 1
        PROVE  \E g \in first..last - 1 :
                  <<piece.src + k, piece.dst + k>> = <<g - co, g - ro>>
    <2>1. first + k \in first..last - 1
      BY <1>3, <1>5
    <2>2. piece.src + k = (first + k) - co /\ piece.dst + k = (first + k) - ro
      BY <1>1, <1>3, <1>5
    <2> QED
      BY <2>1, <2>2
  <1>7. ASSUME NEW g \in first..last - 1
        PROVE  \E k \in 0..piece.size - 1 :
                  <<g - co, g - ro>> = <<piece.src + k, piece.dst + k>>
    <2>1. g - first \in 0..piece.size - 1
      BY <1>3, <1>5
    <2>2. piece.src + (g - first) = g - co /\ piece.dst + (g - first) = g - ro
      BY <1>1, <1>3, <1>5
    <2> QED
      BY <2>1, <2>2
  <1>8. {<<piece.src + k, piece.dst + k>> : k \in 0..piece.size - 1}
          = {<<g - co, g - ro>> : g \in first..last - 1}
    BY <1>6, <1>7
  <1> QED
    BY <1>4, <1>8 DEF piece, co, ro

-----------------------------------------------------------------------------
(* The files that are read *)

ReadInv ==
    /\ InputOK
    /\ belowZero \in [Dim -> Nat] /\ aboveZero \in [Dim -> Nat] /\ delta \in [Dim -> Int]
    /\ minDims \in [Dim -> Nat] /\ maxDims \in [Dim -> Nat]
    /\ lin \in [Dim -> Nat]
    /\ row \in 0..mpiSize[2] - 1
    /\ container \in Seq(Positions)
    /\ \A k \in 1..Len(container) : Intersect(request, FileDomain(container[k]))

LEMMA SizesPositive == InputOK => \A i \in Dim : mpiSize[i] \in Nat \ {0}
  BY DEF InputOK, Dim

LEMMA TripleType ==
    ASSUME NEW S, NEW a \in S, NEW b \in S, NEW c \in S
    PROVE  <<a, b, c>> \in [Dim -> S]
  BY DEF Dim

LEMMA ModInRange ==
    ASSUME NEW a \in Int, NEW n \in Nat \ {0}
    PROVE  a % n \in 0..n - 1
  OBVIOUS

LEMMA HalfType ==
    ASSUME NEW a \in Int, NEW b \in Int
    PROVE  Half(a, b) \in Int
  BY DEF Half

LEMMA ReadInit == Init /\ InputOK => ReadInv
  <1> SUFFICES ASSUME Init, InputOK
               PROVE  ReadInv
    OBVIOUS
  <1>1. \A i \in Dim : mpiSize[i] \in Nat \ {0}
    BY SizesPositive
  <1>2. Zero \in [Dim -> Nat] /\ Zero \in [Dim -> Int]
    BY TripleType DEF Zero
  <1>3. belowZero = Zero /\ delta = Zero /\ minDims = Zero /\ lin = Zero
        /\ row = 0 /\ container = <<>>
        /\ aboveZero = [i \in Dim |-> mpiSize[i] - 1]
        /\ maxDims = [i \in Dim |-> mpiSize[i] - 1]
    BY DEF Init
  <1>4. [i \in Dim |-> mpiSize[i] - 1] \in [Dim -> Nat]
    BY <1>1
  <1>5. row \in 0..mpiSize[2] - 1
    BY <1>1, <1>3 DEF Dim
  <1> QED
    BY <1>2, <1>3, <1>4, <1>5 DEF ReadInv

\* No step changes the files or the request, and what follows from them.
LEMMA FilesStay ==
    ASSUME UNCHANGED files, InputOK
    PROVE  /\ InputOK'
           /\ Positions' = Positions
           /\ \A p : FileDomain(p)' = FileDomain(p)
           /\ request' = request /\ mpiSize' = mpiSize
  BY DEF files, InputOK, Positions, FileDomain

\* A step that leaves the walk alone only has to keep its ranges natural.
LEMMA SearchStep ==
    ASSUME ReadInv, UNCHANGED <<files, lin, row, container>>,
           belowZero' \in [Dim -> Nat], aboveZero' \in [Dim -> Nat],
           delta' \in [Dim -> Int],
           minDims' \in [Dim -> Nat], maxDims' \in [Dim -> Nat]
    PROVE  ReadInv'
  <1>1. /\ InputOK' /\ Positions' = Positions
        /\ \A p : FileDomain(p)' = FileDomain(p)
        /\ request' = request /\ mpiSize' = mpiSize
    BY FilesStay DEF ReadInv
  <1> QED
    BY <1>1 DEF ReadInv, Intersect, End

LEMMA ZeroStepType ==
    ASSUME NEW b \in Nat, NEW a \in Nat, NEW d \in Int, NEW lo, NEW hi, NEW o
    PROVE  /\ ZeroStep(b, a, d, lo, hi, o).below \in Nat
           /\ ZeroStep(b, a, d, lo, hi, o).above \in Nat
           /\ ZeroStep(b, a, d, lo, hi, o).delta \in Int
  <1>1. SizeMod \in Nat \ {0}
    BY DomainAssumption
  <1>2. Half(b, a) \in Int
    BY HalfType
  <1>3. /\ (b + Half(b, a)) % SizeMod \in Nat
        /\ (b - d) % SizeMod \in Nat /\ (a - d) % SizeMod \in Nat
    BY <1>1, <1>2, ModInRange
  <1> DEFINE x == (b + Half(b, a)) % SizeMod
             y == (b - d) % SizeMod
             z == (a - d) % SizeMod
             h == Half(b, a)
  <1>4. ZeroStep(b, a, d, lo, hi, o) =
          IF lo > hi THEN [below |-> x, above |-> a, delta |-> h]
          ELSE IF lo = o THEN [below |-> b, above |-> a, delta |-> 0]
          ELSE [below |-> y, above |-> z, delta |-> d]
    BY DEF ZeroStep
  <1>5. x \in Nat /\ y \in Nat /\ z \in Nat /\ h \in Int
    BY <1>2, <1>3
  <1> HIDE DEF x, y, z, h
  <1> QED
    BY <1>4, <1>5

LEMMA FindZeroKeeps == ReadInv /\ FindZero => ReadInv'
  <1> SUFFICES ASSUME ReadInv, FindZero
               PROVE  ReadInv'
    OBVIOUS
  <1>1. PICK lo \in FilesBehind(belowZero), hi \in FilesBehind(aboveZero) :
          LET step == [i \in Dim |->
                        ZeroStep(belowZero[i], aboveZero[i], delta[i],
                                 FileDomain(lo).offset[i],
                                 FileDomain(hi).offset[i], globalOffset[i])]
          IN  /\ belowZero' = [i \in Dim |-> step[i].below]
              /\ aboveZero' = [i \in Dim |-> step[i].above]
              /\ delta' = [i \in Dim |-> step[i].delta]
    BY DEF FindZero
  <1> DEFINE S(i) == ZeroStep(belowZero[i], aboveZero[i], delta[i],
                              FileDomain(lo).offset[i],
                              FileDomain(hi).offset[i], globalOffset[i])
  <1>2. \A i \in Dim : S(i).below \in Nat /\ S(i).above \in Nat /\ S(i).delta \in Int
    <2> TAKE i \in Dim
    <2>1. belowZero[i] \in Nat /\ aboveZero[i] \in Nat /\ delta[i] \in Int
      BY DEF ReadInv
    <2> QED
      BY <2>1, ZeroStepType
  <1>3. /\ belowZero' = [i \in Dim |-> S(i).below]
        /\ aboveZero' = [i \in Dim |-> S(i).above]
        /\ delta' = [i \in Dim |-> S(i).delta]
    BY <1>1
  <1> HIDE DEF S
  <1>4. /\ belowZero' \in [Dim -> Nat] /\ aboveZero' \in [Dim -> Nat]
        /\ delta' \in [Dim -> Int]
    BY <1>2, <1>3
  <1>5. UNCHANGED <<files, lin, row, container, minDims, maxDims>>
    BY DEF FindZero, rangeVars, walkVars
  <1> QED
    BY <1>4, <1>5, SearchStep DEF ReadInv

LEMMA ChooseHalfKeeps == ReadInv /\ ChooseHalf => ReadInv'
  <1> SUFFICES ASSUME ReadInv, ChooseHalf
               PROVE  ReadInv'
    OBVIOUS
  <1>1. \A i \in Dim : mpiSize[i] \in Nat \ {0} /\ belowZero[i] \in Nat
    BY SizesPositive DEF ReadInv
  <1>2. PICK behind \in [Dim -> BOOLEAN] :
          /\ minDims' = [i \in Dim |-> IF behind[i] THEN belowZero[i] ELSE 0]
          /\ maxDims' = [i \in Dim |-> IF behind[i] THEN mpiSize[i] - 1
                                       ELSE IF belowZero[i] > 1
                                       THEN belowZero[i] - 1 ELSE 0]
    <2> DEFINE last == FileDomain([i \in Dim |-> mpiSize[i] - 1])
               b == [i \in Dim |-> (request.offset[i] < End(last)[i]) = TRUE]
    <2> WITNESS b \in [Dim -> BOOLEAN]
    <2>1. \A i \in Dim : b[i] <=> request.offset[i] < End(last)[i]
      OBVIOUS
    <2> QED
      BY <2>1, Zenon DEF ChooseHalf
  <1>3. minDims' \in [Dim -> Nat] /\ maxDims' \in [Dim -> Nat]
    BY <1>1, <1>2
  <1>4. UNCHANGED <<files, lin, row, container, belowZero, aboveZero, delta>>
    BY DEF ChooseHalf, zeroVars, walkVars
  <1> QED
    BY <1>3, <1>4, SearchStep DEF ReadInv

LEMMA FindFirstKeeps == ReadInv /\ FindFirst => ReadInv'
  <1> SUFFICES ASSUME ReadInv, FindFirst
               PROVE  ReadInv'
    OBVIOUS
  <1>1. \A i \in Dim : /\ mpiSize[i] \in Nat \ {0}
                       /\ minDims[i] \in Nat /\ maxDims[i] \in Nat
    BY SizesPositive DEF ReadInv
  <1>2. SizeMod \in Nat \ {0}
    BY DomainAssumption
  <1>3. Middle \in [Dim -> Nat]
    <2>1. ASSUME NEW i \in Dim
          PROVE  (minDims[i] + Half(minDims[i], maxDims[i])) % SizeMod \in Nat
      <3> minDims[i] \in Int /\ maxDims[i] \in Int
        BY <1>1
      <3>1. Half(minDims[i], maxDims[i]) \in Int
        BY HalfType
      <3>2. minDims[i] + Half(minDims[i], maxDims[i]) \in Int
        BY <1>1, <3>1
      <3> QED
        BY <1>2, <3>2, ModInRange
    <2> QED
      BY <2>1 DEF Middle
  <1>4. ASSUME StartWalk(Middle)
        PROVE  ReadInv'
    <2>1. minDims' = Middle /\ lin' = Middle
          /\ maxDims' = [i \in Dim |-> (Middle[i] + mpiSize[i] - 1) % mpiSize[i]]
          /\ row' = Middle[2] % mpiSize[2]
          /\ UNCHANGED <<files, container, belowZero, aboveZero, delta>>
      BY <1>4 DEF StartWalk, zeroVars
    <2>2. \A i \in Dim : (Middle[i] + mpiSize[i] - 1) % mpiSize[i] \in Nat
      <3> TAKE i \in Dim
      <3>1. Middle[i] + mpiSize[i] - 1 \in Int
        BY <1>1, <1>3
      <3> QED
        BY <1>1, <3>1, ModInRange
    <2>3. maxDims' \in [Dim -> Nat]
      BY <2>1, <2>2
    <2>4. row' \in 0..mpiSize[2] - 1
      <3>1. 2 \in Dim
        BY DEF Dim
      <3>2. Middle[2] \in Int /\ mpiSize[2] \in Nat \ {0}
        BY <1>1, <1>3, <3>1
      <3> QED
        BY <2>1, <3>2, ModInRange
    <2>5. /\ InputOK' /\ Positions' = Positions
          /\ \A p : FileDomain(p)' = FileDomain(p)
          /\ request' = request /\ mpiSize' = mpiSize
      BY <2>1, FilesStay DEF ReadInv
    <2> QED
      BY <1>3, <2>1, <2>3, <2>4, <2>5 DEF ReadInv, Intersect, End
  <1>5. ASSUME NEW file, Narrow(Middle, file)
        PROVE  ReadInv'
    <2>1. PICK after \in [Dim -> BOOLEAN] :
            /\ minDims' = [i \in Dim |-> IF after[i] THEN Middle[i] ELSE minDims[i]]
            /\ maxDims' = [i \in Dim |-> IF after[i] THEN maxDims[i]
                                         ELSE (Middle[i] - 1) % SizeMod]
      <3> DEFINE a == [i \in Dim |->
                        (request.offset[i] >= FileDomain(file).offset[i]) = TRUE]
      <3> WITNESS a \in [Dim -> BOOLEAN]
      <3>1. \A i \in Dim : a[i] <=> request.offset[i] >= FileDomain(file).offset[i]
        OBVIOUS
      <3> QED
        BY <1>5, <3>1, Zenon DEF Narrow
    <2>2. \A i \in Dim : (Middle[i] - 1) % SizeMod \in Nat
      <3> TAKE i \in Dim
      <3>1. Middle[i] - 1 \in Int
        BY <1>3
      <3> QED
        BY <1>2, <3>1, ModInRange
    <2>3. minDims' \in [Dim -> Nat] /\ maxDims' \in [Dim -> Nat]
      BY <1>1, <1>3, <2>1, <2>2
    <2>4. UNCHANGED <<files, lin, row, container, belowZero, aboveZero, delta>>
      BY <1>5 DEF Narrow, zeroVars, walkVars
    <2> QED
      BY <2>3, <2>4, SearchStep DEF ReadInv
  <1> QED
    BY <1>4, <1>5, Zenon DEF FindFirst

\* The next position of the walk.
LEMMA AdvanceType ==
    ASSUME ReadInv, NEW x, NEW y \in 0..mpiSize[2] - 1, NEW z, NEW max,
           Advance(x, y, z, max)
    PROVE  lin' \in [Dim -> Nat] /\ row' \in 0..mpiSize[2] - 1
  <1>1. 1 \in Dim /\ 2 \in Dim /\ 3 \in Dim
    BY DEF Dim
  <1>2. /\ mpiSize[2] \in Nat \ {0}
        /\ lin[1] \in Nat /\ lin[2] \in Nat /\ lin[3] \in Nat
        /\ minDims[1] \in Nat /\ minDims[2] \in Nat
    BY <1>1, SizesPositive DEF ReadInv
  <1>3. CASE x # max[1]
    <2>1. lin' = [lin EXCEPT ![1] = lin[1] + 1] /\ row' = y
      BY <1>3, Zenon DEF Advance
    <2>2. lin[1] + 1 \in Nat
      BY <1>2
    <2>3. lin \in [Dim -> Nat]
      BY Zenon DEF ReadInv
    <2>4. lin' \in [Dim -> Nat]
      BY <2>1, <2>2, <2>3
    <2> QED
      BY <2>1, <2>4
  <1>4. CASE x = max[1] /\ y # max[2]
    <2>1. /\ lin' = <<minDims[1], lin[2] + 1, lin[3]>>
          /\ row' = (lin[2] + 1) % mpiSize[2]
      BY <1>4, Zenon DEF Advance
    <2>2. lin[2] + 1 \in Int /\ lin[2] + 1 \in Nat
      BY <1>2
    <2> QED
      BY <1>2, <2>1, <2>2, ModInRange, TripleType
  <1>5. CASE x = max[1] /\ y = max[2]
    <2>1. /\ lin' = <<minDims[1], minDims[2], lin[3] + 1>>
          /\ row' = minDims[2] % mpiSize[2]
      BY <1>5, Zenon DEF Advance
    <2>2. minDims[2] \in Int /\ lin[3] + 1 \in Nat
      BY <1>2
    <2> QED
      BY <1>2, <2>1, <2>2, ModInRange, TripleType
  <1> QED
    BY <1>3, <1>4, <1>5

LEMMA PredInRange ==
    ASSUME InputOK, NEW i \in Dim, NEW p \in Int
    PROVE  Pred(i, p) \in 0..mpiSize[i] - 1 /\ Pred(i, p) \in Nat
  <1>1. mpiSize[i] \in Nat \ {0}
    BY SizesPositive
  <1>2. p + mpiSize[i] - 1 \in Int
    BY <1>1
  <1>3. Pred(i, p) \in 0..mpiSize[i] - 1
    BY <1>1, <1>2, ModInRange DEF Pred
  <1> QED
    BY <1>1, <1>3

LEMMA WalkKeeps == ReadInv /\ Walk => ReadInv'
  <1> SUFFICES ASSUME ReadInv, Walk
               PROVE  ReadInv'
    OBVIOUS
  <1> DEFINE x == lin[1] % mpiSize[1]
             z == lin[3] % mpiSize[3]
             pos == <<x, row, z>>
  <1>1. 1 \in Dim /\ 2 \in Dim /\ 3 \in Dim
    BY DEF Dim
  <1>2. x \in 0..mpiSize[1] - 1 /\ z \in 0..mpiSize[3] - 1 /\ row \in 0..mpiSize[2] - 1
    <2>1. /\ lin[1] \in Int /\ lin[3] \in Int
          /\ mpiSize[1] \in Nat \ {0} /\ mpiSize[3] \in Nat \ {0}
      BY <1>1, SizesPositive DEF ReadInv
    <2> QED
      BY <2>1, ModInRange DEF ReadInv
  <1>3. pos \in Positions
    BY <1>2 DEF Positions
  <1>4. x \in Int /\ row \in Int
    BY <1>2, <1>1, SizesPositive DEF ReadInv
  <1>5. UNCHANGED <<files, belowZero, aboveZero, delta, minDims>>
    BY DEF Walk, zeroVars
  <1>6. /\ InputOK' /\ Positions' = Positions
        /\ \A p : FileDomain(p)' = FileDomain(p)
        /\ request' = request /\ mpiSize' = mpiSize
    BY <1>5, FilesStay DEF ReadInv
  <1>7. /\ maxDims' \in [Dim -> Nat]
        /\ lin' \in [Dim -> Nat]
        /\ row' \in 0..mpiSize[2] - 1
        /\ \/ container' = container
           \/ /\ container' = Append(container, pos)
              /\ Intersect(request, FileDomain(pos))
    <2>1. CASE Intersect(request, FileDomain(pos))
      <3>1. container' = Append(container, pos) /\ maxDims' = maxDims
            /\ Advance(x, row, z, maxDims)
        BY <2>1, Zenon DEF Walk
      <3>2. lin' \in [Dim -> Nat] /\ row' \in 0..mpiSize[2] - 1
        BY <1>2, <3>1, AdvanceType
      <3> QED
        BY <2>1, <3>1, <3>2 DEF ReadInv
    <2>2. CASE ~Intersect(request, FileDomain(pos)) /\ z # minDims[3]
      <3>1. container' = container /\ UNCHANGED <<maxDims, lin, row>>
        BY <2>2, Zenon DEF Walk
      <3> QED
        BY <3>1 DEF ReadInv
    <2>3. CASE ~Intersect(request, FileDomain(pos)) /\ z = minDims[3]
               /\ row = minDims[2]
      <3>1. /\ container' = container
            /\ maxDims' = [maxDims EXCEPT ![1] = Pred(1, x)]
            /\ Advance(Pred(1, x), row, z, maxDims')
        BY <2>3, Zenon DEF Walk
      <3>2. lin' \in [Dim -> Nat] /\ row' \in 0..mpiSize[2] - 1
        BY <1>2, <3>1, AdvanceType
      <3>3. Pred(1, x) \in Nat
        BY <1>1, <1>4, PredInRange DEF ReadInv
      <3> QED
        BY <3>1, <3>2, <3>3 DEF ReadInv
    <2>4. CASE ~Intersect(request, FileDomain(pos)) /\ z = minDims[3]
               /\ row # minDims[2]
      <3>1. /\ container' = container
            /\ maxDims' = [maxDims EXCEPT ![2] = Pred(2, row)]
            /\ Advance(x, Pred(2, row), z, maxDims')
        BY <2>4, Zenon DEF Walk
      <3>2. Pred(2, row) \in 0..mpiSize[2] - 1 /\ Pred(2, row) \in Nat
        BY <1>1, <1>4, PredInRange DEF ReadInv
      <3>3. lin' \in [Dim -> Nat] /\ row' \in 0..mpiSize[2] - 1
        BY <3>1, <3>2, AdvanceType
      <3> QED
        BY <3>1, <3>2, <3>3 DEF ReadInv
    <2> QED
      BY <2>1, <2>2, <2>3, <2>4
  <1> HIDE DEF pos
  <1>8. /\ container' \in Seq(Positions)
        /\ \A k \in 1..Len(container') : Intersect(request, FileDomain(container'[k]))
    <2>1. container \in Seq(Positions)
          /\ \A k \in 1..Len(container) : Intersect(request, FileDomain(container[k]))
      BY DEF ReadInv
    <2>2. CASE container' = container
      BY <2>1, <2>2
    <2>3. CASE container' = Append(container, pos) /\ Intersect(request, FileDomain(pos))
      <3>1. /\ container' \in Seq(Positions)
            /\ Len(container') = Len(container) + 1
            /\ container'[Len(container) + 1] = pos
            /\ \A k \in 1..Len(container) : container'[k] = container[k]
        BY <1>3, <2>1, <2>3
      <3>2. Len(container) \in Nat
        BY <2>1
      <3>3. ASSUME NEW k \in 1..Len(container')
            PROVE  Intersect(request, FileDomain(container'[k]))
        <4>1. CASE k = Len(container) + 1
          BY <2>3, <3>1, <4>1
        <4>2. CASE k # Len(container) + 1
          <5>1. k \in 1..Len(container)
            BY <3>1, <3>2, <4>2
          <5> QED
            BY <2>1, <3>1, <5>1
        <4> QED
          BY <4>1, <4>2
      <3> QED
        BY <3>1, <3>3
    <2> QED
      BY <1>7, <2>2, <2>3
  <1>9. \A p : Intersect(request, FileDomain(p))' <=> Intersect(request, FileDomain(p))
    BY <1>6 DEF Intersect, End
  <1> QED
    BY <1>5, <1>6, <1>7, <1>8, <1>9 DEF ReadInv, files

LEMMA ReadNext == ReadInv /\ [Next]_vars => ReadInv'
  <1> SUFFICES ASSUME ReadInv, [Next]_vars
               PROVE  ReadInv'
    OBVIOUS
  <1>1. CASE FindZero
    BY <1>1, FindZeroKeeps
  <1>2. CASE ChooseHalf
    BY <1>2, ChooseHalfKeeps
  <1>3. CASE FindFirst
    BY <1>3, FindFirstKeeps
  <1>4. CASE Walk
    BY <1>4, WalkKeeps
  <1>5. CASE FindNoFile \/ Throws \/ Finished \/ UNCHANGED vars
    <2>1. UNCHANGED <<files, zeroVars, rangeVars, walkVars>>
      BY <1>5 DEF FindNoFile, Throws, Finished, vars
    <2>2. UNCHANGED <<files, lin, row, container, belowZero, aboveZero, delta,
                      minDims, maxDims>>
      BY <2>1 DEF zeroVars, rangeVars, walkVars
    <2> QED
      BY <2>2, SearchStep DEF ReadInv
  <1> QED
    BY <1>1, <1>2, <1>3, <1>4, <1>5 DEF Next, Progress

LEMMA PiecesOfReads == ReadInv => GridPieceExact
  <1> SUFFICES ASSUME ReadInv, NEW p \in Range(container), NEW i \in Dim
               PROVE  LET c == FileDomain(p)
                          piece == GridPiece(request, c, i)
                          common == {g \in c.offset[i]..End(c)[i] - 1 :
                             request.offset[i] <= g /\ g < End(request)[i]}
                      IN  {<<piece.src + k, piece.dst + k>> : k \in 0..piece.size - 1}
                            = {<<g - c.offset[i], g - request.offset[i]>> : g \in common}
    BY Zenon DEF GridPieceExact
  <1> DEFINE c == FileDomain(p)
  <1>1. p \in Positions /\ Intersect(request, c)
    <2>1. /\ container \in Seq(Positions)
          /\ \A k \in 1..Len(container) :
               Intersect(request, FileDomain(container[k]))
      BY DEF ReadInv
    <2>2. DOMAIN container = 1..Len(container)
      BY <2>1
    <2>3. PICK k \in 1..Len(container) : p = container[k]
      BY <2>2 DEF Range
    <2>4. p \in Positions
      BY <2>1, <2>3
    <2> QED
      BY <2>1, <2>3, <2>4
  <1>2. p[i] \in 0..mpiSize[i] - 1
    BY <1>1 DEF Positions, Dim
  <1>3. c.offset[i] = cells[i][p[i]].offset /\ c.size[i] = cells[i][p[i]].size
    BY DEF FileDomain
  <1>4. /\ request.offset[i] \in Nat /\ request.size[i] \in Nat \ {0}
        /\ c.offset[i] \in Nat /\ c.size[i] \in Nat \ {0}
    BY <1>2, <1>3 DEF ReadInv, InputOK
  <1> HIDE DEF c
  <1>5. Meets(request, c, i)
    BY <1>1, <1>4 DEF Meets, Intersect, End
  <1>6. LET piece == GridPiece(request, c, i) IN
        {<<piece.src + k, piece.dst + k>> : k \in 0..piece.size - 1}
          = {<<g - c.offset[i], g - request.offset[i]>> : g \in Common(request, c, i)}
    BY <1>5, PieceExact
  <1> QED
    BY <1>6 DEF c, Common

-----------------------------------------------------------------------------
(* The grid behind the files *)

\* The place of position p in a line of n positions that begins at k.
Slot(n, k, p) == IF k <= p THEN p - k ELSE p - k + n

\* A line of local domains that begins at position k and whose domains lie one
\* behind the other.
LineInv(line, n, k) ==
    /\ k \in 0..n - 1
    /\ \A p \in 0..n - 1 : line[p].offset \in Nat /\ line[p].size \in Nat \ {0}
    /\ \A p, q \in 0..n - 1 :
          Slot(n, k, p) < Slot(n, k, q) => line[p].offset + line[p].size <= line[q].offset

\* The places where the slots begin.
Begins(n, o, s, b) ==
    b = [j \in 0..n - 1 |-> IF j = 0 THEN o ELSE b[j - 1] + s[j - 1]]

LEMMA BeginsExists ==
    ASSUME NEW n \in Nat \ {0}, NEW o \in Nat, NEW s \in [0..n - 1 -> Nat \ {0}]
    PROVE  \E b : Begins(n, o, s, b)
  <1> DEFINE Prefix(m, f) == /\ f \in [0..m -> Nat] /\ f[0] = o
                             /\ \A j \in 1..m : f[j] = f[j - 1] + s[j - 1]
  <1>1. \A m \in 0..n - 1 : \E f : Prefix(m, f)
    <2> DEFINE S == {m \in 0..n - 1 : ~ \E f : Prefix(m, f)}
    <2>1. SUFFICES ASSUME S # {} PROVE FALSE
      OBVIOUS
    <2>2. S \in SUBSET Nat
      OBVIOUS
    <2>3. PICK m \in S : \A k \in S : m <= k
      BY <2>1, <2>2, LeastNatural
    <2>4. m \in 0..n - 1 /\ ~ \E f : Prefix(m, f)
      BY <2>3
    <2>5. CASE m = 0
      <3>1. Prefix(0, [j \in 0..0 |-> o])
        OBVIOUS
      <3>2. QED
        BY <2>4, <2>5, <3>1
    <2>6. CASE m # 0
      <3>1. m - 1 \in 0..n - 1 /\ ~(m <= m - 1)
        BY <2>4, <2>6
      <3>a. m - 1 \notin S
        BY <2>3, <3>1
      <3>2. PICK f : Prefix(m - 1, f)
        BY <3>1, <3>a
      <3> DEFINE v == f[m - 1] + s[m - 1]
                 g == [j \in 0..m |-> IF j = m THEN v ELSE f[j]]
      <3>3. v \in Nat
        BY <2>4, <2>6, <3>2
      <3> HIDE DEF v
      <3>4. g \in [0..m -> Nat] /\ g[0] = o
        BY <2>4, <2>6, <3>2, <3>3
      <3>5. ASSUME NEW j \in 1..m PROVE g[j] = g[j - 1] + s[j - 1]
        <4>1. CASE j = m
          BY <2>4, <2>6, <4>1 DEF v
        <4>2. CASE j # m
          <5>1. j \in 1..(m - 1) /\ j - 1 \in 0..m /\ j - 1 # m /\ j \in 0..m
            BY <2>4, <4>2
          <5>2. QED
            BY <3>2, <4>2, <5>1
        <4>3. QED
          BY <4>1, <4>2
      <3> HIDE DEF g
      <3>6. Prefix(m, g)
        BY <3>4, <3>5
      <3>7. QED
        BY <2>4, <3>6
    <2>7. QED
      BY <2>5, <2>6
  <1>a. n - 1 \in 0..n - 1
    OBVIOUS
  <1>2. PICK f : Prefix(n - 1, f)
    BY <1>1, <1>a
  <1>3. ASSUME NEW j \in 0..n - 1
        PROVE  f[j] = IF j = 0 THEN o ELSE f[j - 1] + s[j - 1]
    BY <1>2, <1>3
  <1>4. f = [j \in 0..n - 1 |-> f[j]]
    BY <1>2
  <1>5. Begins(n, o, s, f)
    BY <1>3, <1>4 DEF Begins
  <1>6. QED
    BY <1>5

\* A slot begins where those before it have ended.
LEMMA BeginFacts ==
    ASSUME NEW n \in Nat \ {0}, NEW o \in Nat, NEW s \in [0..n - 1 -> Nat \ {0}], NEW b,
           Begins(n, o, s, b)
    PROVE  /\ \A j \in 0..n - 1 : b[j] \in Nat
           /\ \A j, l \in 0..n - 1 : j < l => b[j] + s[j] <= b[l]
  <1>1. ASSUME NEW j \in 0..n - 1 PROVE b[j] = IF j = 0 THEN o ELSE b[j - 1] + s[j - 1]
    BY DEF Begins
  <1>2. \A j \in 0..n - 1 : b[j] \in Nat
    <2> DEFINE S == {m \in 0..n - 1 : b[m] \notin Nat}
    <2>1. SUFFICES ASSUME S # {} PROVE FALSE
      OBVIOUS
    <2>2. S \in SUBSET Nat
      OBVIOUS
    <2>3. PICK m \in S : \A k \in S : m <= k
      BY <2>1, <2>2, LeastNatural
    <2>4. m \in 0..n - 1 /\ b[m] \notin Nat
      OBVIOUS
    <2>5. CASE m = 0
      BY <1>1, <2>4, <2>5
    <2>6. CASE m # 0
      <3>1. m - 1 \in 0..n - 1 /\ ~(m <= m - 1)
        BY <2>4, <2>6
      <3>2. b[m - 1] \in Nat
        BY <2>3, <3>1
      <3>3. s[m - 1] \in Nat /\ b[m] = b[m - 1] + s[m - 1]
        BY <1>1, <2>4, <2>6, <3>1
      <3>4. QED
        BY <2>4, <3>2, <3>3
    <2>7. QED
      BY <2>5, <2>6
  <1>3. ASSUME NEW j \in 0..n - 1
        PROVE  \A l \in 0..n - 1 : j < l => b[j] + s[j] <= b[l]
    <2> DEFINE S == {l \in 0..n - 1 : j < l /\ ~(b[j] + s[j] <= b[l])}
    <2>1. SUFFICES ASSUME S # {} PROVE FALSE
      OBVIOUS
    <2>2. S \in SUBSET Nat
      OBVIOUS
    <2>3. PICK m \in S : \A k \in S : m <= k
      BY <2>1, <2>2, LeastNatural
    <2>4. m \in 0..n - 1 /\ j < m /\ ~(b[j] + s[j] <= b[m])
      OBVIOUS
    <2>5. m - 1 \in 0..n - 1 /\ m # 0 /\ j <= m - 1 /\ ~(m <= m - 1)
      BY <2>4
    <2>6. b[m] = b[m - 1] + s[m - 1] /\ b[m - 1] \in Nat /\ s[m - 1] \in Nat
          /\ b[j] \in Nat /\ s[j] \in Nat /\ b[m] \in Nat
      BY <1>1, <1>2, <2>4, <2>5
    <2>7. CASE j = m - 1
      BY <2>4, <2>6, <2>7
    <2>8. CASE j # m - 1
      <3>1. j < m - 1
        BY <2>5, <2>8
      <3>2. b[j] + s[j] <= b[m - 1]
        BY <2>3, <2>5, <3>1
      <3>3. QED
        BY <2>4, <2>6, <3>2, SMTT(30)
    <2>9. QED
      BY <2>7, <2>8
  <1>4. QED
    BY <1>2, <1>3

\* Where position p lies behind position k of the line.
LEMMA SlotFacts ==
    ASSUME NEW n \in Nat \ {0}, NEW k \in 0..n - 1, NEW p \in 0..n - 1
    PROVE  (p - k) % n = Slot(n, k, p) /\ Slot(n, k, p) \in 0..n - 1
  <1> DEFINE a == p - k
  <1>1. a \in Int /\ a \in (-n)..(n - 1) /\ a = p - k
    OBVIOUS
  <1> HIDE DEF a
  <1>2. CASE k <= p
    <2>1. a % n = a
      BY <1>1, <1>2, ModWrap
    <2>2. QED
      BY <1>1, <1>2, <2>1 DEF Slot
  <1>3. CASE ~(k <= p)
    <2>1. a % n = a + n
      BY <1>1, <1>3, ModWrap
    <2>2. QED
      BY <1>1, <1>3, <2>1 DEF Slot
  <1>4. QED
    BY <1>2, <1>3

LEMMA LineFacts ==
    ASSUME NEW n \in Nat \ {0}, NEW o \in Nat, NEW s \in [0..n - 1 -> Nat \ {0}],
           NEW k \in 0..n - 1
    PROVE  /\ LineInv(Line(s, k, o), n, k)
           /\ LineOrigin(Line(s, k, o)) = Line(s, k, o)[k].offset
  <1> DEFINE line == Line(s, k, o)
             b == CHOOSE f : Begins(n, o, s, f)
  <1>a. Begins(n, o, s, b)
    BY BeginsExists
  <1>1. /\ \A j \in 0..n - 1 : b[j] \in Nat
        /\ \A j, l \in 0..n - 1 : j < l => b[j] + s[j] <= b[l]
    <2> HIDE DEF b
    <2>1. QED
      BY <1>a, BeginFacts
  <1>2. DOMAIN s = 0..n - 1 /\ Cardinality(0..n - 1) = n
    BY FS_Interval
  <1>3. line = [p \in 0..n - 1 |->
                  [offset |-> b[(p - k) % n], size |-> s[(p - k) % n]]]
    BY <1>2 DEF Line, Begins
  <1>4. ASSUME NEW p \in 0..n - 1
        PROVE  (p - k) % n = Slot(n, k, p) /\ Slot(n, k, p) \in 0..n - 1
    BY SlotFacts
  <1> HIDE DEF line, b
  <1>5. ASSUME NEW p \in 0..n - 1
        PROVE  line[p].offset = b[Slot(n, k, p)] /\ line[p].size = s[Slot(n, k, p)]
    BY <1>3, <1>4
  <1>6. LineInv(line, n, k)
    <2>1. \A p \in 0..n - 1 : line[p].offset \in Nat /\ line[p].size \in Nat \ {0}
      BY <1>1, <1>4, <1>5
    <2>2. \A p, q \in 0..n - 1 :
            Slot(n, k, p) < Slot(n, k, q) => line[p].offset + line[p].size <= line[q].offset
      BY <1>1, <1>4, <1>5
    <2>3. QED
      BY <2>1, <2>2 DEF LineInv
  <1>7. ASSUME NEW p \in 0..n - 1 PROVE line[k].offset <= line[p].offset
    <2>1. Slot(n, k, k) = 0 /\ Slot(n, k, p) \in Nat
      BY <1>4 DEF Slot
    <2>2. CASE Slot(n, k, p) = 0
      BY <1>1, <1>5, <2>1, <2>2
    <2>3. CASE Slot(n, k, p) # 0
      <3>1. Slot(n, k, k) < Slot(n, k, p)
        BY <2>1, <2>3
      <3>2. line[k].offset + line[k].size <= line[p].offset
        BY <1>6, <3>1 DEF LineInv
      <3>3. QED
        BY <1>6, <3>2 DEF LineInv
    <2>4. QED
      BY <2>2, <2>3
  <1>8. DOMAIN line = 0..n - 1
    BY <1>3
  <1>9. LineOrigin(line) = line[k].offset
    <2> DEFINE offsets == {line[p].offset : p \in DOMAIN line}
               Least(x) == \A p \in DOMAIN line : x <= line[p].offset
    <2>1. line[k].offset \in offsets /\ Least(line[k].offset)
      BY <1>7, <1>8
    <2>2. ASSUME NEW x \in offsets, Least(x) PROVE x = line[k].offset
      <3>1. PICK p \in 0..n - 1 : x = line[p].offset
        BY <1>8
      <3>2. x \in Nat /\ line[k].offset \in Nat
        BY <1>6, <3>1 DEF LineInv
      <3>3. x <= line[k].offset
        BY <1>8, <2>2
      <3>4. QED
        BY <1>7, <3>1, <3>2, <3>3
    <2>3. LineOrigin(line) = CHOOSE x \in offsets : Least(x)
      BY DEF LineOrigin
    <2> HIDE DEF offsets, Least
    <2>4. QED
      BY <2>1, <2>2, <2>3
  <1>10. QED
    BY <1>6, <1>9 DEF line

\* What the files of a session and a request always are. The sizes of the topology
\* are numbers of type size_t.
Shift(i, k) ==
    /\ LineInv(cells[i], mpiSize[i], k)
    /\ merged => globalOffset[i] = cells[i][k].offset

GridInv ==
    /\ InputOK
    /\ \A i \in Dim : mpiSize[i] <= SizeMod
    /\ merged \in BOOLEAN /\ (~merged => mpiSize = Ones)
    /\ \A i \in Dim : \E k \in 0..mpiSize[i] - 1 : Shift(i, k)

LEMMA GridInit == Init => GridInv
  <1> SUFFICES ASSUME Init PROVE GridInv
    OBVIOUS
  <1>1. merged \in BOOLEAN /\ mpiSize \in (IF merged THEN Topologies ELSE {Ones})
    BY DEF Init
  <1>2. /\ mpiSize \in (Nat \ {0}) \X (Nat \ {0}) \X (Nat \ {0})
        /\ \A i \in Dim : mpiSize[i] \in Nat \ {0} /\ mpiSize[i] <= SizeMod
        /\ ~merged => mpiSize = Ones
    <2>1. CASE merged
      <3>1. mpiSize \in Topologies
        BY <1>1, <2>1
      <3>2. mpiSize \in (Nat \ {0}) \X (Nat \ {0}) \X (Nat \ {0})
        BY <3>1, DomainAssumption
      <3>3. \A i \in Dim : mpiSize[i] < SizeMod
        BY <3>1, DomainAssumption DEF Dim
      <3>4. \A i \in Dim : mpiSize[i] \in Nat \ {0}
        BY <3>2 DEF Dim
      <3>5. QED
        BY <2>1, <3>2, <3>3, <3>4, DomainAssumption
    <2>2. CASE ~merged
      BY <1>1, <2>2, DomainAssumption DEF Ones, Dim
    <2>3. QED
      BY <1>1, <2>1, <2>2
  <1>3. \A i \in Dim : cells[i] \in Lines(i)
    <2>1. PICK a \in Lines(1), b \in Lines(2), c \in Lines(3) : cells = <<a, b, c>>
      BY DEF Init
    <2>2. QED
      BY <2>1 DEF Dim
  <1>4. ASSUME NEW i \in Dim
        PROVE  \E k \in 0..mpiSize[i] - 1 :
                 /\ LineInv(cells[i], mpiSize[i], k)
                 /\ LineOrigin(cells[i]) = cells[i][k].offset
    <2>1. PICK s \in [0..mpiSize[i] - 1 -> CellSizes[i]], k \in 0..mpiSize[i] - 1,
               o \in Origins[i] : cells[i] = Line(s, k, o)
      BY <1>3 DEF Lines
    <2>2. CellSizes[i] \subseteq Nat \ {0} /\ Origins[i] \subseteq Nat
      BY DomainAssumption DEF Dim
    <2>3. s \in [0..mpiSize[i] - 1 -> Nat \ {0}] /\ o \in Nat
      BY <2>2
    <2> DEFINE n == mpiSize[i]
    <2>4. n \in Nat \ {0} /\ s \in [0..n - 1 -> Nat \ {0}] /\ k \in 0..n - 1
      BY <1>2, <2>1, <2>3
    <2> HIDE DEF n
    <2>5. /\ LineInv(Line(s, k, o), n, k)
          /\ LineOrigin(Line(s, k, o)) = Line(s, k, o)[k].offset
      BY <2>3, <2>4, LineFacts
    <2>6. QED
      BY <2>1, <2>4, <2>5 DEF n
  <1>5. ASSUME NEW i \in Dim PROVE \E k \in 0..mpiSize[i] - 1 : Shift(i, k)
    <2>1. PICK k \in 0..mpiSize[i] - 1 : /\ LineInv(cells[i], mpiSize[i], k)
                                         /\ LineOrigin(cells[i]) = cells[i][k].offset
      BY <1>4
    <2>2. merged => globalOffset[i] = LineOrigin(cells[i])
      BY DEF Init
    <2>3. QED
      BY <2>1, <2>2 DEF Shift
  <1>6. ASSUME NEW i \in Dim
        PROVE  \A p \in 0..mpiSize[i] - 1 :
                 cells[i][p].offset \in Nat /\ cells[i][p].size \in Nat \ {0}
    BY <1>4 DEF LineInv
  <1>7. \A i \in Dim : request.offset[i] \in Nat /\ request.size[i] \in Nat \ {0}
    <2>1. ASSUME NEW i \in Dim, NEW r \in Requests(cells[i])
          PROVE  r[1] \in Nat /\ r[2] \in Nat \ {0}
      <3> DEFINE first == LineOrigin(cells[i])
                 last == first + LineEnd(cells[i])
                 begins == IF AskOutside THEN 0..last + Margin ELSE first..last - 1
      <3>1. r \in begins \X (1..last + Margin)
        BY DEF Requests
      <3>2. first \in Nat
        BY <1>4, <1>6
      <3> HIDE DEF first, last
      <3>3. \A x \in begins : x \in Nat
        BY <3>2
      <3> HIDE DEF begins
      <3>4. r[1] \in begins /\ r[2] \in 1..last + Margin
        BY <3>1
      <3>5. r[2] \in Nat \ {0}
        BY <3>4
      <3>6. QED
        BY <3>3, <3>4, <3>5
    <2>2. PICK a \in Requests(cells[1]), b \in Requests(cells[2]), c \in Requests(cells[3]) :
             request = [offset |-> <<a[1], b[1], c[1]>>, size |-> <<a[2], b[2], c[2]>>]
      BY DEF Init
    <2>3. /\ a[1] \in Nat /\ a[2] \in Nat \ {0} /\ b[1] \in Nat /\ b[2] \in Nat \ {0}
          /\ c[1] \in Nat /\ c[2] \in Nat \ {0}
      BY <2>1 DEF Dim
    <2>4. QED
      BY <2>2, <2>3 DEF Dim
  <1>8. InputOK
    BY <1>2, <1>6, <1>7 DEF InputOK
  <1>9. QED
    BY <1>1, <1>2, <1>5, <1>8 DEF GridInv

LEMMA GridStays ==
    ASSUME UNCHANGED files, GridInv
    PROVE  GridInv' /\ \A i, k : Shift(i, k)' <=> Shift(i, k)
  BY FilesStay DEF files, GridInv, Shift

-----------------------------------------------------------------------------
(* The search for the place where the domain begins *)

\* In one dimension the range that is searched holds position k, unless the last
\* step went too far, which the next one takes back.
Straddles(b, a, d, k) ==
    \/ b = k
    \/ b < k /\ k <= a
    \/ d >= 1 /\ b - d >= 0 /\ b - d < k /\ k < b /\ k <= a - d

ZeroInv(k) ==
    /\ \A i \in Dim : /\ belowZero[i] \in 0..mpiSize[i] - 1
                      /\ aboveZero[i] \in 0..mpiSize[i] - 1
                      /\ delta[i] \in 0..mpiSize[i] - 1
                      /\ belowZero[i] <= aboveZero[i]
                      /\ Straddles(belowZero[i], aboveZero[i], delta[i], k[i])
    /\ phase \in {"half", "first", "walk", "done"} => \A i \in Dim : belowZero[i] = k[i]

Shifts(k) == k \in [Dim -> Nat] /\ \A i \in Dim : Shift(i, k[i])

LEMMA HalfFacts ==
    ASSUME NEW b \in Nat, NEW a \in Nat, b <= a
    PROVE  /\ Half(b, a) \in Nat /\ b + Half(b, a) <= a
           /\ 2 * Half(b, a) <= a - b + 1
           /\ Half(b, a) = 0 <=> b = a
  BY DEF Half

\* One step of one dimension.
LEMMA ZeroStepKeeps ==
    ASSUME NEW n \in Nat \ {0}, n <= SizeMod, NEW line, NEW k, LineInv(line, n, k),
           NEW b \in 0..n - 1, NEW a \in 0..n - 1, NEW d \in 0..n - 1, b <= a,
           Straddles(b, a, d, k), NEW o, o = line[k].offset
    PROVE  LET step == ZeroStep(b, a, d, line[b].offset, line[a].offset, o) IN
           /\ step.below \in 0..n - 1 /\ step.above \in 0..n - 1 /\ step.delta \in 0..n - 1
           /\ step.below <= step.above
           /\ Straddles(step.below, step.above, step.delta, k)
           /\ step.delta = 0 => step.below = k
  <1> DEFINE lo == line[b].offset
             hi == line[a].offset
             h == Half(b, a)
  <1>1. SizeMod \in Nat \ {0} /\ k \in 0..n - 1
    BY DomainAssumption DEF LineInv
  <1>2. lo \in Nat /\ hi \in Nat /\ o \in Nat
    BY DEF LineInv
  <1>3. /\ h \in Nat /\ b + h <= a /\ 2 * h <= a - b + 1 /\ (h = 0 <=> b = a)
    BY HalfFacts
  <1>4. \A x \in 0..n - 1 : x % SizeMod = x
    BY <1>1, ModWrap
  <1>5. /\ Slot(n, k, b) < Slot(n, k, a) => lo < hi
        /\ Slot(n, k, a) < Slot(n, k, b) => hi < lo
        /\ Slot(n, k, k) < Slot(n, k, b) => o < lo
    <2>1. ASSUME NEW p \in 0..n - 1, NEW q \in 0..n - 1, Slot(n, k, p) < Slot(n, k, q)
          PROVE  line[p].offset < line[q].offset
      <3>1. /\ line[p].offset \in Nat /\ line[p].size \in Nat \ {0} /\ line[q].offset \in Nat
            /\ line[p].offset + line[p].size <= line[q].offset
        BY <2>1 DEF LineInv
      <3> DEFINE x == line[p].offset
                 y == line[q].offset
                 z == line[p].size
      <3>2. x \in Nat /\ z \in Nat \ {0} /\ y \in Nat /\ x + z <= y
        BY <3>1
      <3> HIDE DEF x, y, z
      <3>3. x < y
        BY <3>2
      <3>4. QED
        BY <3>3 DEF x, y
    <2>2. QED
      BY <1>1, <2>1
  <1> DEFINE S == ZeroStep(b, a, d, lo, hi, o)
  <1>6. S = IF lo > hi THEN [below |-> (b + h) % SizeMod, above |-> a, delta |-> h]
            ELSE IF lo = o THEN [below |-> b, above |-> a, delta |-> 0]
            ELSE [below |-> (b - d) % SizeMod, above |-> (a - d) % SizeMod, delta |-> d]
    BY DEF ZeroStep
  <1> HIDE DEF S, lo, hi, h
  <1>7. CASE b = k
    <2>1. lo = o
      BY <1>7 DEF lo
    <2>2. b # a => Slot(n, k, b) < Slot(n, k, a)
      BY <1>1, <1>7 DEF Slot
    <2>3. ~(lo > hi)
      <3>1. CASE b = a
        BY <1>2, <3>1 DEF lo, hi
      <3>2. CASE b # a
        BY <1>2, <1>5, <2>2, <3>2
      <3>3. QED
        BY <3>1, <3>2
    <2>4. S = [below |-> b, above |-> a, delta |-> 0]
      BY <1>6, <2>1, <2>3
    <2>5. QED
      BY <1>7, <2>4 DEF Straddles, S, lo, hi
  <1>8. CASE b < k /\ k <= a
    <2>1. Slot(n, k, a) < Slot(n, k, b)
      BY <1>1, <1>8 DEF Slot
    <2>2. b + h \in 0..n - 1 /\ h \in 0..n - 1 /\ h >= 1
      BY <1>1, <1>3, <1>8
    <2>3. S = [below |-> b + h, above |-> a, delta |-> h]
      BY <1>2, <1>4, <1>5, <1>6, <2>1, <2>2
    <2>4. Straddles(b + h, a, h, k)
      BY <1>1, <1>3, <1>8, <2>2 DEF Straddles
    <2>5. QED
      BY <1>3, <2>2, <2>3, <2>4 DEF S, lo, hi
  <1>9. CASE d >= 1 /\ b - d >= 0 /\ b - d < k /\ k < b /\ k <= a - d
    <2>1. Slot(n, k, k) < Slot(n, k, b) /\ ~(Slot(n, k, a) < Slot(n, k, b))
          /\ (b # a => Slot(n, k, b) < Slot(n, k, a))
      BY <1>1, <1>9 DEF Slot
    <2>2. ~(lo > hi) /\ lo # o
      <3>1. CASE b = a
        BY <1>2, <1>5, <2>1, <3>1 DEF lo, hi
      <3>2. CASE b # a
        BY <1>2, <1>5, <2>1, <3>2
      <3>3. QED
        BY <3>1, <3>2
    <2>3. b - d \in 0..n - 1 /\ a - d \in 0..n - 1
      BY <1>1, <1>9
    <2>4. S = [below |-> b - d, above |-> a - d, delta |-> d]
      BY <1>4, <1>6, <2>2, <2>3
    <2>5. Straddles(b - d, a - d, d, k)
      BY <1>1, <1>9 DEF Straddles
    <2>6. b - d <= a - d /\ d # 0
      BY <1>9
    <2>7. QED
      BY <2>3, <2>4, <2>5, <2>6 DEF S, lo, hi
  <1>10. QED
    BY <1>7, <1>8, <1>9 DEF Straddles

\* A single file: nothing is searched.
LEMMA ZeroStepSingle ==
    ASSUME NEW x \in Nat, NEW o
    PROVE  LET step == ZeroStep(0, 0, 0, x, x, o) IN
           step.below = 0 /\ step.above = 0 /\ step.delta = 0
  <1>1. SizeMod \in Nat \ {0} /\ ~(x > x)
    BY DomainAssumption
  <1>2. 0 \in 0..SizeMod - 1 /\ 0 - 0 = 0
    BY <1>1
  <1>3. 0 % SizeMod = 0
    BY <1>1, <1>2, ModWrap
  <1>4. ZeroStep(0, 0, 0, x, x, o) = [below |-> 0, above |-> 0, delta |-> 0]
    BY <1>1, <1>2, <1>3 DEF ZeroStep
  <1>5. QED
    BY <1>4

LEMMA PositionTriple ==
    ASSUME NEW p \in [Dim -> Nat], \A i \in Dim : p[i] \in 0..mpiSize[i] - 1
    PROVE  p \in Positions
  <1>1. p[1] \in 0..mpiSize[1] - 1 /\ p[2] \in 0..mpiSize[2] - 1 /\ p[3] \in 0..mpiSize[3] - 1
    BY DEF Dim
  <1>2. p = <<p[1], p[2], p[3]>>
    BY DEF Dim
  <1>3. QED
    BY <1>1, <1>2 DEF Positions

\* Below a position of the topology lies its own file.
LEMMA OwnFile ==
    ASSUME GridInv, NEW p \in [Dim -> Nat], \A i \in Dim : p[i] \in 0..mpiSize[i] - 1
    PROVE  FilesBehind(p) = {p}
  <1>1. p \in Positions
    BY PositionTriple
  <1>2. CASE merged
    BY <1>1, <1>2 DEF FilesBehind
  <1>3. CASE ~merged
    <2>1. \A i \in Dim : p[i] = 0
      BY <1>3 DEF GridInv, Ones, Dim
    <2>2. p = Zero
      BY <2>1 DEF Zero, Dim
    <2>3. QED
      BY <1>3, <2>2 DEF FilesBehind
  <1>4. QED
    BY <1>2, <1>3

LEMMA ZeroInit ==
    ASSUME Init, NEW k, Shifts(k)
    PROVE  ZeroInv(k)
  <1>1. GridInv
    BY GridInit
  <1>2. /\ belowZero = Zero /\ aboveZero = [i \in Dim |-> mpiSize[i] - 1] /\ delta = Zero
        /\ phase = "zero"
    BY DEF Init
  <1>3. ASSUME NEW i \in Dim
        PROVE  /\ belowZero[i] \in 0..mpiSize[i] - 1 /\ aboveZero[i] \in 0..mpiSize[i] - 1
               /\ delta[i] \in 0..mpiSize[i] - 1 /\ belowZero[i] <= aboveZero[i]
               /\ Straddles(belowZero[i], aboveZero[i], delta[i], k[i])
    <2>1. mpiSize[i] \in Nat \ {0} /\ k[i] \in 0..mpiSize[i] - 1
      BY <1>1, SizesPositive DEF GridInv, Shifts, Shift, LineInv
    <2>2. belowZero[i] = 0 /\ delta[i] = 0 /\ aboveZero[i] = mpiSize[i] - 1
      BY <1>2 DEF Zero, Dim
    <2>3. QED
      BY <2>1, <2>2 DEF Straddles
  <1>4. QED
    BY <1>2, <1>3 DEF ZeroInv

LEMMA ZeroFinds ==
    ASSUME ReadInv, GridInv, NEW k, Shifts(k), ZeroInv(k), FindZero
    PROVE  ZeroInv(k)'
  <1> DEFINE S(i) == ZeroStep(belowZero[i], aboveZero[i], delta[i],
                              cells[i][belowZero[i]].offset,
                              cells[i][aboveZero[i]].offset, globalOffset[i])
  <1>1. mpiSize' = mpiSize
    BY DEF FindZero, files
  <1>2. \A i \in Dim : mpiSize[i] \in Nat \ {0}
    BY SizesPositive DEF GridInv
  <1>3. FilesBehind(belowZero) = {belowZero} /\ FilesBehind(aboveZero) = {aboveZero}
    BY OwnFile DEF ReadInv, ZeroInv
  <1>4. PICK lo \in FilesBehind(belowZero), hi \in FilesBehind(aboveZero) :
          LET step == [i \in Dim |->
                        ZeroStep(belowZero[i], aboveZero[i], delta[i],
                                 FileDomain(lo).offset[i],
                                 FileDomain(hi).offset[i], globalOffset[i])]
          IN  /\ belowZero' = [i \in Dim |-> step[i].below]
              /\ aboveZero' = [i \in Dim |-> step[i].above]
              /\ delta' = [i \in Dim |-> step[i].delta]
    BY DEF FindZero
  <1>5. lo = belowZero /\ hi = aboveZero
    BY <1>3
  <1>6. /\ \A i \in Dim : FileDomain(lo).offset[i] = cells[i][belowZero[i]].offset
        /\ \A i \in Dim : FileDomain(hi).offset[i] = cells[i][aboveZero[i]].offset
    BY <1>5 DEF FileDomain
  <1>7. ASSUME NEW i \in Dim
        PROVE  belowZero'[i] = S(i).below /\ aboveZero'[i] = S(i).above /\ delta'[i] = S(i).delta
    BY <1>4, <1>6
  <1>8. ASSUME NEW i \in Dim
        PROVE  /\ S(i).below \in 0..mpiSize[i] - 1 /\ S(i).above \in 0..mpiSize[i] - 1
               /\ S(i).delta \in 0..mpiSize[i] - 1 /\ S(i).below <= S(i).above
               /\ Straddles(S(i).below, S(i).above, S(i).delta, k[i])
               /\ S(i).delta = 0 => S(i).below = k[i]
    <2> DEFINE n == mpiSize[i]
               line == cells[i]
               b == belowZero[i]
               a == aboveZero[i]
               d == delta[i]
               o == globalOffset[i]
               j == k[i]
    <2>1. n \in Nat \ {0} /\ n <= SizeMod /\ LineInv(line, n, j) /\ b \in 0..n - 1
          /\ a \in 0..n - 1 /\ d \in 0..n - 1 /\ b <= a /\ Straddles(b, a, d, j)
      BY <1>2 DEF GridInv, Shifts, Shift, ZeroInv
    <2>2. CASE merged
      <3>1. o = line[j].offset
        BY <2>2 DEF Shifts, Shift
      <3> HIDE DEF n, line, b, a, d, o, j
      <3>2. LET step == ZeroStep(b, a, d, line[b].offset, line[a].offset, o) IN
           /\ step.below \in 0..n - 1 /\ step.above \in 0..n - 1 /\ step.delta \in 0..n - 1
           /\ step.below <= step.above
           /\ Straddles(step.below, step.above, step.delta, j)
           /\ step.delta = 0 => step.below = j
        BY <2>1, <3>1, ZeroStepKeeps
      <3>3. QED
        BY <3>2 DEF n, line, b, a, d, o, j
    <2>3. CASE ~merged
      <3>1. n = 1
        BY <2>3 DEF GridInv, Ones, Dim
      <3>2. b = 0 /\ a = 0 /\ d = 0 /\ j = 0 /\ line[0].offset \in Nat
        BY <2>1, <3>1 DEF LineInv
      <3>3. S(i).below = 0 /\ S(i).above = 0 /\ S(i).delta = 0
        BY <3>2, ZeroStepSingle
      <3>4. QED
        BY <3>1, <3>2, <3>3 DEF Straddles
    <2>4. QED
      BY <2>2, <2>3
  <1>9. phase' = (IF delta' = Zero THEN "half" ELSE "zero")
    BY DEF FindZero
  <1>10. delta' = Zero => \A i \in Dim : delta'[i] = 0
    BY DEF Zero, Dim
  <1> HIDE DEF S
  <1>11. phase' \in {"half", "first", "walk", "done"} => \A i \in Dim : belowZero'[i] = k[i]
    BY <1>7, <1>8, <1>9, <1>10
  <1>12. QED
    BY <1>1, <1>7, <1>8, <1>11 DEF ZeroInv

\* Later steps leave it alone.
LEMMA ZeroStays ==
    ASSUME NEW k, ZeroInv(k), UNCHANGED <<files, zeroVars>>,
           phase' \in {"half", "first", "walk", "done"} =>
             phase \in {"half", "first", "walk", "done"}
    PROVE  ZeroInv(k)'
  BY DEF ZeroInv, files, zeroVars

LEMMA ZeroNext ==
    ASSUME ReadInv, GridInv, NEW k, Shifts(k), ZeroInv(k), [Next]_vars
    PROVE  ZeroInv(k)'
  <1>1. CASE FindZero
    BY <1>1, ZeroFinds
  <1>2. CASE ChooseHalf
    BY <1>2, ZeroStays DEF ChooseHalf
  <1>3. CASE FindFirst
    <2>1. UNCHANGED <<files, zeroVars>> /\ phase = "first"
      BY <1>3 DEF FindFirst, StartWalk, Narrow
    <2>2. QED
      BY <2>1, ZeroStays
  <1>4. CASE FindNoFile \/ Walk
    <2>1. UNCHANGED <<files, zeroVars>> /\ phase \in {"first", "walk"}
      BY <1>4 DEF FindNoFile, Walk
    <2>2. QED
      BY <2>1, ZeroStays
  <1>5. CASE Throws \/ Finished \/ UNCHANGED vars
    <2>1. UNCHANGED <<files, zeroVars>> /\ (phase' = phase \/ phase' = "thrown")
      BY <1>5 DEF Throws, Finished, vars
    <2>2. QED
      BY <2>1, ZeroStays
  <1>6. QED
    BY <1>1, <1>2, <1>3, <1>4, <1>5 DEF Next, Progress

-----------------------------------------------------------------------------
(* The files of a request that begins in the domain *)

\* The file with the first cell of the request.
First(f) ==
    /\ f \in [Dim -> Nat]
    /\ \A i \in Dim : /\ f[i] \in 0..mpiSize[i] - 1
                      /\ cells[i][f[i]].offset <= request.offset[i]
                      /\ request.offset[i] < cells[i][f[i]].offset + cells[i][f[i]].size

\* The position u places behind it, periodically.
At(i, f, u) == IF f[i] + u < mpiSize[i] THEN f[i] + u ELSE f[i] + u - mpiSize[i]

Place(f, a, b, c) == <<At(1, f, a), At(2, f, b), At(3, f, c)>>

Meet(i, p) ==
    /\ request.offset[i] < cells[i][p].offset + cells[i][p].size
    /\ cells[i][p].offset < request.offset[i] + request.size[i]

\* In dimension i the first m[i] of them meet the request, and no others.
Counts(f, m) ==
    /\ m \in [Dim -> Nat]
    /\ \A i \in Dim : /\ m[i] \in 1..mpiSize[i]
                      /\ \A u \in 0..mpiSize[i] - 1 : Meet(i, At(i, f, u)) <=> u < m[i]

LEMMA AtFacts ==
    ASSUME NEW i \in Dim, mpiSize[i] \in Nat \ {0}, NEW f, f[i] \in 0..mpiSize[i] - 1,
           NEW u \in 0..mpiSize[i] - 1
    PROVE  /\ At(i, f, u) \in 0..mpiSize[i] - 1
           /\ (f[i] + u) % mpiSize[i] = At(i, f, u)
           /\ At(i, f, 0) = f[i]
           /\ u # 0 => Pred(i, At(i, f, u)) = At(i, f, u - 1)
           /\ (f[i] + mpiSize[i] - 1) % mpiSize[i] = At(i, f, mpiSize[i] - 1)
           /\ f[i] % mpiSize[i] = f[i]
           /\ \A v \in 0..mpiSize[i] - 1 : At(i, f, u) = At(i, f, v) => u = v
  <1> DEFINE n == mpiSize[i]
             g == f[i]
             x == At(i, f, u)
  <1>1. n \in Nat \ {0} /\ g \in 0..n - 1 /\ u \in 0..n - 1
    OBVIOUS
  <1>2. x = IF g + u < n THEN g + u ELSE g + u - n
    BY DEF At
  <1>3. /\ At(i, f, 0) = IF g + 0 < n THEN g + 0 ELSE g + 0 - n
        /\ At(i, f, u - 1) = IF g + (u - 1) < n THEN g + (u - 1) ELSE g + (u - 1) - n
        /\ At(i, f, n - 1) = IF g + (n - 1) < n THEN g + (n - 1) ELSE g + (n - 1) - n
        /\ \A v : At(i, f, v) = IF g + v < n THEN g + v ELSE g + v - n
    BY DEF At
  <1>4. Pred(i, x) = (x + n - 1) % n
    BY DEF Pred
  <1> HIDE DEF n, g, x
  <1>5. \A a \in Int : /\ a \in 0..(n - 1) => a % n = a
                       /\ a \in n..(2 * n - 1) => a % n = a - n
    BY <1>1, ModWrap
  <1>6. x \in 0..n - 1
    BY <1>1, <1>2
  <1>7. (g + u) % n = x
    BY <1>1, <1>2, <1>5
  <1>8. g % n = g
    BY <1>1, <1>5
  <1>9. (g + n - 1) % n = At(i, f, n - 1)
    <2>1. CASE g = 0
      BY <1>1, <1>3, <1>5, <2>1
    <2>2. CASE g # 0
      <3> DEFINE a == g + n - 1
      <3>1. a \in n..(2 * n - 1) /\ a \in Int
        BY <1>1, <2>2
      <3>2. a % n = a - n
        <4> HIDE DEF a
        <4>1. QED
          BY <1>5, <3>1
      <3>3. QED
        BY <1>1, <1>3, <2>2, <3>2
    <2>3. QED
      BY <2>1, <2>2
  <1>10. u # 0 => (x + n - 1) % n = At(i, f, u - 1)
    <2>1. CASE x = 0
      <3>1. x + n - 1 \in 0..(n - 1)
        BY <1>1, <2>1
      <3>2. (x + n - 1) % n = x + n - 1
        BY <1>5, <3>1
      <3>3. QED
        BY <1>1, <1>2, <1>3, <2>1, <3>2
    <2>2. CASE x # 0
      <3> DEFINE a == x + n - 1
      <3>1. a \in n..(2 * n - 1) /\ a \in Int
        BY <1>1, <1>6, <2>2
      <3>2. a % n = a - n
        <4> HIDE DEF a
        <4>1. QED
          BY <1>5, <3>1
      <3>3. QED
        BY <1>1, <1>2, <1>3, <2>2, <3>2
    <2>3. QED
      BY <2>1, <2>2
  <1>11. \A v \in 0..n - 1 : x = At(i, f, v) => u = v
    BY <1>1, <1>2, <1>3
  <1>12. At(i, f, 0) = g
    BY <1>1, <1>3
  <1>13. QED
    BY <1>4, <1>6, <1>7, <1>8, <1>9, <1>10, <1>11, <1>12 DEF n, g, x

\* Every position is some places behind the first one.
LEMMA AtSurjective ==
    ASSUME NEW i \in Dim, mpiSize[i] \in Nat \ {0}, NEW f, f[i] \in 0..mpiSize[i] - 1,
           NEW p \in 0..mpiSize[i] - 1
    PROVE  \E u \in 0..mpiSize[i] - 1 : At(i, f, u) = p
  <1>1. CASE f[i] <= p
    <2>1. p - f[i] \in 0..mpiSize[i] - 1 /\ At(i, f, p - f[i]) = p
      BY <1>1 DEF At
    <2>2. QED
      BY <2>1
  <1>2. CASE ~(f[i] <= p)
    <2>1. p - f[i] + mpiSize[i] \in 0..mpiSize[i] - 1
      BY <1>2
    <2>2. At(i, f, p - f[i] + mpiSize[i]) = p
      BY <1>2 DEF At
    <2>3. QED
      BY <2>1, <2>2
  <1>3. QED
    BY <1>1, <1>2

\* Order in a line.
LEMMA InOrder ==
    ASSUME NEW n \in Nat \ {0}, NEW k, NEW line, LineInv(line, n, k),
           NEW p \in 0..n - 1, NEW q \in 0..n - 1
    PROVE  /\ line[p].offset \in Nat /\ line[p].size \in Nat \ {0}
           /\ line[q].offset \in Nat /\ line[q].size \in Nat \ {0}
           /\ Slot(n, k, p) \in 0..n - 1 /\ Slot(n, k, q) \in 0..n - 1
           /\ Slot(n, k, p) < Slot(n, k, q) => line[p].offset + line[p].size <= line[q].offset
           /\ Slot(n, k, q) < Slot(n, k, p) => line[q].offset + line[q].size <= line[p].offset
           /\ Slot(n, k, p) = Slot(n, k, q) => p = q
           /\ k \in 0..n - 1
  <1>1. k \in 0..n - 1
    BY DEF LineInv
  <1>2. /\ Slot(n, k, p) \in 0..n - 1 /\ Slot(n, k, q) \in 0..n - 1
        /\ Slot(n, k, p) = Slot(n, k, q) => p = q
    BY <1>1 DEF Slot
  <1>3. QED
    BY <1>1, <1>2 DEF LineInv

\* What meets the request lies at or behind the first file, and what lies between
\* that and a file that meets it meets it too.
LEMMA MeetDown ==
    ASSUME GridInv, NEW i \in Dim, NEW f, First(f),
           NEW u \in 0..mpiSize[i] - 1, NEW v \in 0..mpiSize[i] - 1, u < v,
           Meet(i, At(i, f, v))
    PROVE  Meet(i, At(i, f, u))
  <1> DEFINE n == mpiSize[i]
             line == cells[i]
             p == At(i, f, u)
             q == At(i, f, v)
             g == f[i]
             ro == request.offset[i]
             rs == request.size[i]
  <1>1. PICK k \in 0..n - 1 : LineInv(line, n, k)
    BY DEF GridInv, Shift
  <1>2. /\ n \in Nat \ {0} /\ ro \in Nat /\ rs \in Nat \ {0} /\ g \in 0..n - 1
        /\ line[g].offset <= ro /\ ro < line[g].offset + line[g].size
    BY SizesPositive DEF GridInv, InputOK, First
  <1>3. p \in 0..n - 1 /\ q \in 0..n - 1
    BY <1>2, AtFacts
  <1>4. /\ p = IF g + u < n THEN g + u ELSE g + u - n
        /\ q = IF g + v < n THEN g + v ELSE g + v - n
    BY DEF At
  <1>5. ro < line[q].offset + line[q].size /\ line[q].offset < ro + rs
    BY DEF Meet
  <1>6. SUFFICES ro < line[p].offset + line[p].size /\ line[p].offset < ro + rs
    BY DEF Meet
  <1> HIDE DEF n, line, p, q, g, ro, rs
  <1>7. \A x, y \in 0..n - 1 :
           /\ line[x].offset \in Nat /\ line[x].size \in Nat \ {0}
           /\ line[y].offset \in Nat /\ line[y].size \in Nat \ {0}
           /\ Slot(n, k, x) < Slot(n, k, y) => line[x].offset + line[x].size <= line[y].offset
    BY <1>1, <1>2, InOrder
  <1>8. ~(Slot(n, k, q) < Slot(n, k, g))
    <2>1. /\ line[q].offset \in Nat /\ line[q].size \in Nat \ {0} /\ line[g].offset \in Nat
          /\ Slot(n, k, q) < Slot(n, k, g) => line[q].offset + line[q].size <= line[g].offset
      BY <1>2, <1>3, <1>7
    <2>2. QED
      BY <1>2, <1>5, <2>1
  <1>9. Slot(n, k, p) < Slot(n, k, q) /\ (p = g \/ Slot(n, k, g) < Slot(n, k, p))
    BY <1>1, <1>2, <1>3, <1>4, <1>8 DEF Slot, n
  <1>10. /\ line[p].offset \in Nat /\ line[p].size \in Nat \ {0} /\ line[q].offset \in Nat
         /\ line[g].offset \in Nat /\ line[g].size \in Nat \ {0}
         /\ line[p].offset + line[p].size <= line[q].offset
         /\ p = g \/ line[g].offset + line[g].size <= line[p].offset
    BY <1>2, <1>3, <1>7, <1>9
  <1>11. line[p].offset < ro + rs
    BY <1>2, <1>5, <1>10
  <1>12. ro < line[p].offset + line[p].size
    BY <1>2, <1>10
  <1>13. QED
    BY <1>11, <1>12

LEMMA FirstMeets ==
    ASSUME GridInv, NEW f, First(f), NEW i \in Dim
    PROVE  Meet(i, At(i, f, 0)) /\ mpiSize[i] \in Nat \ {0} /\ f[i] \in 0..mpiSize[i] - 1
  <1>1. mpiSize[i] \in Nat \ {0} /\ f[i] \in 0..mpiSize[i] - 1
    BY SizesPositive DEF GridInv, First
  <1>2. At(i, f, 0) = f[i]
    BY <1>1 DEF At
  <1>3. request.offset[i] \in Nat /\ request.size[i] \in Nat \ {0}
        /\ cells[i][f[i]].offset \in Nat
    BY <1>1 DEF GridInv, InputOK
  <1>4. QED
    BY <1>1, <1>2, <1>3 DEF First, Meet

LEMMA CountsExist ==
    ASSUME GridInv, NEW f, First(f)
    PROVE  \E m : Counts(f, m)
  <1> DEFINE OK(i, c) == /\ c \in 1..mpiSize[i]
                         /\ \A u \in 0..mpiSize[i] - 1 : Meet(i, At(i, f, u)) <=> u < c
  <1>1. ASSUME NEW i \in Dim PROVE \E c \in Nat : OK(i, c)
    <2> DEFINE n == mpiSize[i]
               S == {c \in 1..n : c = n \/ ~Meet(i, At(i, f, c))}
    <2>1. n \in Nat \ {0} /\ Meet(i, At(i, f, 0))
      BY FirstMeets
    <2>2. S \in SUBSET Nat /\ n \in S
      BY <2>1
    <2>3. PICK c \in S : \A x \in S : c <= x
      BY <2>2, LeastNatural
    <2>4. c \in 1..n /\ (c = n \/ ~Meet(i, At(i, f, c)))
      BY <2>3
    <2>5. ASSUME NEW u \in 0..n - 1 PROVE Meet(i, At(i, f, u)) <=> u < c
      <3>1. CASE u < c
        <4>1. CASE u = 0
          BY <2>1, <3>1, <4>1
        <4>2. CASE u # 0
          <5>1. u \in 1..n /\ u # n /\ ~(c <= u)
            BY <2>1, <2>4, <3>1, <4>2
          <5>2. QED
            BY <2>3, <3>1, <5>1
        <4>3. QED
          BY <4>1, <4>2
      <3>2. CASE u = c
        BY <2>1, <2>4, <3>2
      <3>3. CASE u > c
        <4>1. c \in 0..n - 1 /\ ~Meet(i, At(i, f, c))
          BY <2>1, <2>4, <3>3
        <4>2. ~Meet(i, At(i, f, u))
          BY <3>3, <4>1, MeetDown
        <4>3. QED
          BY <2>4, <3>3, <4>2
      <3>4. QED
        BY <2>1, <2>4, <3>1, <3>2, <3>3
    <2>6. OK(i, c) /\ c \in Nat
      BY <2>4, <2>5
    <2>7. QED
      BY <2>6
  <1> DEFINE m == [i \in Dim |-> CHOOSE c \in Nat : OK(i, c)]
  <1> HIDE DEF OK
  <1>2. \A i \in Dim : m[i] \in Nat /\ OK(i, m[i])
    BY <1>1
  <1>3. m \in [Dim -> Nat]
    BY <1>2
  <1> HIDE DEF m
  <1>4. Counts(f, m)
    BY <1>2, <1>3 DEF Counts, OK
  <1>5. QED
    BY <1>4


\* A line and the position in it that holds cell r.
Holds(line, p, r) == line[p].offset <= r /\ r < line[p].offset + line[p].size

LEMMA HoldsOnce ==
    ASSUME NEW n \in Nat \ {0}, NEW k, NEW line, LineInv(line, n, k), NEW r \in Nat,
           NEW f \in 0..n - 1, Holds(line, f, r), NEW p \in 0..n - 1, Holds(line, p, r)
    PROVE  p = f
  <1> DEFINE fo == line[f].offset
             fs == line[f].size
             po == line[p].offset
             ps == line[p].size
             a == Slot(n, k, p)
             b == Slot(n, k, f)
  <1>1. /\ po \in Nat /\ ps \in Nat \ {0} /\ fo \in Nat /\ fs \in Nat \ {0}
        /\ a \in 0..n - 1 /\ b \in 0..n - 1
        /\ a < b => po + ps <= fo
        /\ b < a => fo + fs <= po
        /\ a = b => p = f
    BY InOrder
  <1>2. fo <= r /\ r < fo + fs /\ po <= r /\ r < po + ps
    BY DEF Holds
  <1> HIDE DEF fo, fs, po, ps, a, b
  <1>3. a = b
    BY <1>1, <1>2
  <1>4. QED
    BY <1>1, <1>3

\* DomainCollector.cpp:532-546. A request begins behind the last file exactly
\* when its first file lies before the position where the domain begins.
LEMMA HalfOfFirst ==
    ASSUME NEW n \in Nat \ {0}, NEW k, NEW line, LineInv(line, n, k), NEW r \in Nat,
           NEW f \in 0..n - 1, Holds(line, f, r)
    PROVE  r < line[n - 1].offset + line[n - 1].size <=> k <= f
  <1> DEFINE l == n - 1
             fo == line[f].offset
             fs == line[f].size
             lo == line[l].offset
             ls == line[l].size
             a == Slot(n, k, l)
             b == Slot(n, k, f)
  <1>1. l \in 0..n - 1
    OBVIOUS
  <1>2. a = IF k <= l THEN l - k ELSE l - k + n
    BY DEF Slot
  <1>3. b = IF k <= f THEN f - k ELSE f - k + n
    BY DEF Slot
  <1> HIDE DEF l
  <1>4. /\ lo \in Nat /\ ls \in Nat \ {0} /\ fo \in Nat /\ fs \in Nat \ {0}
        /\ a \in 0..n - 1 /\ b \in 0..n - 1
        /\ a < b => lo + ls <= fo
        /\ b < a => fo + fs <= lo
        /\ a = b => l = f
        /\ k \in 0..n - 1
    BY <1>1, InOrder
  <1>5. fo <= r /\ r < fo + fs
    BY DEF Holds
  <1>6. l = n - 1 /\ l \in Nat
    BY DEF l
  <1>7. l = f => lo = fo /\ ls = fs
    OBVIOUS
  <1> HIDE DEF fo, fs, lo, ls, a, b
  <1>8. CASE k <= f
    <2>1. b < a \/ a = b
      BY <1>2, <1>3, <1>4, <1>6, <1>8
    <2>2. r < lo + ls
      BY <1>4, <1>5, <1>7, <2>1
    <2>3. QED
      BY <1>8, <2>2 DEF lo, ls, l
  <1>9. CASE ~(k <= f)
    <2>1. a < b
      BY <1>2, <1>3, <1>4, <1>6, <1>9
    <2>2. ~(r < lo + ls)
      BY <1>4, <1>5, <2>1
    <2>3. QED
      BY <1>9, <2>2 DEF lo, ls, l
  <1>10. QED
    BY <1>8, <1>9

\* DomainCollector.cpp:581-588. In a range that the begin of the domain does not
\* divide, the files that begin at or before the first cell are those up to its file.
LEMMA SideOfFirst ==
    ASSUME NEW n \in Nat \ {0}, NEW k, NEW line, LineInv(line, n, k), NEW r \in Nat,
           NEW f \in 0..n - 1, Holds(line, f, r), NEW p \in 0..n - 1,
           (k <= f /\ k <= p) \/ (f < k /\ p < k)
    PROVE  r >= line[p].offset <=> p <= f
  <1> DEFINE fo == line[f].offset
             fs == line[f].size
             po == line[p].offset
             ps == line[p].size
             a == Slot(n, k, p)
             b == Slot(n, k, f)
  <1>2. a = IF k <= p THEN p - k ELSE p - k + n
    BY DEF Slot
  <1>3. b = IF k <= f THEN f - k ELSE f - k + n
    BY DEF Slot
  <1>4. /\ po \in Nat /\ ps \in Nat \ {0} /\ fo \in Nat /\ fs \in Nat \ {0}
        /\ a \in 0..n - 1 /\ b \in 0..n - 1
        /\ a < b => po + ps <= fo
        /\ b < a => fo + fs <= po
        /\ a = b => p = f
        /\ k \in 0..n - 1
    BY InOrder
  <1>5. fo <= r /\ r < fo + fs
    BY DEF Holds
  <1>7. p = f => po = fo
    OBVIOUS
  <1> HIDE DEF fo, fs, po, ps, a, b
  <1>8. a < b <=> p < f
    BY <1>2, <1>3, <1>4
  <1>9. CASE p < f
    BY <1>4, <1>5, <1>8, <1>9 DEF po
  <1>10. CASE p = f
    <2>1. r >= po
      BY <1>4, <1>5, <1>7, <1>10
    <2>2. QED
      BY <2>1, <1>10 DEF po
  <1>11. CASE f < p
    <2>1. b < a
      BY <1>4, <1>8, <1>11
    <2>2. ~(r >= po)
      BY <1>4, <1>5, <2>1
    <2>3. QED
      BY <2>2, <1>11 DEF po
  <1>12. QED
    BY <1>9, <1>10, <1>11


-----------------------------------------------------------------------------
(* The search for the first file *)

RangesInv ==
    \A i \in Dim : /\ minDims[i] \in 0..mpiSize[i] - 1
                   /\ maxDims[i] \in 0..mpiSize[i] - 1
                   /\ currentPos[i] \in 0..mpiSize[i] - 1

\* In one dimension the range holds f, the begin of the domain at k does not divide
\* it, and the last middle is its lower end or was cut off at its upper one.
Encloses(lo, hi, c, k, f) ==
    /\ lo <= f /\ f <= hi
    /\ k <= lo \/ hi < k
    /\ c = lo \/ c = hi + 1

FirstInv(k, f) ==
    phase = "first" =>
        \A i \in Dim : Encloses(minDims[i], maxDims[i], currentPos[i], k[i], f[i])

\* What the search for the first file changes in one dimension.
NarrowedLow(lo, p, after) == IF after THEN p ELSE lo
NarrowedHigh(hi, p, after) == IF after THEN hi ELSE (p - 1) % SizeMod

LEMMA HalfChosen ==
    ASSUME NEW n \in Nat \ {0}, NEW k, NEW line, LineInv(line, n, k), NEW r \in Nat,
           NEW f \in 0..n - 1, Holds(line, f, r), NEW lo, NEW hi,
           lo = IF r < line[n - 1].offset + line[n - 1].size THEN k ELSE 0,
           hi = IF r < line[n - 1].offset + line[n - 1].size THEN n - 1
                ELSE IF k > 1 THEN k - 1 ELSE 0
    PROVE  lo \in 0..n - 1 /\ hi \in 0..n - 1 /\ Encloses(lo, hi, lo, k, f)
  <1>1. r < line[n - 1].offset + line[n - 1].size <=> k <= f
    BY HalfOfFirst
  <1>2. k \in 0..n - 1
    BY DEF LineInv
  <1>3. lo = IF k <= f THEN k ELSE 0
    BY <1>1
  <1>4. hi = IF k <= f THEN n - 1 ELSE IF k > 1 THEN k - 1 ELSE 0
    BY <1>1
  <1>5. QED
    BY <1>2, <1>3, <1>4 DEF Encloses

LEMMA MiddleIn ==
    ASSUME NEW n \in Nat \ {0}, n <= SizeMod, NEW lo \in 0..n - 1, NEW hi \in 0..n - 1,
           lo <= hi
    PROVE  /\ (lo + Half(lo, hi)) % SizeMod = lo + Half(lo, hi)
           /\ lo + Half(lo, hi) \in lo..hi
           /\ Half(lo, hi) = 0 <=> lo = hi
           /\ Half(lo, hi) \in Nat
  <1> DEFINE p == lo + Half(lo, hi)
  <1>a. lo \in Nat /\ hi \in Nat
    OBVIOUS
  <1>b. Half(lo, hi) \in Nat /\ lo + Half(lo, hi) <= hi /\ (Half(lo, hi) = 0 <=> lo = hi)
    BY <1>a, HalfFacts
  <1>1. Half(lo, hi) \in Nat /\ p <= hi /\ (Half(lo, hi) = 0 <=> lo = hi)
    BY <1>b
  <1>2. p \in lo..hi /\ p \in 0..SizeMod - 1 /\ SizeMod \in Nat \ {0}
    BY <1>1, DomainAssumption
  <1> HIDE DEF p
  <1>3. p % SizeMod = p
    BY <1>2, ModWrap
  <1>4. QED
    BY <1>1, <1>2, <1>3 DEF p

LEMMA Narrowed ==
    ASSUME NEW n \in Nat \ {0}, n <= SizeMod, NEW lo \in 0..n - 1, NEW hi \in 0..n - 1,
           NEW c, NEW k \in 0..n - 1, NEW f \in 0..n - 1, Encloses(lo, hi, c, k, f),
           NEW p \in lo..hi, NEW after, after <=> p <= f
    PROVE  /\ NarrowedLow(lo, p, after) \in 0..n - 1
           /\ NarrowedHigh(hi, p, after) \in 0..n - 1
           /\ Encloses(NarrowedLow(lo, p, after), NarrowedHigh(hi, p, after), p, k, f)
  <1> DEFINE a == p - 1
  <1>1. a \in Int /\ a = p - 1
    OBVIOUS
  <1> HIDE DEF a
  <1>2. CASE p <= f
    BY <1>2 DEF NarrowedLow, NarrowedHigh, Encloses
  <1>3. CASE ~(p <= f)
    <2>1. a \in 0..n - 1 /\ a \in 0..SizeMod - 1 /\ SizeMod \in Nat \ {0}
      BY <1>1, <1>3, DomainAssumption DEF Encloses
    <2>2. a % SizeMod = a
      BY <2>1, ModWrap
    <2>3. NarrowedLow(lo, p, after) = lo /\ NarrowedHigh(hi, p, after) = a
      BY <1>3, <2>2 DEF NarrowedLow, NarrowedHigh, a
    <2>4. QED
      BY <1>1, <1>3, <2>1, <2>3 DEF Encloses
  <1>4. QED
    BY <1>2, <1>3

\* What a grid and a first file are in one dimension.
LEMMA LineOf ==
    ASSUME GridInv, NEW k, Shifts(k), NEW f, First(f), NEW i \in Dim
    PROVE  /\ mpiSize[i] \in Nat \ {0} /\ mpiSize[i] <= SizeMod
           /\ LineInv(cells[i], mpiSize[i], k[i]) /\ k[i] \in 0..mpiSize[i] - 1
           /\ request.offset[i] \in Nat /\ request.size[i] \in Nat \ {0}
           /\ f[i] \in 0..mpiSize[i] - 1 /\ Holds(cells[i], f[i], request.offset[i])
  <1>1. LineInv(cells[i], mpiSize[i], k[i])
    BY DEF Shifts, Shift
  <1>2. mpiSize[i] \in Nat \ {0}
    BY SizesPositive DEF GridInv
  <1>3. QED
    BY <1>1, <1>2 DEF GridInv, InputOK, First, Holds, LineInv

LEMMA HalfStarts ==
    ASSUME ReadInv, GridInv, NEW k, Shifts(k), NEW f, First(f), ZeroInv(k), ChooseHalf
    PROVE  RangesInv' /\ FirstInv(k, f)'
  <1>1. mpiSize' = mpiSize /\ currentPos' = minDims'
    BY DEF ChooseHalf, files
  <1>2. ASSUME NEW i \in Dim
        PROVE  /\ minDims'[i] \in 0..mpiSize[i] - 1 /\ maxDims'[i] \in 0..mpiSize[i] - 1
               /\ Encloses(minDims'[i], maxDims'[i], minDims'[i], k[i], f[i])
    <2> DEFINE n == mpiSize[i]
               line == cells[i]
               r == request.offset[i]
               lo == minDims'[i]
               hi == maxDims'[i]
               j == k[i]
               g == f[i]
    <2>1. /\ n \in Nat \ {0} /\ LineInv(line, n, j) /\ r \in Nat
          /\ g \in 0..n - 1 /\ Holds(line, g, r)
      BY LineOf
    <2>2. belowZero[i] = j
      BY DEF ZeroInv, ChooseHalf
    <2>3. End(FileDomain([l \in Dim |-> mpiSize[l] - 1]))[i]
            = line[n - 1].offset + line[n - 1].size
      BY DEF End, FileDomain
    <2>4. lo = IF r < line[n - 1].offset + line[n - 1].size THEN j ELSE 0
      BY <2>2, <2>3 DEF ChooseHalf
    <2>5. hi = IF r < line[n - 1].offset + line[n - 1].size THEN n - 1
               ELSE IF j > 1 THEN j - 1 ELSE 0
      BY <2>2, <2>3 DEF ChooseHalf
    <2> HIDE DEF n, line, r, lo, hi, j, g
    <2>6. lo \in 0..n - 1 /\ hi \in 0..n - 1 /\ Encloses(lo, hi, lo, j, g)
      BY <2>1, <2>4, <2>5, HalfChosen
    <2>7. QED
      BY <2>6 DEF n, lo, hi, j, g
  <1>3. QED
    BY <1>1, <1>2 DEF RangesInv, FirstInv


LEMMA MiddleFile ==
    ASSUME ReadInv, GridInv, NEW k, Shifts(k), NEW f, First(f), RangesInv, FirstInv(k, f),
           phase = "first"
    PROVE  /\ Middle \in [Dim -> Nat]
           /\ \A i \in Dim : /\ Middle[i] \in minDims[i]..maxDims[i]
                             /\ Middle[i] \in 0..mpiSize[i] - 1
                             /\ Middle[i] = currentPos[i] => Middle[i] = f[i]
           /\ FilesBehind(Middle) = {Middle}
  <1>1. ASSUME NEW i \in Dim
        PROVE  /\ Middle[i] \in minDims[i]..maxDims[i]
               /\ Middle[i] \in 0..mpiSize[i] - 1
               /\ Middle[i] = currentPos[i] => Middle[i] = f[i]
    <2> DEFINE n == mpiSize[i]
               lo == minDims[i]
               hi == maxDims[i]
               p == Middle[i]
    <2>1. /\ n \in Nat \ {0} /\ n <= SizeMod /\ f[i] \in 0..n - 1
          /\ lo \in 0..n - 1 /\ hi \in 0..n - 1
          /\ Encloses(lo, hi, currentPos[i], k[i], f[i])
      BY LineOf DEF RangesInv, FirstInv
    <2>2. p = (lo + Half(lo, hi)) % SizeMod
      BY DEF Middle
    <2>3. lo <= hi
      BY <2>1 DEF Encloses
    <2> HIDE DEF n, lo, hi, p
    <2>4. /\ (lo + Half(lo, hi)) % SizeMod = lo + Half(lo, hi)
          /\ lo + Half(lo, hi) \in lo..hi
          /\ Half(lo, hi) = 0 <=> lo = hi
          /\ Half(lo, hi) \in Nat
      BY <2>1, <2>3, MiddleIn
    <2>5. p \in lo..hi /\ p \in 0..n - 1
      BY <2>1, <2>2, <2>4
    <2>6. p = currentPos[i] => p = f[i]
      BY <2>1, <2>2, <2>4, <2>5 DEF Encloses
    <2>7. QED
      BY <2>5, <2>6 DEF n, lo, hi, p
  <1>2. Middle \in [Dim -> Nat]
    <2>1. \A i \in Dim : mpiSize[i] \in Nat \ {0}
      BY LineOf
    <2>2. \A i \in Dim : Middle[i] \in Nat
      BY <1>1, <2>1
    <2>3. Middle = [i \in Dim |-> Middle[i]]
      BY DEF Middle
    <2> HIDE DEF Middle
    <2>4. QED
      BY <2>2, <2>3
  <1>3. FilesBehind(Middle) = {Middle}
    BY <1>1, <1>2, OwnFile
  <1>4. QED
    BY <1>1, <1>2, <1>3

\* The middle file holds the first cell exactly when it is the first file.
LEMMA MiddleHolds ==
    ASSUME ReadInv, GridInv, NEW k, Shifts(k), NEW f, First(f), NEW p \in [Dim -> Nat],
           \A i \in Dim : p[i] \in 0..mpiSize[i] - 1
    PROVE  Intersect([offset |-> request.offset, size |-> Ones], FileDomain(p)) <=> p = f
  <1> DEFINE d == [offset |-> request.offset, size |-> Ones]
  <1>1. ASSUME NEW i \in Dim
        PROVE  /\ (d.offset[i] < End(FileDomain(p))[i] /\ FileDomain(p).offset[i] < End(d)[i])
                    <=> Holds(cells[i], p[i], request.offset[i])
               /\ Holds(cells[i], p[i], request.offset[i]) <=> p[i] = f[i]
    <2> DEFINE n == mpiSize[i]
               line == cells[i]
               r == request.offset[i]
               q == p[i]
    <2>1. /\ n \in Nat \ {0} /\ LineInv(line, n, k[i]) /\ r \in Nat
          /\ f[i] \in 0..n - 1 /\ Holds(line, f[i], r) /\ q \in 0..n - 1
      BY LineOf
    <2>2. /\ End(FileDomain(p))[i] = line[q].offset + line[q].size
          /\ FileDomain(p).offset[i] = line[q].offset
          /\ d.offset[i] = r /\ End(d)[i] = r + 1
      BY DEF End, FileDomain, Ones, Dim
    <2>3. line[q].offset \in Nat
      BY <2>1 DEF LineInv
    <2> HIDE DEF n, line, r, q, d
    <2>4. (line[q].offset < r + 1) <=> line[q].offset <= r
      BY <2>1, <2>3
    <2>5. (d.offset[i] < End(FileDomain(p))[i] /\ FileDomain(p).offset[i] < End(d)[i])
             <=> Holds(line, q, r)
      BY <2>2, <2>4 DEF Holds
    <2>6. Holds(line, q, r) <=> q = f[i]
      BY <2>1, HoldsOnce
    <2>7. QED
      BY <2>5, <2>6 DEF n, line, r, q, d
  <1>2. p = f <=> \A i \in Dim : p[i] = f[i]
    BY DEF First
  <1>3. QED
    BY <1>1, <1>2 DEF Intersect

\* DomainCollector.cpp:550-605. The search visits only positions of the topology and
\* ends at the file with the first cell.
LEMMA FirstFound ==
    ASSUME ReadInv, GridInv, NEW k, Shifts(k), NEW f, First(f), RangesInv, FirstInv(k, f),
           FindFirst
    PROVE  /\ RangesInv'
           /\ currentPos' = Middle
           /\ \/ Middle = f /\ StartWalk(f)
              \/ phase' = "first" /\ FirstInv(k, f)' /\ container' = container
  <1> DEFINE p == Middle
  <1>1. phase = "first" /\ currentPos' = p
    BY DEF FindFirst
  <1>2. /\ p \in [Dim -> Nat]
        /\ \A i \in Dim : /\ p[i] \in minDims[i]..maxDims[i]
                          /\ p[i] \in 0..mpiSize[i] - 1
                          /\ p[i] = currentPos[i] => p[i] = f[i]
        /\ FilesBehind(p) = {p}
    BY <1>1, MiddleFile
  <1> HIDE DEF p
  <1>3. Intersect([offset |-> request.offset, size |-> Ones], FileDomain(p)) <=> p = f
    BY <1>2, MiddleHolds
  <1>4. \A file \in FilesBehind(p) : file = p
    BY <1>2
  <1>5. IF p = f THEN StartWalk(p) ELSE Narrow(p, p)
    BY <1>3, <1>4, Zenon DEF FindFirst, p
  <1>6. mpiSize' = mpiSize
    BY <1>5 DEF StartWalk, Narrow, files
  <1>7. CASE p = f
    <2>1. StartWalk(f)
      BY <1>5, <1>7
    <2>2. ASSUME NEW i \in Dim
          PROVE  /\ minDims'[i] \in 0..mpiSize[i] - 1 /\ maxDims'[i] \in 0..mpiSize[i] - 1
                 /\ currentPos'[i] \in 0..mpiSize[i] - 1
      <3>1. minDims'[i] = p[i] /\ currentPos'[i] = p[i] /\ p[i] \in 0..mpiSize[i] - 1
        BY <1>1, <1>2, <1>7, <2>1 DEF StartWalk
      <3>2. maxDims'[i] = (f[i] + mpiSize[i] - 1) % mpiSize[i]
        BY <2>1 DEF StartWalk
      <3>3. mpiSize[i] \in Nat \ {0} /\ f[i] \in Nat
        BY LineOf DEF First
      <3>4. f[i] + mpiSize[i] - 1 \in Int
        BY <3>3
      <3>5. (f[i] + mpiSize[i] - 1) % mpiSize[i] \in 0..mpiSize[i] - 1
        BY <3>3, <3>4, ModInRange
      <3>6. QED
        BY <3>1, <3>2, <3>5
    <2>3. QED
      BY <1>1, <1>6, <1>7, <2>1, <2>2 DEF RangesInv, p
  <1>8. CASE p # f
    <2>1. Narrow(p, p)
      BY <1>5, <1>8
    <2>2. p # currentPos
      <3>1. PICK i \in Dim : p[i] # f[i]
        BY <1>2, <1>8 DEF First
      <3>2. QED
        BY <1>2, <3>1
    <2>3. phase' = "first" /\ container' = container
      BY <2>1, <2>2 DEF Narrow, walkVars
    <2>4. ASSUME NEW i \in Dim
          PROVE  /\ minDims'[i] \in 0..mpiSize[i] - 1 /\ maxDims'[i] \in 0..mpiSize[i] - 1
                 /\ Encloses(minDims'[i], maxDims'[i], currentPos'[i], k[i], f[i])
      <3> DEFINE n == mpiSize[i]
                 line == cells[i]
                 r == request.offset[i]
                 q == p[i]
                 lo == minDims[i]
                 hi == maxDims[i]
                 j == k[i]
                 g == f[i]
                 after == r >= line[q].offset
      <3>1. /\ n \in Nat \ {0} /\ n <= SizeMod /\ LineInv(line, n, j) /\ j \in 0..n - 1
            /\ r \in Nat /\ g \in 0..n - 1 /\ Holds(line, g, r)
            /\ q \in lo..hi /\ q \in 0..n - 1 /\ lo \in 0..n - 1 /\ hi \in 0..n - 1
            /\ Encloses(lo, hi, currentPos[i], j, g)
        BY <1>1, <1>2, LineOf DEF RangesInv, FirstInv
      <3>2. FileDomain(p).offset[i] = line[q].offset
        BY DEF FileDomain
      <3>3. /\ minDims'[i] = IF after THEN q ELSE lo
            /\ maxDims'[i] = IF after THEN hi ELSE (q - 1) % SizeMod
            /\ currentPos'[i] = q
        BY <1>1, <2>1, <3>2 DEF Narrow
      <3> HIDE DEF n, line, r, q, lo, hi, j, g
      <3>4. (j <= g /\ j <= q) \/ (g < j /\ q < j)
        BY <3>1 DEF Encloses
      <3>5. after <=> q <= g
        BY <3>1, <3>4, SideOfFirst
      <3>6. minDims'[i] = NarrowedLow(lo, q, after) /\ maxDims'[i] = NarrowedHigh(hi, q, after)
        BY <3>3 DEF NarrowedLow, NarrowedHigh
      <3> HIDE DEF after
      <3>7. /\ NarrowedLow(lo, q, after) \in 0..n - 1
            /\ NarrowedHigh(hi, q, after) \in 0..n - 1
            /\ Encloses(NarrowedLow(lo, q, after), NarrowedHigh(hi, q, after), q, j, g)
        BY <3>1, <3>5, Narrowed
      <3>8. QED
        BY <3>3, <3>6, <3>7 DEF n, j, g
    <2>5. \A i \in Dim : currentPos'[i] \in 0..mpiSize[i] - 1
      BY <1>1, <1>2
    <2>6. RangesInv' /\ FirstInv(k, f)'
      BY <1>6, <2>4, <2>5 DEF RangesInv, FirstInv
    <2>7. QED
      BY <1>1, <2>3, <2>6 DEF p
  <1>9. QED
    BY <1>7, <1>8


-----------------------------------------------------------------------------
(* The walk *)

\* Of two places relative to the first file, whether the walk comes to <<a, b, c>>
\* before it comes to <<u, v, w>>.
Before(a, b, c, u, v, w) == c < w \/ (c = w /\ (b < v \/ (b = v /\ a < u)))

\* C holds the files that meet the request and lie before <<u, v, w>>, and no others.
Seen(C, f, m, u, v, w) ==
    \A a \in 0..mpiSize[1] - 1, b \in 0..mpiSize[2] - 1, c \in 0..mpiSize[3] - 1 :
        Place(f, a, b, c) \in C <=> /\ a < m[1] /\ b < m[2] /\ c < m[3]
                                    /\ Before(a, b, c, u, v, w)

SeenAll(C, f, m) == Seen(C, f, m, 0, 0, mpiSize[3])

\* What sizes, first file and counts are in every dimension.
LEMMA Numbers ==
    ASSUME InputOK, NEW f, First(f), NEW m, Counts(f, m)
    PROVE  /\ mpiSize[1] \in Nat \ {0} /\ mpiSize[2] \in Nat \ {0} /\ mpiSize[3] \in Nat \ {0}
           /\ f[1] \in 0..mpiSize[1] - 1 /\ f[2] \in 0..mpiSize[2] - 1
           /\ f[3] \in 0..mpiSize[3] - 1
           /\ m[1] \in 1..mpiSize[1] /\ m[2] \in 1..mpiSize[2] /\ m[3] \in 1..mpiSize[3]
  BY SizesPositive DEF First, Counts, Dim

LEMMA PlaceOnce ==
    ASSUME InputOK, NEW f, First(f),
           NEW a \in 0..mpiSize[1] - 1, NEW b \in 0..mpiSize[2] - 1,
           NEW c \in 0..mpiSize[3] - 1,
           NEW u \in 0..mpiSize[1] - 1, NEW v \in 0..mpiSize[2] - 1,
           NEW w \in 0..mpiSize[3] - 1
    PROVE  Place(f, a, b, c) = Place(f, u, v, w) <=> a = u /\ b = v /\ c = w
  <1>1. 1 \in Dim /\ 2 \in Dim /\ 3 \in Dim
    BY DEF Dim
  <1>2. /\ At(1, f, a) = At(1, f, u) => a = u
        /\ At(2, f, b) = At(2, f, v) => b = v
        /\ At(3, f, c) = At(3, f, w) => c = w
    <2>1. /\ mpiSize[1] \in Nat \ {0} /\ mpiSize[2] \in Nat \ {0} /\ mpiSize[3] \in Nat \ {0}
          /\ f[1] \in 0..mpiSize[1] - 1 /\ f[2] \in 0..mpiSize[2] - 1
          /\ f[3] \in 0..mpiSize[3] - 1
      BY <1>1, SizesPositive DEF First
    <2>2. At(1, f, a) = At(1, f, u) => a = u
      BY <1>1, <2>1, AtFacts
    <2>3. At(2, f, b) = At(2, f, v) => b = v
      BY <1>1, <2>1, AtFacts
    <2>4. At(3, f, c) = At(3, f, w) => c = w
      BY <1>1, <2>1, AtFacts
    <2>5. QED
      BY <2>2, <2>3, <2>4
  <1> DEFINE x(e) == At(1, f, e)
             y(e) == At(2, f, e)
             z(e) == At(3, f, e)
  <1>3. /\ Place(f, a, b, c) = <<x(a), y(b), z(c)>>
        /\ Place(f, u, v, w) = <<x(u), y(v), z(w)>>
    BY DEF Place
  <1> HIDE DEF x, y, z
  <1>4. Place(f, a, b, c) = Place(f, u, v, w) <=> x(a) = x(u) /\ y(b) = y(v) /\ z(c) = z(w)
    BY <1>3
  <1>5. QED
    BY <1>2, <1>4 DEF x, y, z

LEMMA SeenAdd ==
    ASSUME InputOK, NEW f, First(f), NEW m, Counts(f, m), NEW C,
           NEW u \in 0..mpiSize[1] - 1, NEW v \in 0..mpiSize[2] - 1,
           NEW w \in 0..mpiSize[3] - 1, u < m[1], v < m[2], w < m[3],
           Seen(C, f, m, u, v, w)
    PROVE  Seen(C \union {Place(f, u, v, w)}, f, m, u + 1, v, w)
  <1> SUFFICES ASSUME NEW a \in 0..mpiSize[1] - 1, NEW b \in 0..mpiSize[2] - 1,
                      NEW c \in 0..mpiSize[3] - 1
               PROVE  Place(f, a, b, c) \in C \union {Place(f, u, v, w)} <=>
                        a < m[1] /\ b < m[2] /\ c < m[3] /\ Before(a, b, c, u + 1, v, w)
    BY DEF Seen
  <1>1. Place(f, a, b, c) = Place(f, u, v, w) <=> a = u /\ b = v /\ c = w
    BY PlaceOnce
  <1>2. Place(f, a, b, c) \in C <=>
          a < m[1] /\ b < m[2] /\ c < m[3] /\ Before(a, b, c, u, v, w)
    BY DEF Seen
  <1>3. Before(a, b, c, u + 1, v, w) <=> Before(a, b, c, u, v, w) \/ (a = u /\ b = v /\ c = w)
    BY DEF Before
  <1>4. QED
    BY <1>1, <1>2, <1>3

LEMMA SeenRow ==
    ASSUME InputOK, NEW f, First(f), NEW m, Counts(f, m), NEW C, NEW u \in Nat,
           NEW v \in 0..mpiSize[2] - 1, NEW w \in 0..mpiSize[3] - 1, m[1] <= u,
           Seen(C, f, m, u, v, w)
    PROVE  Seen(C, f, m, 0, v + 1, w)
  <1> SUFFICES ASSUME NEW a \in 0..mpiSize[1] - 1, NEW b \in 0..mpiSize[2] - 1,
                      NEW c \in 0..mpiSize[3] - 1
               PROVE  Place(f, a, b, c) \in C <=>
                        a < m[1] /\ b < m[2] /\ c < m[3] /\ Before(a, b, c, 0, v + 1, w)
    BY DEF Seen
  <1>1. Place(f, a, b, c) \in C <=>
          a < m[1] /\ b < m[2] /\ c < m[3] /\ Before(a, b, c, u, v, w)
    BY DEF Seen
  <1>2. a < m[1] => (Before(a, b, c, 0, v + 1, w) <=> Before(a, b, c, u, v, w))
    BY Numbers DEF Before
  <1>3. QED
    BY <1>1, <1>2

LEMMA SeenPlane ==
    ASSUME InputOK, NEW f, First(f), NEW m, Counts(f, m), NEW C, NEW v \in Nat,
           NEW w \in 0..mpiSize[3] - 1, m[2] <= v
    PROVE  Seen(C, f, m, 0, v, w) <=> Seen(C, f, m, 0, 0, w + 1)
  <1>1. ASSUME NEW a \in 0..mpiSize[1] - 1, NEW b \in 0..mpiSize[2] - 1,
               NEW c \in 0..mpiSize[3] - 1, b < m[2]
        PROVE  Before(a, b, c, 0, v, w) <=> Before(a, b, c, 0, 0, w + 1)
    BY <1>1, Numbers DEF Before
  <1>2. QED
    BY <1>1 DEF Seen

LEMMA SeenEnd ==
    ASSUME InputOK, NEW f, First(f), NEW m, Counts(f, m), NEW C, NEW w \in Nat, m[3] <= w,
           Seen(C, f, m, 0, 0, w)
    PROVE  SeenAll(C, f, m)
  <1>1. ASSUME NEW a \in 0..mpiSize[1] - 1, NEW b \in 0..mpiSize[2] - 1,
               NEW c \in 0..mpiSize[3] - 1, c < m[3]
        PROVE  Before(a, b, c, 0, 0, w) /\ Before(a, b, c, 0, 0, mpiSize[3])
    BY <1>1, Numbers DEF Before
  <1>2. QED
    BY <1>1 DEF Seen, SeenAll


\* Where the walk stands: at <<u, v, w>>, with C in the container. max, l and r are
\* maxDims, lin and row. The row of the first file and its plane are walked until a
\* file does not meet the request, which cuts off max; in the plane, the row behind
\* the last one is followed by the last one again.
FirstRow(C, f, m, u, v, w, max, l) ==
    /\ v = 0 /\ w = 0 /\ u <= m[1]
    /\ l[2] = f[2]
    /\ max[1] = At(1, f, mpiSize[1] - 1) /\ max[2] = At(2, f, mpiSize[2] - 1)
    /\ Seen(C, f, m, u, 0, 0)

FirstPlane(C, f, m, u, v, w, max, l) ==
    /\ 1 <= v /\ v <= m[2] /\ w = 0 /\ u < m[1] /\ (v = m[2] => u = 0)
    /\ l[2] = f[2] + v
    /\ max[1] = At(1, f, m[1] - 1) /\ max[2] = At(2, f, mpiSize[2] - 1)
    /\ Seen(C, f, m, u, v, 0)

LastRowAgain(C, f, m, u, v, w, max, l) ==
    /\ v = m[2] - 1 /\ w = 0 /\ 1 <= u /\ u < m[1]
    /\ max[1] = At(1, f, m[1] - 1) /\ max[2] = At(2, f, m[2] - 1)
    /\ Seen(C, f, m, 0, 0, 1)

LaterPlane(C, f, m, u, v, w, max, l) ==
    /\ 1 <= w /\ w <= m[3] /\ u < m[1] /\ v < m[2] /\ (w = m[3] => u = 0 /\ v = 0)
    /\ l[2] = f[2] + v
    /\ max[1] = At(1, f, m[1] - 1) /\ max[2] = At(2, f, m[2] - 1)
    /\ Seen(C, f, m, u, v, w)

WalkState(C, f, m, u, v, w, max, l, r) ==
    /\ u \in 0..mpiSize[1] - 1 /\ v \in 0..mpiSize[2] - 1 /\ w \in 0..mpiSize[3] - 1
    /\ l[1] = f[1] + u /\ l[3] = f[3] + w /\ r = At(2, f, v)
    /\ max[3] = At(3, f, mpiSize[3] - 1)
    /\ \/ FirstRow(C, f, m, u, v, w, max, l)
       \/ FirstPlane(C, f, m, u, v, w, max, l)
       \/ LastRowAgain(C, f, m, u, v, w, max, l)
       \/ LaterPlane(C, f, m, u, v, w, max, l)

\* The walk goes on, or it has come to its end and has found all.
Onward(C, f, m, max, l, r, ph) ==
    \/ ph = "walk" /\ \E u, v, w : WalkState(C, f, m, u, v, w, max, l, r)
    \/ ph = "done" /\ SeenAll(C, f, m)

\* Where Advance goes from <<u, v, w>> when the ranges end X, Y and Z places
\* behind the first file.
LEMMA AdvanceCases ==
    ASSUME ReadInv, NEW f, First(f), minDims = f, NEW max,
           NEW u \in 0..mpiSize[1] - 1, NEW v \in 0..mpiSize[2] - 1,
           NEW w \in 0..mpiSize[3] - 1,
           NEW X \in 0..mpiSize[1] - 1, NEW Y \in 0..mpiSize[2] - 1,
           NEW Z \in 0..mpiSize[3] - 1,
           max[1] = At(1, f, X), max[2] = At(2, f, Y), max[3] = At(3, f, Z),
           Advance(At(1, f, u), At(2, f, v), At(3, f, w), max)
    PROVE  /\ u # X => /\ lin'[1] = lin[1] + 1 /\ lin'[2] = lin[2] /\ lin'[3] = lin[3]
                       /\ row' = At(2, f, v) /\ phase' = "walk"
           /\ u = X /\ v # Y =>
                /\ lin'[1] = f[1] /\ lin'[2] = lin[2] + 1 /\ lin'[3] = lin[3]
                /\ row' = (lin[2] + 1) % mpiSize[2] /\ phase' = "walk"
           /\ u = X /\ v = Y =>
                /\ lin'[1] = f[1] /\ lin'[2] = f[2] /\ lin'[3] = lin[3] + 1
                /\ row' = At(2, f, 0)
                /\ phase' = IF w # Z THEN "walk" ELSE "done"
  <1>1. 1 \in Dim /\ 2 \in Dim /\ 3 \in Dim
    BY DEF Dim
  <1>2. /\ mpiSize[1] \in Nat \ {0} /\ mpiSize[2] \in Nat \ {0} /\ mpiSize[3] \in Nat \ {0}
        /\ f[1] \in 0..mpiSize[1] - 1 /\ f[2] \in 0..mpiSize[2] - 1
        /\ f[3] \in 0..mpiSize[3] - 1
    BY <1>1, SizesPositive DEF First, ReadInv
  <1>3. At(1, f, u) = max[1] <=> u = X
    <2>1. At(1, f, u) = At(1, f, X) => u = X
      BY <1>1, <1>2, AtFacts
    <2>2. QED
      BY <2>1
  <1>4. At(2, f, v) = max[2] <=> v = Y
    <2>1. At(2, f, v) = At(2, f, Y) => v = Y
      BY <1>1, <1>2, AtFacts
    <2>2. QED
      BY <2>1
  <1>5. At(3, f, w) = max[3] <=> w = Z
    <2>1. At(3, f, w) = At(3, f, Z) => w = Z
      BY <1>1, <1>2, AtFacts
    <2>2. QED
      BY <2>1
  <1>6. f[2] % mpiSize[2] = At(2, f, 0)
    BY <1>1, <1>2, AtFacts
  <1>7. lin \in [Dim -> Nat]
    BY DEF ReadInv
  <1> DEFINE x == At(1, f, u)
             y == At(2, f, v)
             z == At(3, f, w)
  <1> HIDE DEF x, y, z
  <1>8. Advance(x, y, z, max)
    BY DEF x, y, z
  <1>9. CASE u # X
    <2>1. x # max[1]
      BY <1>3, <1>9 DEF x
    <2>2. lin' = [lin EXCEPT ![1] = lin[1] + 1] /\ row' = y /\ phase' = "walk"
      BY <1>8, <2>1, Zenon DEF Advance
    <2>3. lin'[1] = lin[1] + 1 /\ lin'[2] = lin[2] /\ lin'[3] = lin[3]
      BY <1>1, <1>7, <2>2
    <2>4. QED
      BY <1>9, <2>2, <2>3 DEF y
  <1>10. CASE u = X /\ v # Y
    <2>1. x = max[1] /\ y # max[2]
      BY <1>3, <1>4, <1>10 DEF x, y
    <2>2. /\ lin' = <<f[1], lin[2] + 1, lin[3]>> /\ phase' = "walk"
          /\ row' = (lin[2] + 1) % mpiSize[2]
      BY <1>8, <2>1, Zenon DEF Advance
    <2>3. QED
      BY <1>10, <2>2
  <1>11. CASE u = X /\ v = Y
    <2>1. x = max[1] /\ y = max[2]
      BY <1>3, <1>4, <1>11 DEF x, y
    <2>2. /\ lin' = <<f[1], f[2], lin[3] + 1>>
          /\ row' = f[2] % mpiSize[2]
          /\ phase' = IF z # max[3] THEN "walk" ELSE "done"
      BY <1>8, <2>1, Zenon DEF Advance
    <2>3. z # max[3] <=> w # Z
      BY <1>5 DEF z
    <2>4. phase' = IF w # Z THEN "walk" ELSE "done"
      BY <2>2, <2>3
    <2>5. QED
      BY <1>6, <1>11, <2>2, <2>4
  <1>12. QED
    BY <1>9, <1>10, <1>11

\* A row that meets the request has been walked to its last file that does: the next
\* row, the next plane or the end.
LEMMA RowEnds ==
    ASSUME ReadInv, NEW f, First(f), NEW m, Counts(f, m), minDims = f, NEW max, NEW C,
           NEW v \in 0..mpiSize[2] - 1, NEW w \in 0..mpiSize[3] - 1,
           NEW Y \in 0..mpiSize[2] - 1,
           v < m[2], w < m[3], v <= Y, lin[3] = f[3] + w, v # Y => lin[2] = f[2] + v,
           \/ w = 0 /\ Y = mpiSize[2] - 1
           \/ Y = m[2] - 1 /\ (w >= 1 \/ v = Y),
           max[1] = At(1, f, m[1] - 1), max[2] = At(2, f, Y),
           max[3] = At(3, f, mpiSize[3] - 1),
           Seen(C, f, m, 0, v + 1, w),
           Advance(At(1, f, m[1] - 1), At(2, f, v), At(3, f, w), max)
    PROVE  Onward(C, f, m, max, lin', row', phase')
  <1>0. InputOK
    BY DEF ReadInv
  <1>1. /\ mpiSize[1] \in Nat \ {0} /\ mpiSize[2] \in Nat \ {0} /\ mpiSize[3] \in Nat \ {0}
        /\ f[1] \in 0..mpiSize[1] - 1 /\ f[2] \in 0..mpiSize[2] - 1
        /\ f[3] \in 0..mpiSize[3] - 1
        /\ m[1] \in 1..mpiSize[1] /\ m[2] \in 1..mpiSize[2] /\ m[3] \in 1..mpiSize[3]
    BY <1>0, Numbers
  <1>2. m[1] - 1 \in 0..mpiSize[1] - 1 /\ mpiSize[3] - 1 \in 0..mpiSize[3] - 1
    BY <1>1
  <1>3. /\ v # Y =>
             /\ lin'[1] = f[1] /\ lin'[2] = lin[2] + 1 /\ lin'[3] = lin[3]
             /\ row' = (lin[2] + 1) % mpiSize[2] /\ phase' = "walk"
        /\ v = Y =>
             /\ lin'[1] = f[1] /\ lin'[2] = f[2] /\ lin'[3] = lin[3] + 1
             /\ row' = At(2, f, 0)
             /\ phase' = IF w # mpiSize[3] - 1 THEN "walk" ELSE "done"
    BY <1>2, AdvanceCases
  <1>4. CASE v # Y
    <2>1. v + 1 \in 0..mpiSize[2] - 1 /\ v + 1 <= Y
      BY <1>1, <1>4
    <2>2. (f[2] + (v + 1)) % mpiSize[2] = At(2, f, v + 1)
      <3> DEFINE e == v + 1
      <3>1. e \in 0..mpiSize[2] - 1 /\ 2 \in Dim
        BY <2>1 DEF Dim
      <3> HIDE DEF e
      <3>2. (f[2] + e) % mpiSize[2] = At(2, f, e)
        BY <1>1, <3>1, AtFacts
      <3>3. QED
        BY <3>2 DEF e
    <2>3. lin[2] + 1 = f[2] + (v + 1) /\ lin'[2] = f[2] + (v + 1) /\ row' = At(2, f, v + 1)
      BY <1>1, <1>3, <1>4, <2>2
    <2>4. /\ 0 \in 0..mpiSize[1] - 1 /\ f[1] + 0 = f[1] /\ 0 < m[1]
      BY <1>1
    <2>5. CASE w = 0 /\ Y = mpiSize[2] - 1
      <3>1. 1 <= v + 1 /\ v + 1 <= m[2]
        BY <1>1
      <3>2. FirstPlane(C, f, m, 0, v + 1, w, max, lin')
        BY <2>3, <2>4, <2>5, <3>1 DEF FirstPlane
      <3>3. WalkState(C, f, m, 0, v + 1, w, max, lin', row')
        BY <1>3, <1>4, <2>1, <2>3, <2>4, <3>2 DEF WalkState
      <3>4. QED
        BY <1>3, <1>4, <3>3 DEF Onward
    <2>6. CASE Y = m[2] - 1 /\ w >= 1
      <3>1. v + 1 < m[2] /\ w # m[3] /\ w <= m[3]
        BY <1>1, <2>1, <2>6
      <3>2. LaterPlane(C, f, m, 0, v + 1, w, max, lin')
        BY <2>3, <2>4, <2>6, <3>1 DEF LaterPlane
      <3>3. WalkState(C, f, m, 0, v + 1, w, max, lin', row')
        BY <1>3, <1>4, <2>1, <2>3, <2>4, <3>2 DEF WalkState
      <3>4. QED
        BY <1>3, <1>4, <3>3 DEF Onward
    <2>7. QED
      BY <1>4, <2>5, <2>6
  <1>5. CASE v = Y
    <2>1. Y = m[2] - 1
      BY <1>1, <1>5
    <2>2. Seen(C, f, m, 0, 0, w + 1)
      <3>1. v + 1 \in Nat /\ m[2] <= v + 1
        BY <1>1, <1>5, <2>1
      <3>2. QED
        BY <1>0, <3>1, SeenPlane
    <2>3. CASE w # mpiSize[3] - 1
      <3>1. /\ w + 1 \in 0..mpiSize[3] - 1 /\ w + 1 <= m[3] /\ 1 <= w + 1
            /\ 0 < m[1] /\ 0 < m[2] /\ f[2] + 0 = f[2] /\ f[1] + 0 = f[1]
            /\ 0 \in 0..mpiSize[1] - 1 /\ 0 \in 0..mpiSize[2] - 1
            /\ lin[3] + 1 = f[3] + (w + 1)
        BY <1>1, <2>3
      <3>2. LaterPlane(C, f, m, 0, 0, w + 1, max, lin')
        BY <1>3, <1>5, <2>1, <2>2, <3>1 DEF LaterPlane
      <3>3. WalkState(C, f, m, 0, 0, w + 1, max, lin', row')
        BY <1>3, <1>5, <3>1, <3>2 DEF WalkState
      <3>4. QED
        BY <1>3, <1>5, <2>3, <3>3 DEF Onward
    <2>4. CASE w = mpiSize[3] - 1
      <3>1. w + 1 = mpiSize[3]
        BY <1>1, <2>4
      <3>2. QED
        BY <1>3, <1>5, <2>2, <2>4, <3>1 DEF Onward, SeenAll
    <2>5. QED
      BY <2>3, <2>4
  <1>6. QED
    BY <1>4, <1>5


LEMMA RangeAppend ==
    ASSUME NEW S, NEW s \in Seq(S), NEW e \in S
    PROVE  Range(Append(s, e)) = Range(s) \union {e}
  <1> DEFINE t == Append(s, e)
             n == Len(s)
  <1>1. /\ n \in Nat /\ DOMAIN s = 1..n /\ DOMAIN t = 1..n + 1
        /\ t[n + 1] = e /\ \A k \in 1..n : t[k] = s[k]
    OBVIOUS
  <1> HIDE DEF t, n
  <1>2. Range(t) = {t[k] : k \in 1..n + 1} /\ Range(s) = {s[k] : k \in 1..n}
    BY <1>1 DEF Range
  <1>3. 1..n + 1 = 1..n \union {n + 1}
    BY <1>1
  <1>4. Range(t) = Range(s) \union {e}
    BY <1>1, <1>2, <1>3
  <1>5. QED
    BY <1>4 DEF t

\* The file at a place of the walk meets the request exactly up to the counts.
LEMMA PlaceMeets ==
    ASSUME InputOK, NEW f, First(f), NEW m, Counts(f, m),
           NEW u \in 0..mpiSize[1] - 1, NEW v \in 0..mpiSize[2] - 1,
           NEW w \in 0..mpiSize[3] - 1
    PROVE  Intersect(request, FileDomain(Place(f, u, v, w)))
             <=> u < m[1] /\ v < m[2] /\ w < m[3]
  <1> DEFINE p == Place(f, u, v, w)
  <1>1. Intersect(request, FileDomain(p)) <=> \A i \in Dim : Meet(i, p[i])
    BY DEF Intersect, End, FileDomain, Meet
  <1>2. p[1] = At(1, f, u) /\ p[2] = At(2, f, v) /\ p[3] = At(3, f, w)
    BY DEF Place
  <1>3. /\ Meet(1, At(1, f, u)) <=> u < m[1]
        /\ Meet(2, At(2, f, v)) <=> v < m[2]
        /\ Meet(3, At(3, f, w)) <=> w < m[3]
    BY DEF Counts, Dim
  <1> HIDE DEF p
  <1>4. (\A i \in Dim : Meet(i, p[i])) <=> Meet(1, p[1]) /\ Meet(2, p[2]) /\ Meet(3, p[3])
    BY DEF Dim
  <1>5. QED
    BY <1>1, <1>2, <1>3, <1>4 DEF p

\* DomainCollector.cpp:613-673. One iteration of the innermost loop: the file at
\* <<u, v, w>> is added if it meets the request, and the walk goes on to a place that
\* it has not passed over wrongly.
LEMMA WalkGoesOn ==
    ASSUME ReadInv, NEW f, First(f), NEW m, Counts(f, m), minDims = f,
           NEW u, NEW v, NEW w,
           WalkState(Range(container), f, m, u, v, w, maxDims, lin, row), Walk
    PROVE  /\ Onward(Range(container'), f, m, maxDims', lin', row', phase')
           /\ \A i \in Dim : maxDims'[i] = maxDims[i] \/ maxDims'[i] \in 0..mpiSize[i] - 1
           /\ IF u < m[1] /\ v < m[2] /\ w < m[3]
              THEN /\ container' = Append(container, Place(f, u, v, w))
                   /\ extent' = Extend(FileDomain(Place(f, u, v, w)))
              ELSE UNCHANGED <<container, extent>>
  <1> DEFINE C == Range(container)
             D == Range(container')
             p == Place(f, u, v, w)
  <1>0. InputOK
    BY DEF ReadInv
  <1>1. /\ mpiSize[1] \in Nat \ {0} /\ mpiSize[2] \in Nat \ {0} /\ mpiSize[3] \in Nat \ {0}
        /\ f[1] \in 0..mpiSize[1] - 1 /\ f[2] \in 0..mpiSize[2] - 1
        /\ f[3] \in 0..mpiSize[3] - 1
        /\ m[1] \in 1..mpiSize[1] /\ m[2] \in 1..mpiSize[2] /\ m[3] \in 1..mpiSize[3]
        /\ 1 \in Dim /\ 2 \in Dim /\ 3 \in Dim
    BY <1>0, Numbers DEF Dim
  <1>2. /\ u \in 0..mpiSize[1] - 1 /\ v \in 0..mpiSize[2] - 1 /\ w \in 0..mpiSize[3] - 1
        /\ lin[1] = f[1] + u /\ lin[3] = f[3] + w /\ row = At(2, f, v)
        /\ maxDims[3] = At(3, f, mpiSize[3] - 1)
    BY DEF WalkState
  <1>3.
        \/ FirstRow(C, f, m, u, v, w, maxDims, lin)
        \/ FirstPlane(C, f, m, u, v, w, maxDims, lin)
        \/ LastRowAgain(C, f, m, u, v, w, maxDims, lin)
        \/ LaterPlane(C, f, m, u, v, w, maxDims, lin)
    BY DEF WalkState
  <1>4. /\ (f[1] + u) % mpiSize[1] = At(1, f, u) /\ At(1, f, u) \in 0..mpiSize[1] - 1
        /\ At(1, f, 0) = f[1]
        /\ u # 0 => Pred(1, At(1, f, u)) = At(1, f, u - 1)
    BY <1>1, <1>2, AtFacts
  <1>5. /\ At(2, f, v) \in 0..mpiSize[2] - 1 /\ At(2, f, 0) = f[2]
        /\ v # 0 => Pred(2, At(2, f, v)) = At(2, f, v - 1)
        /\ At(2, f, v) = f[2] <=> v = 0
    <2>a. /\ At(2, f, v) \in 0..mpiSize[2] - 1 /\ At(2, f, 0) = f[2]
          /\ v # 0 => Pred(2, At(2, f, v)) = At(2, f, v - 1)
      <3>1. /\ 2 \in Dim /\ mpiSize[2] \in Nat \ {0} /\ f[2] \in 0..mpiSize[2] - 1
            /\ v \in 0..mpiSize[2] - 1
        BY <1>1, <1>2
      <3>2. QED
        BY <3>1, AtFacts
    <2>1. /\ At(2, f, v) \in 0..mpiSize[2] - 1 /\ At(2, f, 0) = f[2]
          /\ v # 0 => Pred(2, At(2, f, v)) = At(2, f, v - 1)
          /\ 0 \in 0..mpiSize[2] - 1
      BY <1>1, <2>a
    <2>2. At(2, f, v) = At(2, f, 0) => v = 0
      BY <1>1, <1>2, <2>1, AtFacts
    <2>3. QED
      BY <2>1, <2>2
  <1>6. /\ (f[3] + w) % mpiSize[3] = At(3, f, w) /\ At(3, f, w) \in 0..mpiSize[3] - 1
        /\ At(3, f, w) = f[3] <=> w = 0
    <2>1. /\ (f[3] + w) % mpiSize[3] = At(3, f, w) /\ At(3, f, w) \in 0..mpiSize[3] - 1
          /\ At(3, f, 0) = f[3] /\ 0 \in 0..mpiSize[3] - 1
      BY <1>1, <1>2, AtFacts
    <2>2. At(3, f, w) = At(3, f, 0) => w = 0
      BY <1>1, <1>2, <2>1, AtFacts
    <2>3. QED
      BY <2>1, <2>2
  <1> DEFINE x == At(1, f, u)
             y == At(2, f, v)
             z == At(3, f, w)
  <1>7. /\ lin[1] % mpiSize[1] = x /\ lin[3] % mpiSize[3] = z /\ row = y /\ p = <<x, y, z>>
    BY <1>2, <1>4, <1>6 DEF Place
  <1> HIDE DEF C, D, p, x, y, z
  <1>8. Intersect(request, FileDomain(p)) <=> u < m[1] /\ v < m[2] /\ w < m[3]
    BY <1>0, <1>2, PlaceMeets DEF p
  <1>9. IF Intersect(request, FileDomain(p))
        THEN /\ container' = Append(container, p)
             /\ extent' = Extend(FileDomain(p))
             /\ UNCHANGED maxDims
             /\ Advance(x, y, z, maxDims)
        ELSE /\ UNCHANGED <<container, extent>>
             /\ IF z # f[3]
                THEN phase' = "done" /\ UNCHANGED <<maxDims, lin, row>>
                ELSE IF y = f[2]
                THEN /\ maxDims' = [maxDims EXCEPT ![1] = Pred(1, x)]
                     /\ Advance(Pred(1, x), y, z, maxDims')
                ELSE /\ maxDims' = [maxDims EXCEPT ![2] = Pred(2, y)]
                     /\ Advance(x, Pred(2, y), z, maxDims')
    BY <1>7, Zenon DEF Walk
  <1>10. maxDims \in [Dim -> Nat] /\ container \in Seq(Positions)
    BY DEF ReadInv
  <1>11. p \in Positions
    BY <1>2, <1>4, <1>5, <1>6 DEF p, Place, Positions
  <1>12. m[1] - 1 \in 0..mpiSize[1] - 1 /\ m[2] - 1 \in 0..mpiSize[2] - 1
         /\ mpiSize[1] - 1 \in 0..mpiSize[1] - 1 /\ mpiSize[2] - 1 \in 0..mpiSize[2] - 1
         /\ mpiSize[3] - 1 \in 0..mpiSize[3] - 1 /\ 0 \in 0..mpiSize[1] - 1
    BY <1>1
  <1>13. CASE u < m[1] /\ v < m[2] /\ w < m[3]
    <2>1. /\ container' = Append(container, p) /\ extent' = Extend(FileDomain(p))
          /\ maxDims' = maxDims /\ Advance(x, y, z, maxDims)
      BY <1>8, <1>9, <1>13
    <2>2. D = C \union {p}
      BY <1>10, <1>11, <2>1, RangeAppend DEF C, D
    <2>3. Onward(D, f, m, maxDims, lin', row', phase')
      <3>1. Advance(At(1, f, u), At(2, f, v), At(3, f, w), maxDims)
        BY <2>1 DEF x, y, z
      <3>2. CASE FirstRow(C, f, m, u, v, w, maxDims, lin)
        <4>1. /\ v = 0 /\ w = 0 /\ lin[2] = f[2]
              /\ maxDims[1] = At(1, f, mpiSize[1] - 1)
              /\ maxDims[2] = At(2, f, mpiSize[2] - 1) /\ Seen(C, f, m, u, v, w)
          BY <3>2 DEF FirstRow
        <4>2. Seen(D, f, m, u + 1, v, w)
          BY <1>0, <1>2, <1>13, <2>2, <4>1, SeenAdd DEF p
        <4>3. CASE u # mpiSize[1] - 1
          <5>1. /\ lin'[1] = lin[1] + 1 /\ lin'[2] = lin[2] /\ lin'[3] = lin[3]
                /\ row' = At(2, f, v) /\ phase' = "walk"
            BY <1>2, <1>12, <3>1, <4>1, <4>3, AdvanceCases, SMTT(30)
          <5>2. /\ u + 1 \in 0..mpiSize[1] - 1 /\ u + 1 <= m[1] /\ lin'[1] = f[1] + (u + 1)
            BY <1>1, <1>2, <1>13, <4>3, <5>1
          <5>3. FirstRow(D, f, m, u + 1, v, w, maxDims, lin')
            BY <4>1, <4>2, <5>1, <5>2 DEF FirstRow
          <5>4. WalkState(D, f, m, u + 1, v, w, maxDims, lin', row')
            BY <1>2, <5>1, <5>2, <5>3 DEF WalkState
          <5>5. QED
            BY <5>1, <5>4 DEF Onward
        <4>4. CASE u = mpiSize[1] - 1
          <5>1. u = m[1] - 1 /\ u + 1 \in Nat /\ m[1] <= u + 1
            BY <1>1, <1>2, <1>13, <4>4
          <5>2. Seen(D, f, m, 0, v + 1, w)
            BY <1>0, <1>2, <4>2, <5>1, SeenRow
          <5>3. Advance(At(1, f, m[1] - 1), At(2, f, v), At(3, f, w), maxDims)
            BY <3>1, <5>1
          <5>4. /\ v <= mpiSize[2] - 1 /\ lin[2] = f[2] + v /\ maxDims[1] = At(1, f, m[1] - 1)
            BY <1>1, <4>1, <4>4, <5>1
          <5>5. QED
            BY <1>2, <1>12, <1>13, <4>1, <5>2, <5>3, <5>4, RowEnds
        <4>5. QED
          BY <4>3, <4>4
      <3>3. CASE FirstPlane(C, f, m, u, v, w, maxDims, lin)
        <4>1. /\ 1 <= v /\ w = 0 /\ lin[2] = f[2] + v
              /\ maxDims[1] = At(1, f, m[1] - 1)
              /\ maxDims[2] = At(2, f, mpiSize[2] - 1) /\ Seen(C, f, m, u, v, w)
          BY <3>3 DEF FirstPlane
        <4>2. Seen(D, f, m, u + 1, v, w)
          BY <1>0, <1>2, <1>13, <2>2, <4>1, SeenAdd DEF p
        <4>3. CASE u # m[1] - 1
          <5>1. /\ lin'[1] = lin[1] + 1 /\ lin'[2] = lin[2] /\ lin'[3] = lin[3]
                /\ row' = At(2, f, v) /\ phase' = "walk"
            <6> DEFINE X == m[1] - 1
                       Y == mpiSize[2] - 1
                       Z == mpiSize[3] - 1
            <6>1. /\ X \in 0..mpiSize[1] - 1 /\ Y \in 0..mpiSize[2] - 1
                  /\ Z \in 0..mpiSize[3] - 1 /\ u # X
                  /\ maxDims[1] = At(1, f, X) /\ maxDims[2] = At(2, f, Y)
                  /\ maxDims[3] = At(3, f, Z)
              BY <1>2, <1>12, <4>1, <4>3
            <6> HIDE DEF X, Y, Z
            <6>2. QED
              BY <1>2, <3>1, <6>1, AdvanceCases
          <5>a. v <= m[2] /\ v # m[2]
            BY <1>1, <1>2, <1>13
          <5>b. u + 1 \in 0..mpiSize[1] - 1 /\ u + 1 < m[1]
            BY <1>1, <1>2, <1>13, <4>3
          <5>2. /\ u + 1 \in 0..mpiSize[1] - 1 /\ u + 1 < m[1] /\ lin'[1] = f[1] + (u + 1)
                /\ v <= m[2] /\ v # m[2]
            BY <1>1, <1>2, <5>1, <5>a, <5>b
          <5>3. FirstPlane(D, f, m, u + 1, v, w, maxDims, lin')
            BY <4>1, <4>2, <5>1, <5>2 DEF FirstPlane
          <5>4. WalkState(D, f, m, u + 1, v, w, maxDims, lin', row')
            BY <1>2, <5>1, <5>2, <5>3 DEF WalkState
          <5>5. QED
            BY <5>1, <5>4 DEF Onward
        <4>4. CASE u = m[1] - 1
          <5>1. u + 1 \in Nat /\ m[1] <= u + 1 /\ v <= mpiSize[2] - 1
            BY <1>1, <1>2, <4>4
          <5>2. Seen(D, f, m, 0, v + 1, w)
            BY <1>0, <1>2, <4>2, <5>1, SeenRow
          <5>3. Advance(At(1, f, m[1] - 1), At(2, f, v), At(3, f, w), maxDims)
            BY <3>1, <4>4
          <5>4. QED
            BY <1>2, <1>12, <1>13, <4>1, <5>1, <5>2, <5>3, RowEnds
        <4>5. QED
          BY <4>3, <4>4
      <3>4. CASE LastRowAgain(C, f, m, u, v, w, maxDims, lin)
        <4>1. /\ v = m[2] - 1 /\ w = 0 /\ 1 <= u
              /\ maxDims[1] = At(1, f, m[1] - 1) /\ maxDims[2] = At(2, f, m[2] - 1)
              /\ Seen(C, f, m, 0, 0, 1)
          BY <3>4 DEF LastRowAgain
        <4>2. D = C
          <5>1. Before(u, v, w, 0, 0, 1)
            BY <4>1 DEF Before
          <5>2. p \in C
            BY <1>2, <1>13, <4>1, <5>1 DEF Seen, p
          <5>3. QED
            BY <2>2, <5>2
        <4>3. CASE u # m[1] - 1
          <5>1. /\ lin'[1] = lin[1] + 1 /\ lin'[2] = lin[2] /\ lin'[3] = lin[3]
                /\ row' = At(2, f, v) /\ phase' = "walk"
            <6> DEFINE X == m[1] - 1
                       Y == m[2] - 1
                       Z == mpiSize[3] - 1
            <6>1. /\ X \in 0..mpiSize[1] - 1 /\ Y \in 0..mpiSize[2] - 1
                  /\ Z \in 0..mpiSize[3] - 1 /\ u # X
                  /\ maxDims[1] = At(1, f, X) /\ maxDims[2] = At(2, f, Y)
                  /\ maxDims[3] = At(3, f, Z)
              BY <1>2, <1>12, <4>1, <4>3
            <6> HIDE DEF X, Y, Z
            <6>2. QED
              BY <1>2, <3>1, <6>1, AdvanceCases
          <5>2. /\ u + 1 \in 0..mpiSize[1] - 1 /\ u + 1 < m[1] /\ lin'[1] = f[1] + (u + 1)
                /\ 1 <= u + 1
            BY <1>1, <1>2, <1>13, <4>3, <5>1
          <5>3. LastRowAgain(D, f, m, u + 1, v, w, maxDims, lin')
            BY <4>1, <4>2, <5>2 DEF LastRowAgain
          <5>4. WalkState(D, f, m, u + 1, v, w, maxDims, lin', row')
            BY <1>2, <5>1, <5>2, <5>3 DEF WalkState
          <5>5. QED
            BY <5>1, <5>4 DEF Onward
        <4>4. CASE u = m[1] - 1
          <5>1. Seen(D, f, m, 0, v + 1, w)
            <6>1. v + 1 \in Nat /\ m[2] <= v + 1 /\ w + 1 = 1
              BY <1>1, <1>2, <4>1
            <6>2. Seen(D, f, m, 0, v + 1, w) <=> Seen(D, f, m, 0, 0, w + 1)
              BY <1>0, <1>2, <6>1, SeenPlane
            <6>3. QED
              BY <4>1, <4>2, <6>1, <6>2
          <5>2. Advance(At(1, f, m[1] - 1), At(2, f, v), At(3, f, w), maxDims)
            BY <3>1, <4>4
          <5>3. v <= m[2] - 1
            BY <1>2, <4>1
          <5>4. QED
            BY <1>2, <1>12, <1>13, <4>1, <5>1, <5>2, <5>3, RowEnds
        <4>5. QED
          BY <4>3, <4>4
      <3>5. CASE LaterPlane(C, f, m, u, v, w, maxDims, lin)
        <4>1. /\ 1 <= w /\ lin[2] = f[2] + v
              /\ maxDims[1] = At(1, f, m[1] - 1)
              /\ maxDims[2] = At(2, f, m[2] - 1) /\ Seen(C, f, m, u, v, w)
          BY <3>5 DEF LaterPlane
        <4>2. Seen(D, f, m, u + 1, v, w)
          BY <1>0, <1>2, <1>13, <2>2, <4>1, SeenAdd DEF p
        <4>3. CASE u # m[1] - 1
          <5>1. /\ lin'[1] = lin[1] + 1 /\ lin'[2] = lin[2] /\ lin'[3] = lin[3]
                /\ row' = At(2, f, v) /\ phase' = "walk"
            <6> DEFINE X == m[1] - 1
                       Y == m[2] - 1
                       Z == mpiSize[3] - 1
            <6>1. /\ X \in 0..mpiSize[1] - 1 /\ Y \in 0..mpiSize[2] - 1
                  /\ Z \in 0..mpiSize[3] - 1 /\ u # X
                  /\ maxDims[1] = At(1, f, X) /\ maxDims[2] = At(2, f, Y)
                  /\ maxDims[3] = At(3, f, Z)
              BY <1>2, <1>12, <4>1, <4>3
            <6> HIDE DEF X, Y, Z
            <6>2. QED
              BY <1>2, <3>1, <6>1, AdvanceCases
          <5>2. /\ u + 1 \in 0..mpiSize[1] - 1 /\ u + 1 < m[1] /\ lin'[1] = f[1] + (u + 1)
                /\ w <= m[3] /\ w # m[3]
            BY <1>1, <1>2, <1>13, <4>3, <5>1
          <5>3. LaterPlane(D, f, m, u + 1, v, w, maxDims, lin')
            BY <1>13, <4>1, <4>2, <5>1, <5>2 DEF LaterPlane
          <5>4. WalkState(D, f, m, u + 1, v, w, maxDims, lin', row')
            BY <1>2, <5>1, <5>2, <5>3 DEF WalkState
          <5>5. QED
            BY <5>1, <5>4 DEF Onward
        <4>4. CASE u = m[1] - 1
          <5>1. u + 1 \in Nat /\ m[1] <= u + 1 /\ v <= m[2] - 1 /\ w >= 1
            BY <1>1, <1>2, <1>13, <4>1, <4>4
          <5>2. Seen(D, f, m, 0, v + 1, w)
            BY <1>0, <1>2, <4>2, <5>1, SeenRow
          <5>3. Advance(At(1, f, m[1] - 1), At(2, f, v), At(3, f, w), maxDims)
            BY <3>1, <4>4
          <5>4. QED
            BY <1>2, <1>12, <1>13, <4>1, <5>1, <5>2, <5>3, RowEnds
        <4>5. QED
          BY <4>3, <4>4
      <3>6. QED
        BY <1>3, <3>2, <3>3, <3>4, <3>5
    <2>4. QED
      BY <1>13, <2>1, <2>3 DEF D, p
  <1>14. CASE ~(u < m[1] /\ v < m[2] /\ w < m[3])
    <2>1. container' = container /\ extent' = extent /\ D = C
      BY <1>8, <1>9, <1>14 DEF C, D
    <2>2. ~LastRowAgain(C, f, m, u, v, w, maxDims, lin)
      BY <1>1, <1>2, <1>14 DEF LastRowAgain
    <2>3. CASE w # 0
      <3>1. LaterPlane(C, f, m, u, v, w, maxDims, lin)
        BY <1>3, <2>2, <2>3 DEF FirstRow, FirstPlane
      <3>2. w = m[3] /\ u = 0 /\ v = 0 /\ Seen(C, f, m, u, v, w)
        BY <1>1, <1>2, <1>14, <3>1 DEF LaterPlane
      <3>3. phase' = "done" /\ maxDims' = maxDims
        BY <1>6, <1>8, <1>9, <1>14, <2>3 DEF z
      <3>4. w \in Nat /\ m[3] <= w
        BY <1>1, <1>2, <3>2
      <3>5. SeenAll(D, f, m)
        BY <1>0, <2>1, <3>2, <3>4, SeenEnd
      <3>6. QED
        BY <1>14, <2>1, <3>3, <3>5 DEF Onward, D
    <2>4. CASE w = 0 /\ v = 0
      <3>1. FirstRow(C, f, m, u, v, w, maxDims, lin)
        BY <1>3, <2>2, <2>4 DEF FirstPlane, LaterPlane
      <3>2. /\ u = m[1] /\ lin[2] = f[2]
            /\ maxDims[2] = At(2, f, mpiSize[2] - 1) /\ Seen(C, f, m, u, v, w)
        BY <1>1, <1>2, <1>14, <2>4, <3>1 DEF FirstRow
      <3>3. z = f[3] /\ y = f[2]
        BY <1>5, <1>6, <2>4 DEF y, z
      <3>4. /\ maxDims' = [maxDims EXCEPT ![1] = Pred(1, x)]
            /\ Advance(Pred(1, x), y, z, maxDims')
        BY <1>8, <1>9, <1>14, <3>3
      <3>5. Pred(1, x) = At(1, f, m[1] - 1) /\ At(1, f, m[1] - 1) \in 0..mpiSize[1] - 1
        <4>1. u # 0
          BY <1>1, <3>2
        <4>2. At(1, f, m[1] - 1) \in 0..mpiSize[1] - 1
          BY <1>1, <1>12, AtFacts
        <4>3. QED
          BY <1>4, <3>2, <4>1, <4>2 DEF x
      <3>6. /\ maxDims'[1] = At(1, f, m[1] - 1) /\ maxDims'[2] = maxDims[2]
            /\ maxDims'[3] = maxDims[3]
        BY <1>1, <1>10, <3>4, <3>5
      <3>7. Seen(D, f, m, 0, v + 1, w)
        <4>1. u \in Nat /\ m[1] <= u
          BY <1>1, <1>2, <3>2
        <4>2. QED
          BY <1>0, <1>2, <2>1, <3>2, <4>1, SeenRow
      <3>8. Advance(At(1, f, m[1] - 1), At(2, f, v), At(3, f, w), maxDims')
        BY <3>4, <3>5 DEF y, z
      <3>9. /\ v < m[2] /\ w < m[3] /\ v <= mpiSize[2] - 1 /\ lin[2] = f[2] + v
            /\ maxDims'[2] = At(2, f, mpiSize[2] - 1)
            /\ maxDims'[3] = At(3, f, mpiSize[3] - 1)
        BY <1>1, <1>2, <2>4, <3>2, <3>6
      <3>10. Onward(D, f, m, maxDims', lin', row', phase')
        BY <1>2, <1>12, <2>4, <3>6, <3>7, <3>8, <3>9, RowEnds
      <3>11. \A i \in Dim : maxDims'[i] = maxDims[i] \/ maxDims'[i] \in 0..mpiSize[i] - 1
        BY <3>5, <3>6 DEF Dim
      <3>12. QED
        BY <1>14, <2>1, <3>10, <3>11 DEF D
    <2>5. CASE w = 0 /\ v # 0
      <3>1. FirstPlane(C, f, m, u, v, w, maxDims, lin)
        BY <1>3, <2>2, <2>5 DEF FirstRow, LaterPlane
      <3>2. /\ v = m[2] /\ u = 0 /\ lin[2] = f[2] + v
            /\ maxDims[1] = At(1, f, m[1] - 1) /\ Seen(C, f, m, u, v, w)
        <4>1. /\ v <= m[2] /\ u < m[1] /\ (v = m[2] => u = 0) /\ lin[2] = f[2] + v /\ w = 0
              /\ maxDims[1] = At(1, f, m[1] - 1) /\ Seen(C, f, m, u, v, 0)
          BY <3>1 DEF FirstPlane
        <4>2. v = m[2]
          BY <1>1, <1>2, <1>14, <4>1
        <4>3. QED
          BY <4>1, <4>2
      <3>3. z = f[3] /\ y # f[2]
        BY <1>5, <1>6, <2>5 DEF y, z
      <3>4. /\ maxDims' = [maxDims EXCEPT ![2] = Pred(2, y)]
            /\ Advance(x, Pred(2, y), z, maxDims')
        BY <1>8, <1>9, <1>14, <3>3
      <3>5. Pred(2, y) = At(2, f, m[2] - 1) /\ At(2, f, m[2] - 1) \in 0..mpiSize[2] - 1
        <4>1. At(2, f, m[2] - 1) \in 0..mpiSize[2] - 1
          BY <1>1, <1>12, AtFacts
        <4>2. QED
          BY <1>5, <2>5, <3>2, <4>1 DEF y
      <3>6. /\ maxDims'[2] = At(2, f, m[2] - 1) /\ maxDims'[1] = maxDims[1]
            /\ maxDims'[3] = maxDims[3]
        BY <1>1, <1>10, <3>4, <3>5
      <3>7. Seen(D, f, m, 0, 0, w + 1)
        <4>1. v \in Nat /\ m[2] <= v
          BY <1>1, <1>2, <3>2
        <4>2. QED
          BY <1>0, <1>2, <2>1, <3>2, <4>1, SeenPlane
      <3>8. Advance(At(1, f, u), At(2, f, m[2] - 1), At(3, f, w), maxDims')
        BY <3>4, <3>5 DEF x, z
      <3>9. /\ maxDims'[1] = At(1, f, m[1] - 1) /\ maxDims'[3] = At(3, f, mpiSize[3] - 1)
        BY <1>2, <3>2, <3>6
      <3>10. Onward(D, f, m, maxDims', lin', row', phase')
        <4>1. CASE m[1] # 1
          <5>1. u # m[1] - 1
            BY <1>1, <3>2, <4>1
          <5>2. /\ lin'[1] = lin[1] + 1 /\ lin'[3] = lin[3]
                /\ row' = At(2, f, m[2] - 1) /\ phase' = "walk"
            <6> DEFINE X == m[1] - 1
                       Y == m[2] - 1
                       Z == mpiSize[3] - 1
            <6>1. /\ X \in 0..mpiSize[1] - 1 /\ Y \in 0..mpiSize[2] - 1
                  /\ Z \in 0..mpiSize[3] - 1 /\ u # X
                  /\ maxDims'[1] = At(1, f, X) /\ maxDims'[2] = At(2, f, Y)
                  /\ maxDims'[3] = At(3, f, Z)
                  /\ Advance(At(1, f, u), At(2, f, Y), At(3, f, w), maxDims')
              BY <1>12, <3>6, <3>8, <3>9, <5>1
            <6> HIDE DEF X, Y, Z
            <6>2. /\ lin'[1] = lin[1] + 1 /\ lin'[3] = lin[3]
                  /\ row' = At(2, f, Y) /\ phase' = "walk"
              BY <1>2, <6>1, AdvanceCases, SMTT(30)
            <6>3. QED
              BY <6>2 DEF Y
          <5>3. /\ 1 \in 0..mpiSize[1] - 1 /\ 1 < m[1] /\ lin'[1] = f[1] + 1 /\ w + 1 = 1
                /\ 1 <= 1
            BY <1>1, <1>2, <2>5, <3>2, <4>1, <5>2
          <5>4. LastRowAgain(D, f, m, 1, m[2] - 1, w, maxDims', lin')
            BY <2>5, <3>6, <3>7, <3>9, <5>3 DEF LastRowAgain
          <5>5. WalkState(D, f, m, 1, m[2] - 1, w, maxDims', lin', row')
            BY <1>2, <1>12, <3>9, <5>2, <5>3, <5>4 DEF WalkState
          <5>6. QED
            BY <5>2, <5>5 DEF Onward
        <4>2. CASE m[1] = 1
          <5> DEFINE b == m[2] - 1
          <5>1. /\ u = m[1] - 1 /\ b \in 0..mpiSize[2] - 1 /\ b < m[2] /\ b + 1 = m[2]
                /\ w < m[3] /\ b <= b
            BY <1>1, <1>12, <2>5, <3>2, <4>2
          <5>2. Advance(At(1, f, m[1] - 1), At(2, f, b), At(3, f, w), maxDims')
            BY <3>8, <5>1
          <5>3. maxDims'[2] = At(2, f, b) /\ b = m[2] - 1
            BY <3>6
          <5> HIDE DEF b
          <5>4. Seen(D, f, m, 0, b + 1, w)
            <6>1. b + 1 \in Nat /\ m[2] <= b + 1
              BY <1>1, <5>1
            <6>2. QED
              BY <1>0, <1>2, <3>7, <6>1, SeenPlane
          <5>5. QED
            BY <1>2, <3>9, <5>1, <5>2, <5>3, <5>4, RowEnds
        <4>3. QED
          BY <4>1, <4>2
      <3>11. \A i \in Dim : maxDims'[i] = maxDims[i] \/ maxDims'[i] \in 0..mpiSize[i] - 1
        BY <3>5, <3>6 DEF Dim
      <3>12. QED
        BY <1>14, <2>1, <3>10, <3>11 DEF D
    <2>6. QED
      BY <2>3, <2>4, <2>5
  <1>15. QED
    BY <1>13, <1>14


-----------------------------------------------------------------------------
(* The extent of the container *)

Begin(i, p) == cells[i][p].offset
Stop(i, p) == cells[i][p].offset + cells[i][p].size

\* The first file is the first entry, no entry begins before it, and the size reaches
\* as far as the entries do.
SpanInv(f) ==
    /\ container = <<>> => extent.size = Ones
    /\ container # <<>> =>
         /\ f \in Range(container)
         /\ \A i \in Dim :
              /\ extent.offset[i] = Begin(i, f[i]) /\ extent.size[i] \in Nat
              /\ \A p \in Range(container) :
                    /\ Begin(i, f[i]) <= Begin(i, p[i])
                    /\ Stop(i, p[i]) <= extent.offset[i] + extent.size[i]
              /\ \E p \in Range(container) :
                    Stop(i, p[i]) = extent.offset[i] + extent.size[i]

LEMMA MeetsBehind ==
    ASSUME GridInv, NEW f, First(f), NEW i \in Dim, NEW p \in 0..mpiSize[i] - 1, Meet(i, p)
    PROVE  Begin(i, f[i]) <= Begin(i, p)
  <1> DEFINE n == mpiSize[i]
             line == cells[i]
             g == f[i]
             r == request.offset[i]
  <1>1. PICK k \in 0..n - 1 : LineInv(line, n, k)
    BY DEF GridInv, Shift
  <1>2. /\ n \in Nat \ {0} /\ r \in Nat /\ g \in 0..n - 1 /\ p \in 0..n - 1
        /\ line[g].offset <= r /\ r < line[p].offset + line[p].size
    BY SizesPositive DEF GridInv, InputOK, First, Meet
  <1>3. SUFFICES line[g].offset <= line[p].offset
    BY DEF Begin
  <1> HIDE DEF n, line, g, r
  <1> DEFINE go == line[g].offset
             gs == line[g].size
             po == line[p].offset
             ps == line[p].size
             a == Slot(n, k, g)
             b == Slot(n, k, p)
  <1>4. /\ go \in Nat /\ gs \in Nat \ {0} /\ po \in Nat /\ ps \in Nat \ {0}
        /\ a \in 0..n - 1 /\ b \in 0..n - 1
        /\ a < b => go + gs <= po
        /\ b < a => po + ps <= go
        /\ a = b => g = p
    BY <1>1, <1>2, InOrder
  <1>5. go <= r /\ r < po + ps /\ (g = p => go = po)
    BY <1>2
  <1> HIDE DEF go, gs, po, ps, a, b
  <1>6. go <= po
    BY <1>2, <1>4, <1>5
  <1>7. QED
    BY <1>6 DEF go, po

LEMMA ExtendSpans ==
    ASSUME ReadInv, NEW f, First(f), SpanInv(f), NEW p \in Positions, cells' = cells,
           container' = Append(container, p), extent' = Extend(FileDomain(p)),
           container = <<>> => p = f,
           \A i \in Dim : Begin(i, f[i]) <= Begin(i, p[i])
    PROVE  SpanInv(f)'
  <1>1. /\ container' # <<>> /\ Range(container') = Range(container) \union {p}
    <2>1. container \in Seq(Positions)
      BY DEF ReadInv
    <2>2. Range(Append(container, p)) = Range(container) \union {p}
      BY <2>1, RangeAppend
    <2>3. Append(container, p) # <<>>
      BY <2>1
    <2>4. QED
      BY <2>2, <2>3
  <1>2. f \in Range(container')
    <2>1. CASE container = <<>>
      BY <1>1, <2>1
    <2>2. CASE container # <<>>
      BY <1>1, <2>2 DEF SpanInv
    <2>3. QED
      BY <2>1, <2>2
  <1>3. ASSUME NEW i \in Dim
        PROVE  /\ extent'.offset[i] = Begin(i, f[i]) /\ extent'.size[i] \in Nat
               /\ \A q \in Range(container') :
                    /\ Begin(i, f[i]) <= Begin(i, q[i])
                    /\ Stop(i, q[i]) <= extent'.offset[i] + extent'.size[i]
               /\ \E q \in Range(container') :
                    Stop(i, q[i]) = extent'.offset[i] + extent'.size[i]
    <2> DEFINE fo == Begin(i, f[i])
               po == Begin(i, p[i])
               pe == Stop(i, p[i])
               ps == cells[i][p[i]].size
               eo == extent.offset[i]
               es == extent.size[i]
               no == extent'.offset[i]
               ns == extent'.size[i]
    <2>1. /\ fo \in Nat /\ po \in Nat /\ ps \in Nat \ {0} /\ pe = po + ps /\ fo <= po
      <3>1. p[i] \in 0..mpiSize[i] - 1
        BY DEF Positions, Dim
      <3>2. f[i] \in 0..mpiSize[i] - 1
        BY DEF First
      <3>3. QED
        BY <3>1, <3>2 DEF ReadInv, InputOK, Begin, Stop
    <2>2. /\ no = IF container = <<>> THEN po ELSE IF po < eo THEN po ELSE eo
          /\ ns = IF pe - no > es THEN pe - no ELSE es
      BY DEF Extend, FileDomain, End, Begin, Stop
    <2>3. CASE container = <<>>
      <3>1. es = 1 /\ p = f /\ Range(container) = {}
        BY <2>3 DEF SpanInv, Ones, Dim, Range
      <3>2. fo = po
        BY <3>1
      <3>3. Range(container') = {p}
        BY <1>1, <3>1
      <3> HIDE DEF fo, po, pe, ps, eo, es, no, ns
      <3>4. no = po /\ ns = ps /\ no + ns = pe
        BY <2>1, <2>2, <2>3, <3>1
      <3>5. no = fo /\ ns \in Nat
        BY <2>1, <3>2, <3>4
      <3>6. fo <= po /\ pe <= no + ns
        BY <2>1, <3>4
      <3>7. QED
        BY <3>3, <3>4, <3>5, <3>6 DEF fo, po, pe, no, ns
    <2>4. CASE container # <<>>
      <3>1. /\ eo = fo /\ es \in Nat
            /\ \A q \in Range(container) : fo <= Begin(i, q[i]) /\ Stop(i, q[i]) <= eo + es
            /\ \E q \in Range(container) : Stop(i, q[i]) = eo + es
        BY <2>4 DEF SpanInv
      <3>2. PICK q \in Range(container) : Stop(i, q[i]) = eo + es
        BY <3>1
      <3> HIDE DEF fo, po, pe, ps, eo, es, no, ns
      <3>3. no = fo /\ ns = IF pe - fo > es THEN pe - fo ELSE es
        BY <2>1, <2>2, <2>4, <3>1
      <3>4. ns \in Nat /\ eo + es <= no + ns /\ pe <= no + ns
            /\ (no + ns = pe \/ no + ns = eo + es)
        BY <2>1, <3>1, <3>3
      <3>5. ASSUME NEW r \in Range(container')
            PROVE  fo <= Begin(i, r[i]) /\ Stop(i, r[i]) <= no + ns
        <4>1. CASE r = p
          <5>1. fo <= po /\ pe <= no + ns
            BY <2>1, <3>4
          <5>2. QED
            BY <4>1, <5>1 DEF po, pe
        <4>2. CASE r \in Range(container)
          <5>1. fo <= Begin(i, r[i]) /\ Stop(i, r[i]) <= eo + es
            BY <3>1, <4>2
          <5> DEFINE z == Stop(i, r[i])
          <5>2. z \in Int
            <6>1. container \in Seq(Positions)
              BY DEF ReadInv
            <6>2. r \in Positions
              BY <4>2, <6>1 DEF Range
            <6>3. r[i] \in 0..mpiSize[i] - 1
              BY <6>2 DEF Positions, Dim
            <6>4. cells[i][r[i]].offset \in Nat /\ cells[i][r[i]].size \in Nat
              BY <6>3 DEF ReadInv, InputOK
            <6>5. QED
              BY <6>4 DEF Stop
          <5>3. z <= eo + es
            BY <5>1
          <5> HIDE DEF z
          <5>4. z <= no + ns
            BY <2>1, <3>1, <3>3, <3>4, <5>2, <5>3
          <5>5. QED
            BY <5>1, <5>4 DEF z
        <4>3. QED
          BY <1>1, <4>1, <4>2
      <3>6. \E r \in Range(container') : Stop(i, r[i]) = no + ns
        <4>1. CASE no + ns = pe
          <5>1. p \in Range(container')
            BY <1>1
          <5>2. QED
            BY <4>1, <5>1 DEF pe
        <4>2. CASE no + ns = eo + es
          <5>1. q \in Range(container')
            BY <1>1
          <5>2. QED
            BY <3>2, <4>2, <5>1
        <4>3. QED
          BY <3>4, <4>1, <4>2
      <3>7. QED
        BY <3>3, <3>4, <3>5, <3>6 DEF fo, no, ns
    <2>5. QED
      BY <2>3, <2>4
  <1>4. \A i, q : Begin(i, q)' = Begin(i, q) /\ Stop(i, q)' = Stop(i, q)
    BY DEF Begin, Stop
  <1>5. QED
    BY <1>1, <1>2, <1>3, <1>4 DEF SpanInv


-----------------------------------------------------------------------------
(* The invariant of the search *)

WalkInv(f, m) ==
    phase = "walk" =>
        /\ minDims = f
        /\ \E u, v, w : WalkState(Range(container), f, m, u, v, w, maxDims, lin, row)

FoundInv(k, f, m) ==
    /\ RangesInv
    /\ phase \in {"zero", "half", "first"} => container = <<>>
    /\ FirstInv(k, f)
    /\ WalkInv(f, m)
    /\ phase = "done" => SeenAll(Range(container), f, m)
    /\ SpanInv(f)

LEMMA FirstStays ==
    ASSUME UNCHANGED files
    PROVE  /\ \A f : First(f)' <=> First(f)
           /\ \A f, m : Counts(f, m)' <=> Counts(f, m)
           /\ \A k : Shifts(k)' <=> Shifts(k)
           /\ \A C, f, m : SeenAll(C, f, m)' <=> SeenAll(C, f, m)
  <1>1. /\ mpiSize' = mpiSize /\ cells' = cells /\ request' = request /\ merged' = merged
        /\ globalOffset' = globalOffset
    BY DEF files
  <1>2. \A i, f, u : At(i, f, u)' = At(i, f, u)
    BY <1>1 DEF At
  <1>3. \A i, p : Meet(i, p)' <=> Meet(i, p)
    BY <1>1 DEF Meet
  <1>4. \A f : First(f)' <=> First(f)
    BY <1>1 DEF First
  <1>5. \A f, m : Counts(f, m)' <=> Counts(f, m)
    BY <1>1, <1>2, <1>3 DEF Counts
  <1>6. \A k : Shifts(k)' <=> Shifts(k)
    BY <1>1 DEF Shifts, Shift
  <1>7. \A C, f, m : SeenAll(C, f, m)' <=> SeenAll(C, f, m)
    BY <1>1, <1>2 DEF SeenAll, Seen, Place
  <1>8. QED
    BY <1>4, <1>5, <1>6, <1>7

LEMMA WalkMoves ==
    ASSUME UNCHANGED files, NEW f, NEW m, NEW u, NEW v, NEW w,
           WalkState(Range(container'), f, m, u, v, w, maxDims', lin', row')
    PROVE  WalkState(Range(container), f, m, u, v, w, maxDims, lin, row)'
  <1>1. mpiSize' = mpiSize
    BY DEF files
  <1>2. \A i, e : At(i, f, e)' = At(i, f, e)
    BY <1>1 DEF At
  <1>3. \A C, a, b, c : Seen(C, f, m, a, b, c)' <=> Seen(C, f, m, a, b, c)
    BY <1>1, <1>2 DEF Seen, Place
  <1>4. Range(container)' = Range(container')
    BY DEF Range
  <1> DEFINE D == Range(container')
  <1>5. /\ FirstRow(Range(container), f, m, u, v, w, maxDims, lin)'
             <=> FirstRow(D, f, m, u, v, w, maxDims', lin')
        /\ FirstPlane(Range(container), f, m, u, v, w, maxDims, lin)'
             <=> FirstPlane(D, f, m, u, v, w, maxDims', lin')
        /\ LastRowAgain(Range(container), f, m, u, v, w, maxDims, lin)'
             <=> LastRowAgain(D, f, m, u, v, w, maxDims', lin')
        /\ LaterPlane(Range(container), f, m, u, v, w, maxDims, lin)'
             <=> LaterPlane(D, f, m, u, v, w, maxDims', lin')
    BY <1>1, <1>2, <1>3, <1>4 DEF FirstRow, FirstPlane, LastRowAgain, LaterPlane
  <1>6. QED
    BY <1>1, <1>2, <1>5 DEF WalkState

\* The walk starts at the first file, with nothing in the container.
LEMMA WalkStarts ==
    ASSUME ReadInv, NEW f, First(f), NEW m, Counts(f, m), StartWalk(f), container = <<>>
    PROVE  WalkState(Range(container'), f, m, 0, 0, 0, maxDims', lin', row')
  <1>0. InputOK
    BY DEF ReadInv
  <1>1. /\ mpiSize[1] \in Nat \ {0} /\ mpiSize[2] \in Nat \ {0} /\ mpiSize[3] \in Nat \ {0}
        /\ f[1] \in 0..mpiSize[1] - 1 /\ f[2] \in 0..mpiSize[2] - 1
        /\ f[3] \in 0..mpiSize[3] - 1
        /\ m[1] \in 1..mpiSize[1] /\ m[2] \in 1..mpiSize[2] /\ m[3] \in 1..mpiSize[3]
        /\ 1 \in Dim /\ 2 \in Dim /\ 3 \in Dim
    BY <1>0, Numbers DEF Dim
  <1>2. /\ maxDims' = [i \in Dim |-> (f[i] + mpiSize[i] - 1) % mpiSize[i]]
        /\ lin' = f /\ row' = f[2] % mpiSize[2] /\ container' = <<>>
    BY DEF StartWalk
  <1>3. ASSUME NEW i \in Dim
        PROVE  /\ maxDims'[i] = At(i, f, mpiSize[i] - 1)
               /\ f[i] % mpiSize[i] = At(i, f, 0)
    <2>1. mpiSize[i] \in Nat \ {0} /\ f[i] \in 0..mpiSize[i] - 1
      BY <1>0, SizesPositive DEF First
    <2>2. 0 \in 0..mpiSize[i] - 1
      BY <2>1
    <2>3. /\ (f[i] + mpiSize[i] - 1) % mpiSize[i] = At(i, f, mpiSize[i] - 1)
          /\ At(i, f, 0) = f[i] /\ f[i] % mpiSize[i] = f[i]
      BY <2>1, <2>2, AtFacts
    <2>4. QED
      BY <1>2, <2>3
  <1>4. /\ maxDims'[1] = At(1, f, mpiSize[1] - 1) /\ maxDims'[2] = At(2, f, mpiSize[2] - 1)
        /\ maxDims'[3] = At(3, f, mpiSize[3] - 1) /\ row' = At(2, f, 0)
    BY <1>1, <1>2, <1>3
  <1>5. Range(container') = {}
    BY <1>2 DEF Range
  <1>6. \A a, b, c \in Nat : ~Before(a, b, c, 0, 0, 0)
    BY DEF Before
  <1>7. Seen({}, f, m, 0, 0, 0)
    BY <1>6 DEF Seen
  <1>8. /\ 0 \in 0..mpiSize[1] - 1 /\ 0 \in 0..mpiSize[2] - 1 /\ 0 \in 0..mpiSize[3] - 1
        /\ lin'[1] = f[1] + 0 /\ lin'[3] = f[3] + 0 /\ lin'[2] = f[2] /\ 0 <= m[1]
    <2>a. \A n \in Nat \ {0} : 0 \in 0..n - 1 /\ \A c \in 1..n : 0 <= c
      OBVIOUS
    <2>1. /\ 0 \in 0..mpiSize[1] - 1 /\ 0 \in 0..mpiSize[2] - 1 /\ 0 \in 0..mpiSize[3] - 1
          /\ 0 <= m[1]
      BY <1>1, <2>a, Zenon
    <2>2. f[1] + 0 = f[1] /\ f[3] + 0 = f[3]
      BY <1>1, SMTT(30)
    <2>3. QED
      BY <1>2, <2>1, <2>2
  <1>9. FirstRow({}, f, m, 0, 0, 0, maxDims', lin')
    BY <1>4, <1>7, <1>8 DEF FirstRow
  <1>10. QED
    BY <1>4, <1>5, <1>8, <1>9 DEF WalkState

\* Nothing is in the container only when the walk stands at the first file.
LEMMA EmptyAtFirst ==
    ASSUME InputOK, NEW f, First(f), NEW m, Counts(f, m), NEW u, NEW v, NEW w,
           NEW max, NEW l, NEW r, WalkState({}, f, m, u, v, w, max, l, r)
    PROVE  Place(f, u, v, w) = f
  <1>1. /\ mpiSize[1] \in Nat \ {0} /\ mpiSize[2] \in Nat \ {0} /\ mpiSize[3] \in Nat \ {0}
        /\ f[1] \in 0..mpiSize[1] - 1 /\ f[2] \in 0..mpiSize[2] - 1
        /\ f[3] \in 0..mpiSize[3] - 1
        /\ m[1] \in 1..mpiSize[1] /\ m[2] \in 1..mpiSize[2] /\ m[3] \in 1..mpiSize[3]
    BY Numbers
  <1>2. u \in 0..mpiSize[1] - 1 /\ v \in 0..mpiSize[2] - 1 /\ w \in 0..mpiSize[3] - 1
    BY DEF WalkState
  <1>3. /\ 0 \in 0..mpiSize[1] - 1 /\ 0 \in 0..mpiSize[2] - 1 /\ 0 \in 0..mpiSize[3] - 1
        /\ 0 < m[1] /\ 0 < m[2] /\ 0 < m[3]
    BY <1>1
  <1>4. ASSUME NEW a, NEW b, NEW c, Seen({}, f, m, a, b, c)
        PROVE  ~Before(0, 0, 0, a, b, c)
    BY <1>3, <1>4 DEF Seen
  <1>5. Seen({}, f, m, u, v, w) \/ Seen({}, f, m, 0, 0, 1)
    BY DEF WalkState, FirstRow, FirstPlane, LastRowAgain, LaterPlane
  <1>6. Before(0, 0, 0, 0, 0, 1)
    BY DEF Before
  <1>7. ~Before(0, 0, 0, u, v, w)
    BY <1>4, <1>5, <1>6
  <1>8. u = 0 /\ v = 0 /\ w = 0
    BY <1>1, <1>2, <1>7 DEF Before
  <1>9. At(1, f, 0) = f[1] /\ At(2, f, 0) = f[2] /\ At(3, f, 0) = f[3]
    BY <1>1 DEF At
  <1>10. f = <<f[1], f[2], f[3]>>
    BY DEF First, Dim
  <1>11. QED
    BY <1>8, <1>9, <1>10 DEF Place


LEMMA FoundInit ==
    ASSUME Init, NEW k, Shifts(k), NEW f, First(f), NEW m, Counts(f, m)
    PROVE  FoundInv(k, f, m)
  <1>1. GridInv
    BY GridInit
  <1>2. /\ minDims = Zero /\ maxDims = [i \in Dim |-> mpiSize[i] - 1] /\ currentPos = Zero
        /\ phase = "zero" /\ container = <<>> /\ extent = [offset |-> Zero, size |-> Ones]
    BY DEF Init
  <1>3. RangesInv
    <2>1. ASSUME NEW i \in Dim
          PROVE  /\ minDims[i] \in 0..mpiSize[i] - 1 /\ maxDims[i] \in 0..mpiSize[i] - 1
                 /\ currentPos[i] \in 0..mpiSize[i] - 1
      <3>1. mpiSize[i] \in Nat \ {0}
        BY <1>1, SizesPositive DEF GridInv
      <3>2. minDims[i] = 0 /\ currentPos[i] = 0 /\ maxDims[i] = mpiSize[i] - 1
        BY <1>2 DEF Zero, Dim
      <3>3. QED
        BY <3>1, <3>2
    <2>2. QED
      BY <2>1 DEF RangesInv
  <1>4. QED
    BY <1>2, <1>3 DEF FoundInv, FirstInv, WalkInv, SpanInv

LEMMA SpanStays ==
    ASSUME UNCHANGED files, NEW f, SpanInv(f), container' = container, extent' = extent
    PROVE  SpanInv(f)'
  <1>1. cells' = cells
    BY DEF files
  <1>2. Range(container)' = Range(container)
    BY DEF Range
  <1>3. QED
    BY <1>1, <1>2 DEF SpanInv, Begin, Stop

LEMMA FoundWalks ==
    ASSUME ReadInv, GridInv, NEW k, NEW f, First(f), NEW m, Counts(f, m),
           FoundInv(k, f, m), Walk
    PROVE  FoundInv(k, f, m)'
  <1>0. InputOK
    BY DEF ReadInv
  <1>1. UNCHANGED files /\ minDims' = minDims /\ currentPos' = currentPos /\ phase = "walk"
    BY DEF Walk
  <1>a. mpiSize' = mpiSize /\ cells' = cells
    BY <1>1 DEF files
  <1>2. minDims = f
    BY <1>1 DEF FoundInv, WalkInv
  <1>3. PICK u, v, w : WalkState(Range(container), f, m, u, v, w, maxDims, lin, row)
    BY <1>1 DEF FoundInv, WalkInv
  <1>4. /\ Onward(Range(container'), f, m, maxDims', lin', row', phase')
        /\ \A i \in Dim : maxDims'[i] = maxDims[i] \/ maxDims'[i] \in 0..mpiSize[i] - 1
        /\ IF u < m[1] /\ v < m[2] /\ w < m[3]
           THEN /\ container' = Append(container, Place(f, u, v, w))
                /\ extent' = Extend(FileDomain(Place(f, u, v, w)))
           ELSE UNCHANGED <<container, extent>>
    BY <1>2, <1>3, WalkGoesOn
  <1>5. RangesInv'
    BY <1>1, <1>4, <1>a DEF RangesInv, FoundInv
  <1>6. phase' \in {"walk", "done"}
    BY <1>4 DEF Onward
  <1>7. WalkInv(f, m)'
    <2>1. SUFFICES ASSUME phase' = "walk"
                   PROVE  /\ minDims' = f
                          /\ \E a, b, c : WalkState(Range(container), f, m, a, b, c,
                                                    maxDims, lin, row)'
      BY DEF WalkInv
    <2>2. PICK a, b, c : WalkState(Range(container'), f, m, a, b, c, maxDims', lin', row')
      BY <1>4, <2>1 DEF Onward
    <2>3. WalkState(Range(container), f, m, a, b, c, maxDims, lin, row)'
      BY <1>1, <2>2, WalkMoves
    <2>4. QED
      BY <1>1, <1>2, <2>3
  <1>8. phase' = "done" => SeenAll(Range(container), f, m)'
    <2>1. SUFFICES ASSUME phase' = "done" PROVE SeenAll(Range(container), f, m)'
      OBVIOUS
    <2>2. SeenAll(Range(container'), f, m)
      BY <1>4, <2>1 DEF Onward
    <2>3. QED
      BY <1>a, <2>2 DEF SeenAll, Seen, Place, At, Range
  <1>9. SpanInv(f)'
    <2> DEFINE p == Place(f, u, v, w)
    <2>1. CASE u < m[1] /\ v < m[2] /\ w < m[3]
      <3>1. container' = Append(container, p) /\ extent' = Extend(FileDomain(p))
        BY <1>4, <2>1
      <3>2. ASSUME NEW i \in Dim
            PROVE  /\ p[i] \in 0..mpiSize[i] - 1 /\ p[i] \in Nat
                   /\ Begin(i, f[i]) <= Begin(i, p[i])
        <4>1. PICK e \in 0..mpiSize[i] - 1 : p[i] = At(i, f, e) /\ e < m[i]
          BY <1>3, <2>1 DEF WalkState, Place, Dim
        <4>2. mpiSize[i] \in Nat \ {0} /\ f[i] \in 0..mpiSize[i] - 1
          BY <1>0, SizesPositive DEF First
        <4>3. At(i, f, e) \in 0..mpiSize[i] - 1
          BY <4>2, AtFacts
        <4>4. Meet(i, At(i, f, e))
          BY <4>1 DEF Counts
        <4>5. Begin(i, f[i]) <= Begin(i, At(i, f, e))
          BY <4>3, <4>4, MeetsBehind
        <4>6. QED
          BY <4>1, <4>2, <4>3, <4>5
      <3>3. p \in Positions
        <4>1. p \in [Dim -> Nat]
          <5>1. p[1] \in Nat /\ p[2] \in Nat /\ p[3] \in Nat
            BY <3>2 DEF Dim
          <5>2. p = <<p[1], p[2], p[3]>>
            BY DEF Place
          <5> HIDE DEF p
          <5>3. QED
            BY <5>1, <5>2 DEF Dim
        <4> HIDE DEF p
        <4>2. QED
          BY <3>2, <4>1, PositionTriple
      <3>4. container = <<>> => p = f
        <4>1. SUFFICES ASSUME container = <<>> PROVE p = f
          OBVIOUS
        <4>2. Range(container) = {}
          BY <4>1 DEF Range
        <4>3. WalkState({}, f, m, u, v, w, maxDims, lin, row)
          BY <1>3, <4>2
        <4>4. QED
          BY <1>0, <4>3, EmptyAtFirst
      <3>5. SpanInv(f)
        BY DEF FoundInv
      <3> HIDE DEF p
      <3>6. QED
        BY <1>a, <3>1, <3>2, <3>3, <3>4, <3>5, ExtendSpans
    <2>2. CASE ~(u < m[1] /\ v < m[2] /\ w < m[3])
      <3>1. container' = container /\ extent' = extent
        BY <1>4, <2>2
      <3>2. QED
        BY <1>1, <3>1, SpanStays DEF FoundInv
    <2>3. QED
      BY <2>1, <2>2
  <1>10. FirstInv(k, f)'
    BY <1>6 DEF FirstInv
  <1>11. QED
    BY <1>5, <1>6, <1>7, <1>8, <1>9, <1>10 DEF FoundInv

LEMMA FoundNext ==
    ASSUME ReadInv, GridInv, NEW k, Shifts(k), ZeroInv(k), NEW f, First(f),
           NEW m, Counts(f, m), FoundInv(k, f, m), [Next]_vars
    PROVE  FoundInv(k, f, m)'
  <1>0. SpanInv(f) /\ RangesInv /\ FirstInv(k, f)
    BY DEF FoundInv
  <1>1. CASE FindZero
    <2>1. UNCHANGED <<files, rangeVars, walkVars>> /\ phase = "zero"
          /\ phase' \in {"zero", "half"}
      BY <1>1 DEF FindZero
    <2>2. container = <<>>
      BY <2>1 DEF FoundInv
    <2>3. RangesInv' /\ SpanInv(f)'
      BY <1>0, <2>1, SpanStays DEF RangesInv, rangeVars, walkVars, files
    <2>4. QED
      BY <2>1, <2>2, <2>3 DEF FoundInv, FirstInv, WalkInv, walkVars
  <1>2. CASE ChooseHalf
    <2>1. UNCHANGED <<files, walkVars>> /\ phase = "half" /\ phase' = "first"
      BY <1>2 DEF ChooseHalf
    <2>2. container = <<>>
      BY <2>1 DEF FoundInv
    <2>3. RangesInv' /\ FirstInv(k, f)'
      BY <1>2, HalfStarts
    <2>4. SpanInv(f)'
      BY <1>0, <2>1, SpanStays DEF walkVars
    <2>5. QED
      BY <2>1, <2>2, <2>3, <2>4 DEF FoundInv, WalkInv, walkVars
  <1>3. CASE FindFirst
    <2>1. phase = "first" /\ container = <<>>
      BY <1>3 DEF FindFirst, FoundInv
    <2>2. /\ RangesInv'
          /\ \/ Middle = f /\ StartWalk(f)
             \/ phase' = "first" /\ FirstInv(k, f)' /\ container' = container
      BY <1>0, <1>3, FirstFound
    <2>3. UNCHANGED files /\ container' = container /\ extent' = extent
      BY <1>3 DEF FindFirst, StartWalk, Narrow, walkVars
    <2>4. SpanInv(f)'
      BY <1>0, <2>3, SpanStays
    <2>5. CASE StartWalk(f)
      <3>1. phase' = "walk" /\ minDims' = f
        BY <2>5 DEF StartWalk
      <3>2. WalkState(Range(container'), f, m, 0, 0, 0, maxDims', lin', row')
        BY <2>1, <2>5, WalkStarts
      <3>3. WalkState(Range(container), f, m, 0, 0, 0, maxDims, lin, row)'
        BY <2>3, <3>2, WalkMoves
      <3>4. WalkInv(f, m)'
        BY <3>1, <3>3 DEF WalkInv
      <3>5. QED
        BY <2>2, <2>4, <3>1, <3>4 DEF FoundInv, FirstInv
    <2>6. CASE phase' = "first" /\ FirstInv(k, f)' /\ container' = container
      BY <2>1, <2>2, <2>4, <2>6 DEF FoundInv, WalkInv
    <2>7. QED
      BY <2>2, <2>5, <2>6
  <1>4. CASE Walk
    BY <1>4, FoundWalks
  <1>5. CASE FindNoFile \/ Throws
    <2>1. UNCHANGED <<files, rangeVars, walkVars>> /\ phase' = "thrown"
      BY <1>5 DEF FindNoFile, Throws
    <2>2. RangesInv' /\ SpanInv(f)'
      BY <1>0, <2>1, SpanStays DEF RangesInv, rangeVars, walkVars, files
    <2>3. QED
      BY <2>1, <2>2 DEF FoundInv, FirstInv, WalkInv
  <1>6. CASE Finished \/ UNCHANGED vars
    <2>1. UNCHANGED <<files, phase, rangeVars, walkVars>>
      BY <1>6 DEF Finished, vars
    <2>2. /\ RangesInv' /\ SpanInv(f)' /\ FirstInv(k, f)'
      BY <1>0, <2>1, SpanStays DEF RangesInv, FirstInv, rangeVars, walkVars, files
    <2>3. /\ minDims' = minDims /\ maxDims' = maxDims /\ lin' = lin /\ row' = row
          /\ container' = container /\ phase' = phase
      BY <2>1 DEF rangeVars, walkVars
    <2>4. WalkInv(f, m)'
      <3>1. SUFFICES ASSUME phase' = "walk"
                     PROVE  /\ minDims' = f
                            /\ \E a, b, c : WalkState(Range(container), f, m, a, b, c,
                                                      maxDims, lin, row)'
        BY DEF WalkInv
      <3>2. PICK a, b, c : WalkState(Range(container), f, m, a, b, c, maxDims, lin, row)
        BY <2>3, <3>1 DEF FoundInv, WalkInv
      <3>3. WalkState(Range(container'), f, m, a, b, c, maxDims', lin', row')
        BY <2>3, <3>2
      <3>4. WalkState(Range(container), f, m, a, b, c, maxDims, lin, row)'
        BY <2>1, <3>3, WalkMoves
      <3>5. minDims' = f
        BY <2>3, <3>1 DEF FoundInv, WalkInv
      <3>6. QED
        BY <3>4, <3>5
    <2>5. phase' = "done" => SeenAll(Range(container), f, m)'
      <3>1. SUFFICES ASSUME phase' = "done" PROVE SeenAll(Range(container), f, m)'
        OBVIOUS
      <3>2. SeenAll(Range(container), f, m)
        BY <2>3, <3>1 DEF FoundInv
      <3>3. mpiSize' = mpiSize
        BY <2>1 DEF files
      <3>4. QED
        BY <2>3, <3>2, <3>3 DEF SeenAll, Seen, Place, At, Range
    <2>6. phase' \in {"zero", "half", "first"} => container' = <<>>
      BY <2>3 DEF FoundInv
    <2>7. QED
      BY <2>2, <2>4, <2>5, <2>6 DEF FoundInv
  <1>7. QED
    BY <1>1, <1>2, <1>3, <1>4, <1>5, <1>6 DEF Next, Progress


-----------------------------------------------------------------------------
(* Every request *)

\* Where the ranges lie, whatever is asked for.
BoundsInv ==
    /\ phase \in {"zero", "half", "first", "walk", "done", "thrown"}
    /\ minDims \in [Dim -> 0..SizeMod - 1] /\ maxDims \in [Dim -> 0..SizeMod - 1]
    /\ currentPos \in [Dim -> 0..SizeMod - 1]

\* A request that begins in no file reads nothing.
OutsideInv ==
    (\A f : ~First(f)) => container = <<>> /\ phase # "walk"

SearchInv ==
    /\ ReadInv /\ GridInv /\ BoundsInv /\ OutsideInv
    /\ \E k : /\ Shifts(k) /\ ZeroInv(k)
              /\ \A f : First(f) => \E m : Counts(f, m) /\ FoundInv(k, f, m)

LEMMA ShiftsExist == GridInv => \E k : Shifts(k)
  <1> SUFFICES ASSUME GridInv PROVE \E k : Shifts(k)
    OBVIOUS
  <1> DEFINE k == [i \in Dim |-> CHOOSE j \in 0..mpiSize[i] - 1 : Shift(i, j)]
  <1>1. ASSUME NEW i \in Dim PROVE k[i] \in 0..mpiSize[i] - 1 /\ Shift(i, k[i])
    BY DEF GridInv
  <1>2. \A i \in Dim : k[i] \in Nat
    BY <1>1
  <1>3. k = [i \in Dim |-> k[i]]
    OBVIOUS
  <1> HIDE DEF k
  <1>4. k \in [Dim -> Nat]
    BY <1>2, <1>3
  <1>5. QED
    BY <1>1, <1>4 DEF Shifts

LEMMA SearchInit == Init => SearchInv
  <1> SUFFICES ASSUME Init PROVE SearchInv
    OBVIOUS
  <1>1. GridInv
    BY GridInit
  <1>2. ReadInv
    BY <1>1, ReadInit DEF GridInv
  <1>3. PICK k : Shifts(k)
    BY <1>1, ShiftsExist
  <1>4. ZeroInv(k)
    BY <1>3, ZeroInit
  <1>5. ASSUME NEW f, First(f) PROVE \E m : Counts(f, m) /\ FoundInv(k, f, m)
    <2>1. PICK m : Counts(f, m)
      BY <1>1, <1>5, CountsExist
    <2>2. QED
      BY <1>3, <1>5, <2>1, FoundInit
  <1>6. BoundsInv
    <2>1. /\ minDims = Zero /\ maxDims = [i \in Dim |-> mpiSize[i] - 1] /\ currentPos = Zero
          /\ phase = "zero"
      BY DEF Init
    <2>2. \A i \in Dim : mpiSize[i] - 1 \in 0..SizeMod - 1 /\ 0 \in 0..SizeMod - 1
      BY <1>1, SizesPositive, DomainAssumption DEF GridInv
    <2>3. maxDims \in [Dim -> 0..SizeMod - 1]
      BY <2>1, <2>2
    <2>4. Zero \in [Dim -> 0..SizeMod - 1]
      BY <2>2 DEF Zero, Dim
    <2>5. QED
      BY <2>1, <2>3, <2>4 DEF BoundsInv
  <1>7. OutsideInv
    BY DEF OutsideInv, Init
  <1>8. QED
    BY <1>1, <1>2, <1>3, <1>4, <1>5, <1>6, <1>7 DEF SearchInv

\* An unsigned number below the size of a dimension is one below SizeMod.
LEMMA SizeFits ==
    ASSUME GridInv, NEW i \in Dim, NEW p \in 0..mpiSize[i] - 1
    PROVE  p \in 0..SizeMod - 1
  <1>1. mpiSize[i] \in Nat \ {0} /\ mpiSize[i] <= SizeMod /\ SizeMod \in Nat
    BY SizesPositive, DomainAssumption DEF GridInv
  <1>2. QED
    BY <1>1

LEMMA BoundsNext ==
    ASSUME ReadInv, GridInv, BoundsInv, NEW k, ZeroInv(k), [Next]_vars
    PROVE  BoundsInv'
  <1>0. /\ SizeMod \in Nat \ {0} /\ \A i \in Dim : mpiSize[i] \in Nat \ {0}
        /\ 0 \in 0..SizeMod - 1
    BY SizesPositive, DomainAssumption DEF GridInv
  <1>1. CASE FindZero \/ FindNoFile \/ Throws \/ Finished \/ UNCHANGED vars
    <2>1. UNCHANGED rangeVars
      BY <1>1 DEF FindZero, FindNoFile, Throws, Finished, vars
    <2>2. phase' \in {"zero", "half", "thrown", phase}
      BY <1>1 DEF FindZero, FindNoFile, Throws, Finished, vars
    <2>3. QED
      BY <2>1, <2>2 DEF BoundsInv, rangeVars
  <1>2. CASE ChooseHalf
    <2>1. ASSUME NEW i \in Dim
          PROVE  /\ belowZero[i] \in 0..SizeMod - 1 /\ mpiSize[i] - 1 \in 0..SizeMod - 1
                 /\ belowZero[i] > 1 => belowZero[i] - 1 \in 0..SizeMod - 1
      <3>1. belowZero[i] \in 0..mpiSize[i] - 1 /\ mpiSize[i] - 1 \in 0..mpiSize[i] - 1
        BY <1>0 DEF ZeroInv
      <3>2. belowZero[i] \in 0..SizeMod - 1 /\ mpiSize[i] - 1 \in 0..SizeMod - 1
        BY <3>1, SizeFits
      <3>3. QED
        BY <1>0, <3>2
    <2>2. minDims' \in [Dim -> 0..SizeMod - 1]
      BY <1>0, <1>2, <2>1 DEF ChooseHalf
    <2>3. maxDims' \in [Dim -> 0..SizeMod - 1]
      BY <1>0, <1>2, <2>1 DEF ChooseHalf
    <2>4. QED
      BY <1>2, <2>2, <2>3 DEF ChooseHalf, BoundsInv
  <1>3. CASE FindFirst
    <2>1. Middle \in [Dim -> 0..SizeMod - 1]
      <3>1. ASSUME NEW i \in Dim
            PROVE  (minDims[i] + Half(minDims[i], maxDims[i])) % SizeMod \in 0..SizeMod - 1
        <4>1. minDims[i] \in Int /\ maxDims[i] \in Int
          BY DEF ReadInv
        <4>a. Half(minDims[i], maxDims[i]) \in Int
          BY <4>1, HalfType
        <4>2. minDims[i] + Half(minDims[i], maxDims[i]) \in Int
          BY <4>1, <4>a
        <4>3. QED
          BY <1>0, <4>2, ModInRange
      <3>2. QED
        BY <3>1 DEF Middle
    <2> DEFINE p == Middle
    <2>2. currentPos' = p
      BY <1>3 DEF FindFirst
    <2>3. PICK file \in FilesBehind(p) : StartWalk(p) \/ Narrow(p, file)
      BY <1>3, Zenon DEF FindFirst
    <2> HIDE DEF p
    <2>4. CASE StartWalk(p)
      <3>1. \A i \in Dim : (p[i] + mpiSize[i] - 1) % mpiSize[i] \in 0..SizeMod - 1
        <4> TAKE i \in Dim
        <4>1. p[i] + mpiSize[i] - 1 \in Int
          BY <1>0, <2>1 DEF p
        <4>2. (p[i] + mpiSize[i] - 1) % mpiSize[i] \in 0..mpiSize[i] - 1
          BY <1>0, <4>1, ModInRange
        <4>3. QED
          BY <4>2, SizeFits
      <3>2. /\ minDims' = p /\ phase' = "walk"
            /\ maxDims' = [i \in Dim |-> (p[i] + mpiSize[i] - 1) % mpiSize[i]]
        BY <2>4 DEF StartWalk
      <3>3. QED
        BY <2>1, <2>2, <3>1, <3>2 DEF BoundsInv, p
    <2>5. CASE Narrow(p, file)
      <3>1. \A i \in Dim : (p[i] - 1) % SizeMod \in 0..SizeMod - 1
        <4> TAKE i \in Dim
        <4>1. p[i] - 1 \in Int
          BY <2>1 DEF p
        <4>2. QED
          BY <1>0, <4>1, ModInRange
      <3>2. PICK after \in [Dim -> BOOLEAN] :
              /\ minDims' = [i \in Dim |-> IF after[i] THEN p[i] ELSE minDims[i]]
              /\ maxDims' = [i \in Dim |-> IF after[i] THEN maxDims[i] ELSE (p[i] - 1) % SizeMod]
        <4> DEFINE a == [i \in Dim |->
                          (request.offset[i] >= FileDomain(file).offset[i]) = TRUE]
        <4> WITNESS a \in [Dim -> BOOLEAN]
        <4>1. \A i \in Dim : a[i] <=> request.offset[i] >= FileDomain(file).offset[i]
          OBVIOUS
        <4>2. QED
          BY <2>5, <4>1, Zenon DEF Narrow
      <3>3. minDims' \in [Dim -> 0..SizeMod - 1] /\ maxDims' \in [Dim -> 0..SizeMod - 1]
        BY <2>1, <3>1, <3>2 DEF BoundsInv, p
      <3>4. phase' \in {"first", "done"}
        BY <2>5 DEF Narrow
      <3>5. QED
        BY <2>1, <2>2, <3>3, <3>4 DEF BoundsInv, p
    <2>6. QED
      BY <2>3, <2>4, <2>5
  <1>4. CASE Walk
    <2>1. UNCHANGED <<minDims, currentPos>>
      BY <1>4 DEF Walk
    <2>2. phase' \in {"walk", "done"}
      BY <1>4, Zenon DEF Walk, Advance
    <2>3. \/ maxDims' = maxDims
          \/ maxDims' = [maxDims EXCEPT ![1] = Pred(1, lin[1] % mpiSize[1])]
          \/ maxDims' = [maxDims EXCEPT ![2] = Pred(2, row)]
      BY <1>4, Zenon DEF Walk
    <2>4. Pred(1, lin[1] % mpiSize[1]) \in 0..SizeMod - 1 /\ Pred(2, row) \in 0..SizeMod - 1
      <3>1. /\ 1 \in Dim /\ 2 \in Dim /\ lin[1] \in Int /\ mpiSize[1] \in Nat \ {0}
            /\ row \in Int /\ InputOK
        BY <1>0 DEF ReadInv, Dim
      <3>a. lin[1] % mpiSize[1] \in 0..mpiSize[1] - 1
        BY <3>1, ModInRange
      <3>2. lin[1] % mpiSize[1] \in Int
        BY <3>1, <3>a
      <3>3. /\ Pred(1, lin[1] % mpiSize[1]) \in 0..mpiSize[1] - 1
            /\ Pred(2, row) \in 0..mpiSize[2] - 1
        BY <3>1, <3>2, PredInRange
      <3>4. QED
        BY <3>1, <3>3, SizeFits
    <2>5. maxDims' \in [Dim -> 0..SizeMod - 1]
      <3> DEFINE a == Pred(1, lin[1] % mpiSize[1])
                 b == Pred(2, row)
      <3> HIDE DEF a, b
      <3>1. maxDims' \in {maxDims, [maxDims EXCEPT ![1] = a], [maxDims EXCEPT ![2] = b]}
        BY <2>3 DEF a, b
      <3>2. a \in 0..SizeMod - 1 /\ b \in 0..SizeMod - 1
        BY <2>4 DEF a, b
      <3>3. QED
        BY <3>1, <3>2 DEF BoundsInv
    <2>6. QED
      BY <2>1, <2>2, <2>5 DEF BoundsInv
  <1>5. QED
    BY <1>1, <1>2, <1>3, <1>4 DEF Next, Progress

LEMMA OutsideNext ==
    ASSUME ReadInv, GridInv, OutsideInv, [Next]_vars
    PROVE  OutsideInv'
  <1>1. UNCHANGED files
    BY DEF Next, Progress, FindZero, ChooseHalf, FindFirst, StartWalk, Narrow, FindNoFile, Walk,
           Throws, Finished, vars
  <1>2. \A f : First(f)' <=> First(f)
    BY <1>1, FirstStays
  <1>3. SUFFICES ASSUME \A f : ~First(f), container = <<>>, phase # "walk"
                 PROVE  container' = <<>> /\ phase' # "walk"
    BY <1>2 DEF OutsideInv
  <1>4. CASE FindZero \/ ChooseHalf \/ FindNoFile \/ Throws \/ Finished \/ UNCHANGED vars
    <2>1. container' = container
      BY <1>4 DEF FindZero, ChooseHalf, FindNoFile, Throws, Finished, vars, walkVars
    <2>2. phase' \in {"zero", "half", "first", "thrown", phase}
      BY <1>4 DEF FindZero, ChooseHalf, FindNoFile, Throws, Finished, vars
    <2>3. QED
      BY <1>3, <2>1, <2>2
  <1>5. CASE FindFirst
    <2>1. PICK file \in FilesBehind(Middle) :
            IF Intersect([offset |-> request.offset, size |-> Ones], FileDomain(file))
            THEN StartWalk(Middle)
            ELSE Narrow(Middle, file)
      BY <1>5 DEF FindFirst
    <2>2. file \in Positions
      <3>1. Zero \in Positions \/ merged
        BY DEF GridInv, Zero, Ones, Positions
      <3>2. QED
        BY <3>1 DEF FilesBehind
    <2>3. ~Intersect([offset |-> request.offset, size |-> Ones], FileDomain(file))
      <3>1. SUFFICES ASSUME Intersect([offset |-> request.offset, size |-> Ones],
                                      FileDomain(file))
                     PROVE  First(file)
        BY <1>3
      <3>2. ASSUME NEW i \in Dim
            PROVE  /\ file[i] \in 0..mpiSize[i] - 1 /\ file[i] \in Nat
                   /\ cells[i][file[i]].offset <= request.offset[i]
                   /\ request.offset[i] < cells[i][file[i]].offset + cells[i][file[i]].size
        <4>1. file[i] \in 0..mpiSize[i] - 1 /\ mpiSize[i] \in Nat \ {0}
          BY <2>2, SizesPositive DEF Positions, Dim, GridInv
        <4>2. request.offset[i] \in Nat /\ cells[i][file[i]].offset \in Nat
          BY <4>1 DEF GridInv, InputOK
        <4>3. /\ request.offset[i] < cells[i][file[i]].offset + cells[i][file[i]].size
              /\ cells[i][file[i]].offset < request.offset[i] + 1
          BY <3>1 DEF Intersect, End, FileDomain, Ones, Dim
        <4> DEFINE a == cells[i][file[i]].offset
                   b == request.offset[i]
        <4> HIDE DEF a, b
        <4>4. a <= b
          BY <4>2, <4>3 DEF a, b
        <4>5. QED
          BY <4>1, <4>3, <4>4 DEF a, b
      <3>3. file \in [Dim -> Nat]
        BY <2>2, <3>2 DEF Positions, Dim
      <3>4. QED
        BY <3>2, <3>3 DEF First
    <2>4. Narrow(Middle, file)
      BY <2>1, <2>3
    <2>5. QED
      BY <1>3, <2>4 DEF Narrow, walkVars
  <1>6. CASE Walk
    BY <1>3, <1>6 DEF Walk
  <1>7. QED
    BY <1>4, <1>5, <1>6 DEF Next, Progress

LEMMA SearchNext == SearchInv /\ [Next]_vars => SearchInv'
  <1> SUFFICES ASSUME SearchInv, [Next]_vars PROVE SearchInv'
    OBVIOUS
  <1>1. UNCHANGED files
    BY DEF Next, Progress, FindZero, ChooseHalf, FindFirst, StartWalk, Narrow, FindNoFile, Walk,
           Throws, Finished, vars
  <1>2. ReadInv /\ GridInv /\ BoundsInv /\ OutsideInv
    BY DEF SearchInv
  <1>3. PICK k : /\ Shifts(k) /\ ZeroInv(k)
                 /\ \A f : First(f) => \E m : Counts(f, m) /\ FoundInv(k, f, m)
    BY DEF SearchInv
  <1>4. ReadInv' /\ GridInv' /\ OutsideInv'
    BY <1>1, <1>2, ReadNext, GridStays, OutsideNext
  <1>5. BoundsInv'
    BY <1>2, <1>3, BoundsNext
  <1>6. Shifts(k)' /\ ZeroInv(k)'
    BY <1>1, <1>2, <1>3, ZeroNext, FirstStays
  <1>7. ASSUME NEW f, First(f)'
        PROVE  \E m : Counts(f, m)' /\ FoundInv(k, f, m)'
    <2>1. First(f)
      BY <1>1, <1>7, FirstStays
    <2>2. PICK m : Counts(f, m) /\ FoundInv(k, f, m)
      BY <1>3, <2>1
    <2>3. FoundInv(k, f, m)'
      BY <1>2, <1>3, <2>1, <2>2, FoundNext
    <2>4. Counts(f, m)'
      BY <1>1, <2>2, FirstStays
    <2>5. QED
      BY <2>3, <2>4
  <1>8. QED
    BY <1>4, <1>5, <1>6, <1>7 DEF SearchInv

\* DomainCollector.cpp:451-679. The invariant of the searches and the walk of
\* readDomain.
THEOREM Searches == Spec => []SearchInv
  BY SearchInit, SearchNext, PTL DEF Spec


-----------------------------------------------------------------------------
(* What readDomain promises *)

LEMMA FirstExists == GridInv /\ BeginsInside => \E f : First(f)
  <1> SUFFICES ASSUME GridInv, BeginsInside PROVE \E f : First(f)
    OBVIOUS
  <1> DEFINE OK(i, p) == /\ cells[i][p].offset <= request.offset[i]
                         /\ request.offset[i] < cells[i][p].offset + cells[i][p].size
             f == [i \in Dim |-> CHOOSE p \in 0..mpiSize[i] - 1 : OK(i, p)]
  <1>1. ASSUME NEW i \in Dim PROVE f[i] \in 0..mpiSize[i] - 1 /\ OK(i, f[i])
    <2>1. \E p \in 0..mpiSize[i] - 1 : OK(i, p)
      BY DEF BeginsInside
    <2>2. f[i] = CHOOSE p \in 0..mpiSize[i] - 1 : OK(i, p)
      OBVIOUS
    <2> HIDE DEF f, OK
    <2>3. QED
      BY <2>1, <2>2, Zenon
  <1>2. f = [i \in Dim |-> f[i]]
    OBVIOUS
  <1> HIDE DEF f
  <1>3. \A i \in Dim : f[i] \in Nat
    BY <1>1
  <1>4. f \in [Dim -> Nat]
    BY <1>2, <1>3
  <1>5. QED
    BY <1>1, <1>4 DEF First

LEMMA WantedMeets ==
    ASSUME InputOK, NEW p \in Positions
    PROVE  p \in Wanted <=> \A i \in Dim : Meet(i, p[i])
  <1>1. ASSUME NEW i \in Dim
        PROVE  (\E g \in request.offset[i]..End(request)[i] - 1 :
                   FileDomain(p).offset[i] <= g /\ g < End(FileDomain(p))[i])
               <=> Meet(i, p[i])
    <2> DEFINE ro == request.offset[i]
               re == request.offset[i] + request.size[i]
               co == cells[i][p[i]].offset
               ce == cells[i][p[i]].offset + cells[i][p[i]].size
    <2>1. p[i] \in 0..mpiSize[i] - 1
      BY DEF Positions, Dim
    <2>2. ro \in Nat /\ re \in Nat /\ co \in Nat /\ ce \in Nat /\ ro < re /\ co < ce
      BY <2>1 DEF InputOK
    <2>3. /\ End(request)[i] = re /\ FileDomain(p).offset[i] = co /\ End(FileDomain(p))[i] = ce
      BY DEF End, FileDomain
    <2>4. Meet(i, p[i]) <=> ro < ce /\ co < re
      BY DEF Meet
    <2> HIDE DEF ro, re, co, ce
    <2>5. (\E g \in ro..re - 1 : co <= g /\ g < ce) <=> ro < ce /\ co < re
      <3>1. ASSUME ro < ce, co < re PROVE \E g \in ro..re - 1 : co <= g /\ g < ce
        <4> DEFINE g == IF ro <= co THEN co ELSE ro
        <4>1. g \in ro..re - 1 /\ co <= g /\ g < ce
          BY <2>2, <3>1
        <4>2. QED
          BY <4>1
      <3>2. ASSUME NEW g \in ro..re - 1, co <= g, g < ce PROVE ro < ce /\ co < re
        BY <2>2, <3>2
      <3>3. QED
        BY <3>1, <3>2
    <2>6. QED
      BY <2>3, <2>4, <2>5 DEF ro
  <1>2. QED
    BY <1>1 DEF Wanted

LEMMA EveryPlace ==
    ASSUME InputOK, NEW f, First(f), NEW p \in Positions
    PROVE  \E a \in 0..mpiSize[1] - 1, b \in 0..mpiSize[2] - 1, c \in 0..mpiSize[3] - 1 :
              p = Place(f, a, b, c)
  <1>1. ASSUME NEW i \in Dim PROVE \E u \in 0..mpiSize[i] - 1 : At(i, f, u) = p[i]
    <2>1. /\ p[i] \in 0..mpiSize[i] - 1 /\ mpiSize[i] \in Nat \ {0}
          /\ f[i] \in 0..mpiSize[i] - 1
      BY SizesPositive DEF Positions, Dim, First
    <2>2. QED
      BY <2>1, AtSurjective
  <1>2. 1 \in Dim /\ 2 \in Dim /\ 3 \in Dim
    BY DEF Dim
  <1>3. PICK a \in 0..mpiSize[1] - 1 : At(1, f, a) = p[1]
    BY <1>1, <1>2
  <1>4. PICK b \in 0..mpiSize[2] - 1 : At(2, f, b) = p[2]
    BY <1>1, <1>2
  <1>5. PICK c \in 0..mpiSize[3] - 1 : At(3, f, c) = p[3]
    BY <1>1, <1>2
  <1>6. p = <<p[1], p[2], p[3]>>
    BY DEF Positions
  <1>7. p = Place(f, a, b, c)
    BY <1>3, <1>4, <1>5, <1>6 DEF Place
  <1>8. QED
    BY <1>7

LEMMA AllAreWanted ==
    ASSUME ReadInv, NEW f, First(f), NEW m, Counts(f, m),
           SeenAll(Range(container), f, m)
    PROVE  Range(container) = Wanted
  <1>0. InputOK
    BY DEF ReadInv
  <1>1. Range(container) \subseteq Positions
    BY DEF ReadInv, Range
  <1>2. Wanted \subseteq Positions
    BY DEF Wanted
  <1>3. ASSUME NEW p \in Positions PROVE p \in Range(container) <=> p \in Wanted
    <2>1. PICK a \in 0..mpiSize[1] - 1, b \in 0..mpiSize[2] - 1, c \in 0..mpiSize[3] - 1 :
            p = Place(f, a, b, c)
      BY <1>0, EveryPlace
    <2>2. c < mpiSize[3]
      <3>1. mpiSize[3] \in Nat \ {0}
        BY <1>0, Numbers
      <3>2. QED
        BY <3>1
    <2>3. p \in Range(container) <=> a < m[1] /\ b < m[2] /\ c < m[3]
      BY <2>1, <2>2 DEF SeenAll, Seen, Before
    <2>4. Intersect(request, FileDomain(p)) <=> a < m[1] /\ b < m[2] /\ c < m[3]
      BY <1>0, <2>1, PlaceMeets
    <2>5. Intersect(request, FileDomain(p)) <=> \A i \in Dim : Meet(i, p[i])
      BY DEF Intersect, End, FileDomain, Meet
    <2>6. QED
      BY <1>0, <2>3, <2>4, <2>5, WantedMeets
  <1>4. QED
    BY <1>1, <1>2, <1>3

\* DomainCollector.cpp:451-679. The search and the walk of readDomain compute with
\* numbers of type size_t, and what they count is one.
THEOREM TypeCorrect == Spec => []TypeOK
  <1>1. SearchInv => TypeOK
    <2> SUFFICES ASSUME SearchInv PROVE TypeOK
      OBVIOUS
    <2>1. ReadInv /\ GridInv /\ BoundsInv
      BY DEF SearchInv
    <2>2. PICK k : ZeroInv(k)
      BY DEF SearchInv
    <2>3. ASSUME NEW i \in Dim
          PROVE  /\ belowZero[i] \in 0..SizeMod - 1 /\ aboveZero[i] \in 0..SizeMod - 1
                 /\ delta[i] \in 0..SizeMod - 1
      <3>1. /\ belowZero[i] \in 0..mpiSize[i] - 1 /\ aboveZero[i] \in 0..mpiSize[i] - 1
            /\ delta[i] \in 0..mpiSize[i] - 1
        BY <2>2 DEF ZeroInv
      <3>2. QED
        BY <2>1, <3>1, SizeFits
    <2>4. /\ belowZero \in [Dim -> 0..SizeMod - 1] /\ aboveZero \in [Dim -> 0..SizeMod - 1]
          /\ delta \in [Dim -> 0..SizeMod - 1]
      BY <2>1, <2>3 DEF ReadInv
    <2>5. QED
      BY <2>1, <2>4 DEF TypeOK, ReadInv, BoundsInv
  <1>2. QED
    BY <1>1, Searches, PTL

\* DomainCollector.cpp:471-589. However the grid is rotated over the files, a request
\* that begins in the domain makes the two searches ask for MPI positions that exist.
THEOREM PositionsAreReal == Spec => []PositionsExist
  <1>1. SearchInv => PositionsExist
    <2> SUFFICES ASSUME SearchInv, BeginsInside,
                        NEW p \in {belowZero, aboveZero, minDims, maxDims, currentPos}
                 PROVE  p \in Positions
      BY DEF PositionsExist
    <2>1. ReadInv /\ GridInv /\ BoundsInv
      BY DEF SearchInv
    <2>2. PICK f : First(f)
      BY <2>1, FirstExists
    <2>3. PICK k : ZeroInv(k) /\ \E m : FoundInv(k, f, m)
      BY <2>2 DEF SearchInv
    <2>4. RangesInv
      BY <2>3 DEF FoundInv
    <2>5. \A i \in Dim : p[i] \in 0..mpiSize[i] - 1
      BY <2>3, <2>4 DEF ZeroInv, RangesInv
    <2>6. p \in [Dim -> Nat]
      <3>1. [Dim -> 0..SizeMod - 1] \subseteq [Dim -> Nat]
        OBVIOUS
      <3>2. QED
        BY <2>1, <3>1 DEF ReadInv, BoundsInv
    <2>7. QED
      BY <2>5, <2>6, PositionTriple
  <1>2. QED
    BY <1>1, Searches, PTL

\* DomainCollector.cpp:451-679. When readDomain returns, a request that begins in the
\* domain has got the data of every file that it intersects, and of no other file.
THEOREM EveryFileIsRead == Spec => []EveryFileRead
  <1>1. SearchInv => EveryFileRead
    <2> SUFFICES ASSUME SearchInv, phase = "done", BeginsInside
                 PROVE  Range(container) = Wanted
      BY DEF EveryFileRead
    <2>1. ReadInv /\ GridInv
      BY DEF SearchInv
    <2>2. PICK f : First(f)
      BY <2>1, FirstExists
    <2>3. PICK k : \E m : Counts(f, m) /\ FoundInv(k, f, m)
      BY <2>2 DEF SearchInv
    <2>4. PICK m : Counts(f, m) /\ FoundInv(k, f, m)
      BY <2>3
    <2>5. SeenAll(Range(container), f, m)
      BY <2>4 DEF FoundInv
    <2>6. QED
      BY <2>1, <2>2, <2>4, <2>5, AllAreWanted
  <1>2. QED
    BY <1>1, Searches, PTL

\* DataContainer.hpp:73-94. The container of readDomain spans its entries: nothing
\* added later begins before the first entry, so that add() need not widen its size
\* downwards.
THEOREM Spans == Spec => []ContainerSpansEntries
  <1>1. SearchInv => ContainerSpansEntries
    <2> SUFFICES ASSUME SearchInv, container # <<>>, NEW i \in Dim
                 PROVE  LET entries == {FileDomain(p) : p \in Range(container)} IN
                        /\ \A d \in entries : /\ extent.offset[i] <= d.offset[i]
                                              /\ End(d)[i] <= End(extent)[i]
                        /\ \E d \in entries : d.offset[i] = extent.offset[i]
                        /\ \E d \in entries : End(d)[i] = End(extent)[i]
      BY Zenon DEF ContainerSpansEntries
    <2>1. OutsideInv
      BY DEF SearchInv
    <2>2. PICK f : First(f)
      BY <2>1 DEF OutsideInv
    <2>3. PICK k : \E m : FoundInv(k, f, m)
      BY <2>2 DEF SearchInv
    <2>4. SpanInv(f)
      BY <2>3 DEF FoundInv
    <2>5. \A p : /\ FileDomain(p).offset[i] = Begin(i, p[i])
                 /\ End(FileDomain(p))[i] = Stop(i, p[i])
      BY DEF FileDomain, End, Begin, Stop
    <2>6. End(extent)[i] = extent.offset[i] + extent.size[i]
      BY DEF End
    <2>7. /\ f \in Range(container) /\ extent.offset[i] = Begin(i, f[i])
          /\ \A p \in Range(container) :
               /\ extent.offset[i] <= Begin(i, p[i])
               /\ Stop(i, p[i]) <= extent.offset[i] + extent.size[i]
          /\ \E p \in Range(container) : Stop(i, p[i]) = extent.offset[i] + extent.size[i]
      BY <2>4 DEF SpanInv
    <2>8. QED
      BY <2>5, <2>6, <2>7
  <1>2. QED
    BY <1>1, Searches, PTL

\* DomainCollector.cpp:597-673. The positions the walk visits are positions of the
\* topology, and the files it adds to the container intersect the request, wherever
\* the request begins.
THEOREM Reads == Spec => []ReadInv
  <1>1. SearchInv => ReadInv
    BY DEF SearchInv
  <1>2. QED
    BY <1>1, Searches, PTL

\* DomainCollector.cpp:213-246. Every file that readDomain adds for GridType
\* data is copied exactly: the cells it has in common with the request, each
\* from its place in the file to its place in the buffer.
THEOREM PiecesExact == Spec => []GridPieceExact
  BY Reads, PiecesOfReads, PTL
=============================================================================
