---------------------------- MODULE DomainReader ----------------------------
(***************************************************************************)
(* DomainCollector::readDomain: which files of a simulation hold the part   *)
(* of the domain that is asked for. Every MPI process wrote one cuboid of a *)
(* regular grid to its file. The reader does not look at all of them: it    *)
(* searches for the file where the domain begins (a moving window rotates   *)
(* the grid over the MPI positions), then for the file that holds the first *)
(* cell of the request, and walks from there through its neighbours,        *)
(* periodically, until they no longer intersect the request.                *)
(*                                                                          *)
(* An action is one iteration of one of its loops. The data is of PolyType  *)
(* and no file is empty, so that every visited file adds one entry to the   *)
(* container; of GridType data, where the piece of a file goes is modelled  *)
(* for every visited file (GridPiece).                                      *)
(*                                                                          *)
(* A definition named ...Mutant is a plausible bug: in place of the         *)
(* definition that follows it, it breaks a property of the module.          *)
(***************************************************************************)
EXTENDS Integers, Sequences, FiniteSets, Functions

CONSTANTS
    Topologies,     \* MPI sizes of merged reads: triples
    CellSizes,      \* dimension -> extents a local domain may have in it
    Origins,        \* dimension -> offsets the global domain may have in it
    Margin,         \* how far a request may reach past the global domain
    AskOutside,     \* whether requests may begin outside the global domain
    SizeMod,        \* 2^(bits of size_t), scaled down
    IndexMod        \* 2^(bits of uint32_t), scaled down

ASSUME DomainAssumption ==
    /\ Topologies \subseteq (Nat \ {0}) \X (Nat \ {0}) \X (Nat \ {0})
    /\ CellSizes \in [1..3 -> SUBSET (Nat \ {0})]
    /\ Origins \in [1..3 -> SUBSET Nat]
    /\ Margin \in Nat
    /\ AskOutside \in BOOLEAN
    /\ IndexMod \in Nat \ {0} /\ SizeMod \in Nat \ {0}
    /\ \A n \in Topologies : \A i \in 1..3 : n[i] < SizeMod

VARIABLES
    merged,         \* FST_MERGING; otherwise FST_READING, and one file
    mpiSize,
    cells,          \* dimension -> position -> [offset, size], global cells
    globalOffset,   \* offset of the global domain, as the last file has it
    request,        \* [offset, size], requestDomain
    phase,
    belowZero, aboveZero, delta,
    minDims, maxDims, currentPos,
    lin,            \* x_lin, y_lin, z_lin
    row,            \* y
    container,      \* MPI positions of the entries added, in order
    extent          \* offset and size of the DataContainer

files == <<merged, mpiSize, cells, globalOffset, request>>
zeroVars == <<belowZero, aboveZero, delta>>
rangeVars == <<minDims, maxDims, currentPos>>
walkVars == <<lin, row, container, extent>>
vars == <<files, phase, zeroVars, rangeVars, walkVars>>

Dim == 1..3
Zero == <<0, 0, 0>>
Ones == <<1, 1, 1>>
Half(a, b) == (b - a + 1) \div 2      \* ceil((b - a) / 2.0)

Positions == (0..mpiSize[1] - 1) \X (0..mpiSize[2] - 1) \X (0..mpiSize[3] - 1)

End(d) == [i \in Dim |-> d.offset[i] + d.size[i]]

\* Domain::testIntersection.
Intersect(d, e) ==
    \A i \in Dim : d.offset[i] < End(e)[i] /\ e.offset[i] < End(d)[i]

\* The domain annotated in the file of a position, its global offset added.
FileDomain(pos) ==
    [offset |-> [i \in Dim |-> cells[i][pos[i]].offset],
     size   |-> [i \in Dim |-> cells[i][pos[i]].size]]

\* One dimension of the grid: the slots lie one behind the other from origin,
\* and position p holds slot p - shift.
Line(sizes, shift, origin) ==
    LET begin[j \in DOMAIN sizes] ==
            IF j = 0 THEN origin ELSE begin[j - 1] + sizes[j - 1]
        slot(p) == (p - shift) % Cardinality(DOMAIN sizes)
    IN  [p \in DOMAIN sizes |->
           [offset |-> begin[slot(p)], size |-> sizes[slot(p)]]]

Lines(i) == LET n == mpiSize[i] IN
    {Line(s, k, o) : s \in [0..n - 1 -> CellSizes[i]], k \in 0..n - 1,
                     o \in Origins[i]}

LineEnd(line) == SumFunction([p \in DOMAIN line |-> line[p].size])

LineOrigin(line) ==
    CHOOSE o \in {line[p].offset : p \in DOMAIN line} :
        \A p \in DOMAIN line : o <= line[p].offset

Requests(line) ==
    LET first == LineOrigin(line)
        last == first + LineEnd(line)
        begins == IF AskOutside THEN 0..last + Margin ELSE first..last - 1
    IN  {r \in begins \X (1..last + Margin) : r[1] + r[2] <= last + Margin}

-----------------------------------------------------------------------------
\* readDomain up to its first loop. A single file is one of a larger grid: its
\* domain may begin behind the global offset.
Init ==
    /\ merged \in BOOLEAN
    /\ mpiSize \in IF merged THEN Topologies ELSE {Ones}
    /\ cells \in {<<a, b, c>> : a \in Lines(1), b \in Lines(2), c \in Lines(3)}
    /\ globalOffset \in
        IF merged THEN {[i \in Dim |-> LineOrigin(cells[i])]}
        ELSE {o \in Origins[1] \X Origins[2] \X Origins[3] :
                \A i \in Dim : o[i] <= cells[i][0].offset}
    /\ request \in
        {[offset |-> <<a[1], b[1], c[1]>>, size |-> <<a[2], b[2], c[2]>>] :
            a \in Requests(cells[1]), b \in Requests(cells[2]),
            c \in Requests(cells[3])}
    /\ phase = "zero"
    /\ belowZero = Zero
    /\ aboveZero = [i \in Dim |-> mpiSize[i] - 1]
    /\ delta = Zero
    /\ minDims = Zero
    /\ maxDims = [i \in Dim |-> mpiSize[i] - 1]
    /\ currentPos = Zero
    /\ lin = Zero
    /\ row = 0
    /\ container = <<>>
    /\ extent = [offset |-> Zero, size |-> Ones]

-----------------------------------------------------------------------------
(* The file behind an MPI position *)

\* Table index of a position: computed in size_t, kept in uint32_t.
IndexFromPos(pos) ==
    ((pos[1] + pos[2] * mpiSize[1] + pos[3] * mpiSize[1] * mpiSize[2])
        % SizeMod) % IndexMod

\* A single file answers for every position. Of a merged session a position
\* outside the topology names a file that does not exist, but its index may be
\* that of a handle which is open.
FilesBehind(pos) ==
    IF ~merged THEN {Zero}
    ELSE IF pos \in Positions THEN {pos}
    ELSE {p \in Positions : IndexFromPos(p) = IndexFromPos(pos)}

\* openDatasetHandle, an attribute or a read fails: readDomain throws.
Throws ==
    /\ phase \in {"zero", "half", "first", "walk"}
    /\ phase' = "thrown"
    /\ UNCHANGED <<files, zeroVars, rangeVars, walkVars>>

-----------------------------------------------------------------------------
(* Where the global domain begins *)

\* One dimension of one step: what happens to belowZero, aboveZero and delta
\* when the files there begin at lo and hi.
ZeroStepMutant(below, above, d, lo, hi, origin) ==
    IF lo > hi THEN [below |-> (below + Half(below, above)) % SizeMod,
                     above |-> above,
                     delta |-> Half(below, above)]
    ELSE IF lo = origin THEN [below |-> below, above |-> above, delta |-> d]
    ELSE [below |-> (below - d) % SizeMod, above |-> (above - d) % SizeMod,
          delta |-> d]

ZeroStep(below, above, d, lo, hi, origin) ==
    IF lo > hi THEN [below |-> (below + Half(below, above)) % SizeMod,
                     above |-> above,
                     delta |-> Half(below, above)]
    ELSE IF lo = origin THEN [below |-> below, above |-> above, delta |-> 0]
    ELSE [below |-> (below - d) % SizeMod, above |-> (above - d) % SizeMod,
          delta |-> d]

FindZero ==
    /\ phase = "zero"
    /\ \E lo \in FilesBehind(belowZero), hi \in FilesBehind(aboveZero) :
         LET step == [i \in Dim |->
                        ZeroStep(belowZero[i], aboveZero[i], delta[i],
                                 FileDomain(lo).offset[i],
                                 FileDomain(hi).offset[i], globalOffset[i])]
         IN  /\ belowZero' = [i \in Dim |-> step[i].below]
             /\ aboveZero' = [i \in Dim |-> step[i].above]
             /\ delta' = [i \in Dim |-> step[i].delta]
    /\ phase' = IF delta' = Zero THEN "half" ELSE "zero"
    /\ UNCHANGED <<files, rangeVars, walkVars>>

\* Whether the request begins in the files from belowZero to the last one or
\* in those before belowZero.
ChooseHalfMutant ==
    LET last == FileDomain([i \in Dim |-> mpiSize[i] - 1])
        behind(i) == request.offset[i] < End(last)[i]
    IN  /\ phase = "half"
        /\ minDims' = [i \in Dim |-> IF behind(i) THEN belowZero[i] ELSE 0]
        /\ maxDims' = [i \in Dim |-> IF behind(i) THEN mpiSize[i] - 1
                                     ELSE IF belowZero[i] > 2
                                     THEN belowZero[i] - 2 ELSE 0]
        /\ currentPos' = minDims'
        /\ phase' = "first"
        /\ UNCHANGED <<files, zeroVars, walkVars>>

ChooseHalf ==
    LET last == FileDomain([i \in Dim |-> mpiSize[i] - 1])
        behind(i) == request.offset[i] < End(last)[i]
    IN  /\ phase = "half"
        /\ minDims' = [i \in Dim |-> IF behind(i) THEN belowZero[i] ELSE 0]
        /\ maxDims' = [i \in Dim |-> IF behind(i) THEN mpiSize[i] - 1
                                     ELSE IF belowZero[i] > 1
                                     THEN belowZero[i] - 1 ELSE 0]
        /\ currentPos' = minDims'
        /\ phase' = "first"
        /\ UNCHANGED <<files, zeroVars, walkVars>>

-----------------------------------------------------------------------------
(* The file that holds the first cell of the request *)

Middle == [i \in Dim |-> (minDims[i] + Half(minDims[i], maxDims[i])) % SizeMod]

StartWalkMutant(pos) ==
    /\ minDims' = pos
    /\ maxDims' = [i \in Dim |-> pos[i] + mpiSize[i] - 1]
    /\ lin' = pos
    /\ row' = pos[2] % mpiSize[2]
    /\ phase' = "walk"
    /\ UNCHANGED <<files, zeroVars, container, extent>>

\* The walk starts here; its ranges end at the periodic predecessor.
StartWalk(pos) ==
    /\ minDims' = pos
    /\ maxDims' = [i \in Dim |-> (pos[i] + mpiSize[i] - 1) % mpiSize[i]]
    /\ lin' = pos
    /\ row' = pos[2] % mpiSize[2]
    /\ phase' = "walk"
    /\ UNCHANGED <<files, zeroVars, container, extent>>

\* Halves the range; it ends without a result when the middle stays put.
Narrow(pos, file) ==
    LET after(i) == request.offset[i] >= FileDomain(file).offset[i] IN
    /\ minDims' = [i \in Dim |-> IF after(i) THEN pos[i] ELSE minDims[i]]
    /\ maxDims' = [i \in Dim |-> IF after(i) THEN maxDims[i]
                                 ELSE (pos[i] - 1) % SizeMod]
    /\ phase' = IF pos = currentPos THEN "done" ELSE "first"
    /\ UNCHANGED <<files, zeroVars, walkVars>>

FindFirst ==
    /\ phase = "first"
    /\ \E file \in FilesBehind(Middle) :
         IF Intersect([offset |-> request.offset, size |-> Ones],
                      FileDomain(file))
         THEN StartWalk(Middle)
         ELSE Narrow(Middle, file)
    /\ currentPos' = Middle

\* The middle of the range is no position of the topology, and no handle is
\* open under its index.
FindNoFile ==
    /\ phase = "first"
    /\ FilesBehind(Middle) = {}
    /\ phase' = "thrown"
    /\ UNCHANGED <<files, zeroVars, rangeVars, walkVars>>

-----------------------------------------------------------------------------
(* The files that intersect the request *)

Pred(i, p) == (p + mpiSize[i] - 1) % mpiSize[i]

\* DataContainer::add: the extent of the container with one more entry.
ExtendMutant(d) ==
    [offset |-> IF container = <<>> THEN d.offset ELSE extent.offset,
     size   |-> [i \in Dim |-> End(d)[i] - extent.offset[i]]]

Extend(d) ==
    LET offset == IF container = <<>> THEN d.offset
                  ELSE [i \in Dim |-> IF d.offset[i] < extent.offset[i]
                                      THEN d.offset[i] ELSE extent.offset[i]]
    IN  [offset |-> offset,
         size   |-> [i \in Dim |->
                       LET s == End(d)[i] - offset[i] IN
                       IF s > extent.size[i] THEN s ELSE extent.size[i]]]

AdvanceMutant(x, y, z, max) ==
    IF x # max[1]
    THEN lin' = [lin EXCEPT ![1] = @ + 1] /\ row' = y /\ phase' = "walk"
    ELSE IF y # max[2]
    THEN /\ lin' = <<minDims[1], lin[2] + 1, lin[3]>>
         /\ row' = lin[2] + 1
         /\ phase' = "walk"
    ELSE /\ lin' = <<minDims[1], minDims[2], lin[3] + 1>>
         /\ row' = minDims[2] % mpiSize[2]
         /\ phase' = IF z # max[3] THEN "walk" ELSE "done"

\* After the file at x: the next one in the row, in the next row, in the next
\* plane, or the end. max is maxDims with what this step cut off.
Advance(x, y, z, max) ==
    IF x # max[1]
    THEN lin' = [lin EXCEPT ![1] = @ + 1] /\ row' = y /\ phase' = "walk"
    ELSE IF y # max[2]
    THEN /\ lin' = <<minDims[1], lin[2] + 1, lin[3]>>
         /\ row' = (lin[2] + 1) % mpiSize[2]
         /\ phase' = "walk"
    ELSE /\ lin' = <<minDims[1], minDims[2], lin[3] + 1>>
         /\ row' = minDims[2] % mpiSize[2]
         /\ phase' = IF z # max[3] THEN "walk" ELSE "done"

Walk ==
    LET x == lin[1] % mpiSize[1]
        z == lin[3] % mpiSize[3]
        file == FileDomain(<<x, row, z>>)
    IN  /\ phase = "walk"
        /\ IF Intersect(request, file)
           THEN /\ container' = Append(container, <<x, row, z>>)
                /\ extent' = Extend(file)
                /\ UNCHANGED maxDims
                /\ Advance(x, row, z, maxDims)
           ELSE /\ UNCHANGED <<container, extent>>
                /\ IF z # minDims[3]
                   THEN phase' = "done" /\ UNCHANGED <<maxDims, lin, row>>
                   ELSE IF row = minDims[2]
                   THEN /\ maxDims' = [maxDims EXCEPT ![1] = Pred(1, x)]
                        /\ Advance(Pred(1, x), row, z, maxDims')
                   ELSE /\ maxDims' = [maxDims EXCEPT ![2] = Pred(2, row)]
                        /\ Advance(x, Pred(2, row), z, maxDims')
        /\ UNCHANGED <<files, zeroVars, minDims, currentPos>>

Finished == phase \in {"done", "thrown"} /\ UNCHANGED vars

Progress == FindZero \/ ChooseHalf \/ FindFirst \/ FindNoFile \/ Walk

Next == Progress \/ Throws \/ Finished

\* readDomain is one call of one thread: it goes on until it returns, and an
\* error may but need not happen. A loop whose iteration changes nothing does
\* not count as going on.
Spec == Init /\ [][Next]_vars /\ WF_vars(Progress)

-----------------------------------------------------------------------------
(* GridType: where the piece of a file goes in the destination buffer *)

GridPieceMutant(r, c, i) ==
    LET before == r.offset[i] <= c.offset[i]
        src == IF before THEN 0 ELSE r.offset[i] - c.offset[i]
    IN  [dst |-> IF c.offset[i] > r.offset[i] THEN c.offset[i] - r.offset[i] ELSE 0,
         src |-> src,
         size |-> IF End(r)[i] >= End(c)[i] THEN c.size[i] ELSE End(r)[i] - (c.offset[i] + src)]

GridPiece(r, c, i) ==
    LET before == r.offset[i] <= c.offset[i]
        src == IF before THEN 0 ELSE r.offset[i] - c.offset[i]
    IN  [dst |-> IF c.offset[i] > r.offset[i] THEN c.offset[i] - r.offset[i] ELSE 0,
         src |-> src,
         size |-> IF End(r)[i] >= End(c)[i] THEN c.size[i] - src
                  ELSE End(r)[i] - (c.offset[i] + src)]

-----------------------------------------------------------------------------
(* Properties *)

\* What the attributes of the files and the caller give: natural numbers, no
\* empty domain.
InputOK ==
    /\ mpiSize \in (Nat \ {0}) \X (Nat \ {0}) \X (Nat \ {0})
    /\ \A i \in Dim :
         /\ request.offset[i] \in Nat /\ request.size[i] \in Nat \ {0}
         /\ \A p \in 0..mpiSize[i] - 1 :
              cells[i][p].offset \in Nat /\ cells[i][p].size \in Nat \ {0}

TypeOK ==
    /\ InputOK
    /\ phase \in {"zero", "half", "first", "walk", "done", "thrown"}
    /\ \A d \in {belowZero, aboveZero, delta, minDims, maxDims, currentPos} :
          d \in [Dim -> 0..SizeMod - 1]
    /\ lin \in [Dim -> Nat] /\ row \in 0..mpiSize[2] - 1
    /\ container \in Seq(Positions)

\* The files that hold a cell of the request.
Wanted ==
    {p \in Positions :
        \A i \in Dim : \E g \in request.offset[i]..End(request)[i] - 1 :
            /\ FileDomain(p).offset[i] <= g
            /\ g < End(FileDomain(p))[i]}

BeginsInside ==
    \A i \in Dim : \E p \in 0..mpiSize[i] - 1 :
        /\ cells[i][p].offset <= request.offset[i]
        /\ request.offset[i] < cells[i][p].offset + cells[i][p].size

\* A request that begins in the global domain gets the data of every file it
\* intersects, however the grid is rotated over the files and however unequal
\* the local domains are.
EveryFileRead == phase = "done" /\ BeginsInside => Range(container) = Wanted

\* Such a request only makes readDomain ask for MPI positions that exist: its
\* unsigned arithmetic never wraps and its halving never leaves the topology.
PositionsExist ==
    BeginsInside =>
        \A p \in {belowZero, aboveZero, minDims, maxDims, currentPos} :
            p \in Positions

\* The container's offset and size span exactly its entries, although add()
\* never widens the size when the offset moves down.
ContainerSpansEntries ==
    container # <<>> =>
        LET entries == {FileDomain(p) : p \in Range(container)} IN
        \A i \in Dim :
            /\ \A d \in entries : /\ extent.offset[i] <= d.offset[i]
                                  /\ End(d)[i] <= End(extent)[i]
            /\ \E d \in entries : d.offset[i] = extent.offset[i]
            /\ \E d \in entries : End(d)[i] = End(extent)[i]

\* The cells of a file that are copied for GridType data are the common ones
\* of file and request, from their place in the file to their place in the
\* buffer.
GridPieceExact ==
    \A p \in Range(container), i \in Dim :
        LET c == FileDomain(p)
            piece == GridPiece(request, c, i)
            common == {g \in c.offset[i]..End(c)[i] - 1 :
                          request.offset[i] <= g /\ g < End(request)[i]}
        IN  {<<piece.src + k, piece.dst + k>> : k \in 0..piece.size - 1}
              = {<<g - c.offset[i], g - request.offset[i]>> : g \in common}

\* readDomain comes to an end.
Terminates == <>(phase \in {"done", "thrown"})

\* Every subdomain is in the container once.
EntriesDistinct == IsInjective(container)
=============================================================================
