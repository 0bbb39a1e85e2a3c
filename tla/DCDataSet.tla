----------------------------- MODULE DCDataSet ------------------------------
(***************************************************************************)
(* One dataset of an iteration: how it is created, written, extended and    *)
(* read. A SerialDataCollector writes it with one process, which selects    *)
(* from its buffer, and append() extends it. With a ParallelDataCollector   *)
(* every process of an MPI topology writes its part: in a collective        *)
(* write(), or after a collective reserve() in append() calls of its own.   *)
(* The processes tell each other the sizes of their parts and each computes *)
(* for itself where its part begins (gatherMPIWrites). DomainAttributes adds *)
(* the domain of the data, and reads any part of it back.                   *)
(*                                                                          *)
(* Sizes and positions are triples of x, y and z, as the callers have them. *)
(* The file has its dimensions in the opposite order: what is `physical' has *)
(* gone through SwapDims.                                                   *)
(*                                                                          *)
(* A definition named ...Mutant is a plausible bug: in place of the         *)
(* definition that follows it, it breaks a property of the module.          *)
(***************************************************************************)
EXTENDS Integers, Sequences, FiniteSets

CONSTANTS
    Programs,       \* [parallel, ndims, topology, extents, selections, appends,
                    \* calls]: ndims of its data; topology and extents of parts if
                    \* it is parallel, otherwise what it writes and appends (who
                    \* selects as much as the buffer has, selects it from its
                    \* beginning); how many calls it makes
    TypeSize,       \* bytes of an element
    ChunkSizes,     \* CHUNK_SIZES_KB in bytes, scaled down: a descending sequence
    SizeMod         \* 2^(bits of size_t), scaled down

ASSUME DataSetAssumption ==
    /\ TypeSize \in Nat \ {0} /\ SizeMod \in Nat \ {0}
    /\ ChunkSizes \in Seq(Nat \ {0}) /\ ChunkSizes # <<>>
    /\ \A i, j \in DOMAIN ChunkSizes :
         2 * ChunkSizes[i] <= SizeMod /\ (i < j => ChunkSizes[j] <= ChunkSizes[i])
    /\ \A p \in Programs :
         /\ p.parallel \in BOOLEAN /\ p.ndims \in 1..3 /\ p.calls \in Nat
         /\ p.topology \in (Nat \ {0}) \X (Nat \ {0}) \X (Nat \ {0})
         /\ p.extents \subseteq Nat
         /\ \A s \in p.selections :
              /\ s \in [size : Nat \X Nat \X Nat, count : Nat \X Nat \X Nat,
                        offset : Nat \X Nat \X Nat,
                        stride : (Nat \ {0}) \X (Nat \ {0}) \X (Nat \ {0})]
              /\ \A i \in p.ndims + 1..3 : s.count[i] = 1
              /\ s.count = s.size => s.offset = <<0, 0, 0>>
         /\ \A a \in p.appends :
              a.count \in Nat /\ a.offset \in Nat /\ a.stride \in Nat \ {0}

VARIABLES
    program,
    calls,          \* calls made that change the dataset
    dset,           \* the dataset in the file, or NoDataset
    local,          \* rank -> size of its part in the current call
    pending,        \* ranks that have not written their part
    last,           \* the last call: its kind, and how it ended
    expected        \* history: position -> element stored there by a call that
                    \* returned

vars == <<program, calls, dset, local, pending, last, expected>>

Dim == 1..3
Zero == <<0, 0, 0>>
Ones == <<1, 1, 1>>

Scalar(v) == v[1] * v[2] * v[3]
Plus(u, v) == [i \in Dim |-> u[i] + v[i]]
Box(size) == (0..size[1] - 1) \X (0..size[2] - 1) \X (0..size[3] - 1)
Product(f, n) == Scalar([i \in Dim |-> IF i <= n THEN f[i] ELSE 1])
Within(p, offset, size) == \A i \in Dim : offset[i] <= p[i] /\ p[i] < offset[i] + size[i]

\* Exchanges only the outer dimensions of two.
SwapDims(v, n) ==
    CASE n = 2 -> <<v[2], v[1], v[3]>>
      [] n = 3 -> <<v[3], v[2], v[1]>>
      [] OTHER -> v

\* The function old with the values of new.
Updated(old, new) ==
    [x \in DOMAIN old \union DOMAIN new |-> IF x \in DOMAIN new THEN new[x] ELSE old[x]]

NoDataset == [kind |-> "none"]
Fill == <<>>

-----------------------------------------------------------------------------
(* getOptimalChunkDims() *)

\* The multimap: by size, equal sizes by index.
DimsOrder(dims, n) ==
    CHOOSE order \in [1..n -> 1..n] : \A k, l \in 1..n :
        k < l => LET i == order[k]
                     j == order[l]
                 IN  dims[i] < dims[j] \/ (dims[i] = dims[j] /\ i < j)

HalfDim(d) == IF d \div 2 > 0 THEN d \div 2 ELSE 1

\* The first chunk size that leaves two chunks in each dimension, or the last.
TargetChunkSize(dims, n) ==
    LET most == TypeSize * Product([i \in 1..n |-> HalfDim(dims[i])], n)
        fits == {i \in DOMAIN ChunkSizes : ChunkSizes[i] <= most}
    IN  IF fits = {} THEN ChunkSizes[Len(ChunkSizes)]
        ELSE ChunkSizes[CHOOSE i \in fits : \A j \in fits : i <= j]

\* A chunk is doubled although it is then larger than the data.
CanGrowMutant(chunk, dims, i) == chunk[i] <= dims[i]

CanGrow(chunk, dims, i) == chunk[i] * 2 <= dims[i]

\* Doubles the chunk in one dimension after the other, as long as that brings it
\* closer to the target: a difference below zero wraps and is none.
OptimalChunkDims(dims, n) ==
    LET order == DimsOrder(dims, n)
        target == TargetChunkSize(dims, n)
        next(at, k) == order[((at + k - 1) % n) + 1]
        Grown[s \in 0..target] ==
            IF s = 0
            THEN [chunk |-> [i \in 1..n |-> 1], bytes |-> TypeSize,
                  diff |-> target, at |-> 0]
            ELSE LET g == Grown[s - 1]
                     diff == (target - g.bytes * 2) % SizeMod
                     grow == {k \in 1..n : CanGrow(g.chunk, dims, next(g.at, k))}
                     k == CHOOSE j \in grow : \A l \in grow : j <= l
                 IN  IF g.bytes >= target \/ diff >= g.diff \/ grow = {} THEN g
                     ELSE [chunk |-> [g.chunk EXCEPT ![next(g.at, k)] = @ * 2],
                           bytes |-> g.bytes * 2, diff |-> diff, at |-> (g.at + k) % n]
    IN  Grown[target].chunk

-----------------------------------------------------------------------------
(* DCDataSet *)

\* create(): a dataset of no elements has no extent.
Create(size, n, extensible) ==
    IF Scalar(size) = 0 THEN [kind |-> "null"]
    ELSE LET physical == SwapDims(size, n) IN
         [kind |-> IF extensible THEN "unlimited" ELSE "fixed",
          ndims |-> n, size |-> physical,
          chunk |-> OptimalChunkDims(physical, n),
          cells |-> [p \in Box(physical) |-> Fill]]

LogicalSize(d) == IF d.kind = "null" THEN Ones ELSE SwapDims(d.size, d.ndims)

\* A contiguous buffer, and all of it.
Whole(size) == [size |-> size, count |-> size, offset |-> Zero, stride |-> Ones]

SwapSelection(s, n) == [f \in DOMAIN s |-> SwapDims(s[f], n)]

\* HDF5 finds a selection valid: its last element lies in the extent.
SelectionFits(size, count, offset, stride) ==
    \A i \in Dim : offset[i] + (count[i] - 1) * stride[i] < size[i]

\* write(): which selections are made, and whether they are valid.
SelectsSource(s) ==
    Scalar(s.offset) # 0 \/ s.count # s.size \/ Scalar(s.stride) # 1

SelectsTarget(d, s, dst) == Scalar(dst) # 0 \/ s.count # d.size

WriteRefused(d, select, dstOffset) ==
    LET s == SwapSelection(select, d.ndims)
        dst == SwapDims(dstOffset, d.ndims)
    IN  /\ d.kind # "null" /\ Scalar(s.count) # 0
        /\ \/ SelectsSource(s) /\ ~SelectionFits(s.size, s.count, s.offset, s.stride)
           \/ SelectsTarget(d, s, dst) /\ ~SelectionFits(d.size, s.count, dst, Ones)

\* The offset in the dataset stays in the caller's order.
WriteMutant(d, select, dstOffset, who) ==
    LET s == SwapSelection(select, d.ndims)
        to == IF SelectsTarget(d, s, dstOffset) THEN dstOffset ELSE Zero
        from == IF SelectsSource(s) THEN s.offset ELSE Zero
        source(p) == [i \in Dim |-> from[i] + (p[i] - to[i]) * s.stride[i]]
    IN  IF d.kind = "null" THEN d
        ELSE [d EXCEPT !.cells = [p \in DOMAIN @ |->
                IF Within(p, to, s.count)
                THEN <<who, SwapDims(source(p), d.ndims)>> ELSE @[p]]]

\* write(): the elements of the selection go from the buffer of who to dstOffset.
Write(d, select, dstOffset, who) ==
    LET s == SwapSelection(select, d.ndims)
        dst == SwapDims(dstOffset, d.ndims)
        to == IF SelectsTarget(d, s, dst) THEN dst ELSE Zero
        from == IF SelectsSource(s) THEN s.offset ELSE Zero
        source(p) == [i \in Dim |-> from[i] + (p[i] - to[i]) * s.stride[i]]
    IN  IF d.kind = "null" THEN d
        ELSE [d EXCEPT !.cells = [p \in DOMAIN @ |->
                IF Within(p, to, s.count)
                THEN <<who, SwapDims(source(p), d.ndims)>> ELSE @[p]]]

\* append(), its H5Dset_extent: only an unlimited dataset grows.
CanExtend(d) == d.kind = "unlimited"

\* Only the extent of the dataspace in memory grows.
ExtendMutant(d, count) == [d EXCEPT !.size = [@ EXCEPT ![1] = @ + count]]

Extend(d, count) ==
    LET size == [d.size EXCEPT ![1] = @ + count] IN
    [kind |-> d.kind, ndims |-> d.ndims, chunk |-> d.chunk, size |-> size,
     cells |-> [p \in Box(size) |-> IF p \in DOMAIN d.cells THEN d.cells[p] ELSE Fill]]

\* read(): a part of the dataset goes to dstOffset in a buffer of size dstBuffer.
Read(d, dstBuffer, dstOffset, srcSize, srcOffset) ==
    LET buffer == SwapDims(dstBuffer, d.ndims)
        to == SwapDims(dstOffset, d.ndims)
        count == SwapDims(srcSize, d.ndims)
        from == SwapDims(srcOffset, d.ndims)
    IN  [q \in Box(buffer) |->
           IF Within(q, to, count)
           THEN d.cells[[i \in Dim |-> from[i] + q[i] - to[i]]] ELSE Fill]

ReadRefused(d, dstBuffer, dstOffset, srcSize, srcOffset) ==
    \/ ~SelectionFits(dstBuffer, srcSize, dstOffset, Ones)
    \/ ~SelectionFits(LogicalSize(d), srcSize, srcOffset, Ones)

-----------------------------------------------------------------------------
(* The parts of the processes *)

Ranks == 0..Scalar(program.topology) - 1

\* indexToPos().
IndexToPos(r, size) ==
    <<r % size[1], (r % (size[1] * size[2])) \div size[1], r \div (size[1] * size[2])>>

\* One-dimensional data: the processes in a row.
Shape == IF program.ndims = 1 THEN <<Scalar(program.topology), 1, 1>> ELSE program.topology
MpiPos(r) == IF program.ndims = 1 THEN <<r, 0, 0>> ELSE IndexToPos(r, program.topology)

\* The process at place k of the row along axis i whose sizes are added up.
OnAxis(i, k) ==
    CASE i = 1 -> k
      [] i = 2 -> k * Shape[1]
      [] i = 3 -> k * Shape[1] * Shape[2]

GatherRefused == program.ndims = 2 /\ Shape[3] > 1

\* The first n values of f, a function of 0, 1, ...
SumOfFirst(f, n) ==
    LET sum[k \in 0..n] == IF k = 0 THEN 0 ELSE sum[k - 1] + f[k - 1] IN sum[n]

\* The own size is part of the offset.
GatherMutant(parts, r) ==
    LET sizes(i) == [k \in 0..Shape[i] - 1 |-> parts[OnAxis(i, k)][i]]
        sum(i, n) == SumOfFirst(sizes(i), n)
    IN  [size |-> [i \in Dim |-> IF i <= program.ndims THEN sum(i, Shape[i]) ELSE 1],
         offset |-> [i \in Dim |-> IF i <= program.ndims /\ MpiPos(r)[i] > 0
                                   THEN sum(i, MpiPos(r)[i] + 1) ELSE 0]]

\* gatherMPIWrites() in process r.
Gather(parts, r) ==
    LET sizes(i) == [k \in 0..Shape[i] - 1 |-> parts[OnAxis(i, k)][i]]
        sum(i, n) == SumOfFirst(sizes(i), n)
    IN  [size |-> [i \in Dim |-> IF i <= program.ndims THEN sum(i, Shape[i]) ELSE 1],
         offset |-> [i \in Dim |-> IF i <= program.ndims THEN sum(i, MpiPos(r)[i]) ELSE 0]]

\* The data is one cuboid cut along its axes: what a part extends to in an axis
\* depends only on the place of its process in that axis.
Layouts ==
    LET cuts(i) == [0..Shape[i] - 1 -> IF i <= program.ndims THEN program.extents ELSE {1}]
    IN  {[r \in Ranks |-> <<c[1][MpiPos(r)[1]], c[2][MpiPos(r)[2]], c[3][MpiPos(r)[3]]>>] :
           c \in cuts(1) \X cuts(2) \X cuts(3)}

-----------------------------------------------------------------------------
Init ==
    /\ program \in Programs
    /\ calls = 0
    /\ dset = NoDataset
    /\ local = [r \in Ranks |-> Zero]
    /\ pending = {}
    /\ last = [call |-> "none", end |-> "returned"]
    /\ expected = << >>

\* A collective write() returns when all have written; append() calls that were
\* never made do not keep the program from going on.
MayCall ==
    /\ calls < program.calls
    /\ ~(last.call = "write" /\ pending # {})

Called(call, end) == last' = [call |-> call, end |-> end] /\ calls' = calls + 1

-----------------------------------------------------------------------------
(* ParallelDataCollector *)

\* write() and reserve(): the processes exchange the sizes of their parts and
\* create the dataset. The one that was there is unlinked before that.
CollectiveCreate(call) ==
    /\ program.parallel /\ MayCall
    /\ local' \in Layouts
    /\ expected' = << >>
    /\ \/ /\ ~GatherRefused
          /\ dset' = Create(Gather(local', 0).size, program.ndims, call = "reserve")
          /\ pending' = Ranks
          /\ Called(call, "returned")
       \/ /\ ~GatherRefused           \* H5Dcreate fails
          /\ dset' = NoDataset
          /\ pending' = {}
          /\ Called(call, "failed")
    /\ UNCHANGED program

CollectiveWrite == CollectiveCreate("write")
Reserve == CollectiveCreate("reserve")

\* Two-dimensional parts of a three-dimensional topology: all processes throw.
CollectiveRefused ==
    /\ program.parallel /\ MayCall /\ GatherRefused
    /\ \E call \in {"write", "reserve"} : Called(call, "refused")
    /\ UNCHANGED <<program, dset, local, pending, expected>>

\* The process before r along axis i.
Neighbour(r, i) ==
    CHOOSE q \in Ranks : MpiPos(q) = [MpiPos(r) EXCEPT ![i] = @ - 1]

\* The elements of rank r: its part begins where those of its neighbours end.
Elements(r) ==
    LET begin[q \in Ranks] ==
            [i \in Dim |-> IF MpiPos(q)[i] = 0 THEN 0
                          ELSE begin[Neighbour(q, i)][i] + local[Neighbour(q, i)][i]]
    IN  [p \in {Plus(begin[r], x) : x \in Box(local[r])} |->
            <<r, [i \in Dim |-> p[i] - begin[r][i]]>>]

\* Process r writes its part: in the collective write(), or in an append() of its
\* own. If HDF5 fails, its elements have been written or not.
Transfer(r) ==
    LET select == Whole(local[r])
        offset == Gather(local, r).offset
        after == Write(dset, select, offset, r)
    IN
    /\ r \in pending
    /\ pending' = pending \ {r}
    /\ \/ /\ ~WriteRefused(dset, select, offset)
          /\ dset' = after
          /\ expected' = Updated(expected, Elements(r))
       \/ /\ dset' \in IF WriteRefused(dset, select, offset) THEN {dset} ELSE {dset, after}
          /\ UNCHANGED expected
    /\ UNCHANGED <<program, calls, local, last>>

-----------------------------------------------------------------------------
(* SerialDataCollector *)

Selected(select) ==
    [p \in Box(select.count) |->
        <<calls + 1, [i \in Dim |-> select.offset[i] + p[i] * select.stride[i]]>>]

\* A new dataset, and what select chooses of the buffer. HDF5 may fail to create
\* it or to write to it.
CreateAndWrite(call, d, select, stored) ==
    \/ /\ dset' = NoDataset /\ expected' = << >>
       /\ Called(call, "failed")
    \/ /\ dset' = d /\ expected' = << >>
       /\ Called(call, IF WriteRefused(d, select, Zero) THEN "refused" ELSE "failed")
    \/ /\ ~WriteRefused(d, select, Zero)
       /\ dset' = Write(d, select, Zero, calls + 1)
       /\ expected' = stored
       /\ Called(call, "returned")

SerialWrite(select) ==
    /\ ~program.parallel /\ MayCall
    /\ CreateAndWrite("write", Create(select.count, program.ndims, FALSE), select,
                      Selected(select))
    /\ UNCHANGED <<program, local, pending>>

\* The buffer append() takes count elements from.
Strided(a) ==
    [size |-> <<a.offset + a.count * a.stride, 1, 1>>, count |-> <<a.count, 1, 1>>,
     offset |-> <<a.offset, 0, 0>>, stride |-> <<a.stride, 1, 1>>]

\* The selection of appendDataSet() for a new dataset, whose Selection takes the
\* size of the buffer before the count.
FirstSelection(a) ==
    LET s == Strided(a) IN
    [size |-> s.count, count |-> s.size, offset |-> s.offset, stride |-> s.stride]

\* append() to a dataset that does not exist.
AppendFirst(a) ==
    /\ ~program.parallel /\ MayCall
    /\ dset = NoDataset
    /\ CreateAndWrite("append", Create(<<a.count, 1, 1>>, 1, TRUE),
                      FirstSelection(a), Selected(Strided(a)))
    /\ UNCHANGED <<program, local, pending>>

\* append() to the end of a dataset; a failure may leave it extended.
AppendNext(a) ==
    LET size == LogicalSize(dset)
        end == <<size[1], 0, 0>>
        stored == [p \in {Plus(end, x) : x \in Box(<<a.count, 1, 1>>)} |->
                     Selected(Strided(a))[[p EXCEPT ![1] = @ - end[1]]]]
    IN  /\ ~program.parallel /\ MayCall
        /\ dset # NoDataset
        /\ \/ /\ a.count = 0
              /\ Called("append", "returned")
              /\ UNCHANGED <<dset, expected>>
           \/ /\ a.count > 0 /\ ~CanExtend(dset)
              /\ Called("append", "refused")
              /\ UNCHANGED <<dset, expected>>
           \/ /\ a.count > 0 /\ CanExtend(dset)
              /\ dset' \in {dset, Extend(dset, a.count)}
              /\ Called("append", "failed")
              /\ UNCHANGED expected
           \/ /\ a.count > 0 /\ CanExtend(dset)
              /\ dset' = Write(Extend(dset, a.count), Strided(a), end, calls + 1)
              /\ expected' = Updated(expected, stored)
              /\ Called("append", "returned")
        /\ UNCHANGED <<program, local, pending>>

\* remove(id, name), in either collector.
RemoveDataset ==
    /\ MayCall
    /\ dset # NoDataset
    /\ dset' = NoDataset
    /\ pending' = {}
    /\ expected' = << >>
    /\ Called("remove", "returned")
    /\ UNCHANGED <<program, local>>

Next ==
    \/ CollectiveWrite \/ Reserve \/ CollectiveRefused
    \/ \E r \in Ranks : Transfer(r)
    \/ \E s \in program.selections : SerialWrite(s)
    \/ \E a \in program.appends : AppendFirst(a) \/ AppendNext(a)
    \/ RemoveDataset

Spec == Init /\ [][Next]_vars

-----------------------------------------------------------------------------
(* Properties *)

Kinds == {"none", "null", "fixed", "unlimited"}

HasCells == dset.kind \in {"fixed", "unlimited"}

TypeOK ==
    /\ program \in Programs
    /\ calls \in 0..program.calls
    /\ dset.kind \in Kinds
    /\ HasCells =>
         /\ dset.ndims \in 1..3
         /\ DOMAIN dset.cells = Box(dset.size)
         /\ \A p \in DOMAIN dset.cells : Len(dset.cells[p]) \in {0, 2}
         /\ DOMAIN dset.chunk = 1..dset.ndims
    /\ local \in [Ranks -> Nat \X Nat \X Nat]
    /\ pending \subseteq Ranks
    /\ last \in [call : {"none", "write", "reserve", "append", "remove"},
                 end : {"returned", "refused", "failed"}]

\* ParallelDataCollector.cpp:1096-1126. Each process adds up sizes for itself, and
\* yet they agree on the size of the whole, and their parts cover it without a
\* gap and without two of them writing the same element.
PartsTile ==
    pending # {} =>
        LET part == [r \in Ranks |-> Gather(local, r)] IN
        /\ \A r, s \in Ranks : part[r].size = part[s].size
        /\ \A p \in Box(part[0].size) :
             Cardinality({r \in Ranks : Within(p, part[r].offset, local[r])}) = 1

\* DCDataSet.cpp:530-668. What a call that returned stored is where it belongs in
\* the whole until the dataset is removed or created anew: whatever other
\* processes write, however the dataset grows and whichever calls fail.
ContentsExact ==
    \A p \in DOMAIN expected :
        /\ HasCells
        /\ dset.cells[SwapDims(p, dset.ndims)] = expected[p]

\* DCHelper.hpp:88-95. Chunks lie in the dataset (HDF5 refuses others) and have no
\* more bytes than the largest chunk size; if the data is large enough for two
\* chunks per axis, they have more than half of the smallest.
ChunksFit ==
    HasCells =>
        LET bytes == TypeSize * Product(dset.chunk, dset.ndims)
            least == ChunkSizes[Len(ChunkSizes)]
            large == TypeSize * Product([i \in 1..dset.ndims |-> HalfDim(dset.size[i])],
                                        dset.ndims)
        IN  /\ \A i \in 1..dset.ndims : dset.chunk[i] \in 1..dset.size[i]
            /\ bytes <= ChunkSizes[1] \/ bytes = TypeSize
            /\ dset.kind = "fixed" /\ large >= least => 2 * bytes > least

\* DataCollector.hpp:229-243: append() reads with striding from the buffer, "The
\* target dataset is created if necessary. If it already exists, data is appended
\* to the end": nothing but a failure of HDF5 makes it throw.
AppendsToTheEnd == last.call = "append" => last.end # "refused"
=============================================================================
