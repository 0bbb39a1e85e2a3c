------------------------- MODULE MCDomainAttributes -------------------------
(* The programs of the run of DomainAttributes. *)
EXTENDS DomainAttributes

Parallel(ndims, topology, extents, n, domains) ==
    [parallel |-> TRUE, ndims |-> ndims, topology |-> topology, extents |-> extents,
     selections |-> {}, appends |-> {}, calls |-> n, domains |-> domains]

Serial(ndims, selections, appends, n, domains) ==
    [parallel |-> FALSE, ndims |-> ndims, topology |-> Ones, extents |-> {},
     selections |-> selections, appends |-> appends, calls |-> n, domains |-> domains]

Cuboid(x, y, z) == Whole(<<x, y, z>>)
EverySecond(x, y) == [size |-> <<2 * x, y + 1, 1>>, count |-> <<x, y, 1>>,
                      offset |-> <<0, 1, 0>>, stride |-> <<2, 1, 1>>]

Annotation(class, start, excess) == [class |-> class, start |-> start, excess |-> excess]
Grid == Annotation("Grid", Zero, 0)
GridAt(x) == Annotation("Grid", <<x, 0, 0>>, 0)
TooLarge == Annotation("Grid", Zero, 1)
Poly == Annotation("Poly", Zero, 1)

MCAppends == [count : {0, 1, 2}, offset : {0, 1}, stride : {1, 2}]

Some(n) == [count |-> n, offset |-> 0, stride |-> 1]

\* Parts of up to two elements per axis in a row of processes, a plane of data and
\* a cuboid; a topology that a plane of data does not fit.
MCParallel ==
    {Parallel(1, <<1, 3, 1>>, {0, 1, 2}, 1, {Grid}),
     Parallel(2, <<2, 2, 1>>, {1, 2}, 1, {Grid}),
     Parallel(3, <<2, 1, 2>>, {1, 2}, 1, {Plain}),
     Parallel(3, <<2, 1, 2>>, {2}, 1, {Grid}),
     Parallel(2, <<1, 1, 2>>, {1}, 1, {Grid}),
     Parallel(1, <<2, 1, 1>>, {1, 2}, 1, {TooLarge, Poly}),
     Parallel(1, <<2, 1, 1>>, {1}, 2, {Plain, Grid})}

\* Appending to what was appended, written or removed before; planes and cuboids
\* for the chunks.
MCSerial ==
    {Serial(1, {Cuboid(2, 1, 1)}, MCAppends, 3, {Plain}),
     Serial(1, {Cuboid(2, 1, 1)}, {Some(1)}, 3, {GridAt(1), Poly}),
     Serial(1, {Cuboid(2, 1, 1)}, {Some(0)}, 2, {Plain, Grid, TooLarge, Poly}),
     Serial(2, {Cuboid(x, y, 1) : x \in 1..6, y \in 1..6}
               \union {EverySecond(x, y) : x \in 1..2, y \in 1..2}, {}, 1, {GridAt(1)}),
     Serial(3, {Cuboid(x, y, z) : x \in 1..3, y \in {0, 2, 5}, z \in 1..2}, {}, 1,
            {Grid})}

MCPrograms == MCParallel \union MCSerial

MCChunkSizes == <<16, 8, 4>>
MCOffset == <<1, 0, 0>>
=============================================================================
