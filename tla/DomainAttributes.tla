-------------------------- MODULE DomainAttributes --------------------------
(***************************************************************************)
(* The domain of a dataset. writeDomain(), reserveDomain() and              *)
(* appendDomain() write a dataset as write(), reserve() and append() do, and *)
(* then five attributes one after the other: the class of the data, its      *)
(* local domain and the global domain. readDomain() reads a part of the data *)
(* that is given by its place in the global domain, and checks what it reads *)
(* by these attributes. A call may fail between any two of them.             *)
(*                                                                          *)
(* A serial program reads with a DomainCollector from its one file (merged   *)
(* reads are in DomainReader), a parallel one with a ParallelDomainCollector. *)
(***************************************************************************)
EXTENDS DCDataSet

CONSTANT DomainOffset       \* where the callers' global domains begin

\* How programs annotate their calls: with a class, where their local domain
\* begins in the global one, and how much larger than the data they say it is.
\* Plain calls are those of a DataCollector.
Plain == [class |-> "plain"]

ASSUME AnnotationAssumption ==
    /\ DomainOffset \in Nat \X Nat \X Nat
    /\ \A p \in Programs : \A a \in p.domains \ {Plain} :
         a \in [class : {"Grid", "Poly"}, start : Nat \X Nat \X Nat, excess : Nat]

VARIABLES
    attrs,          \* the attributes of the dataset: name -> value
    unwritten,      \* those that were created, but their value was never written
    annotating,     \* the domain a call has still to write, or NoDomain
    given,          \* history: the domain of the last call that wrote all of its
                    \* attributes to this dataset, or NoDomain
    torn            \* history: a later call has written some of its attributes

domainVars == <<attrs, unwritten, annotating, given, torn>>

NoDomain == [class |-> "none"]

-----------------------------------------------------------------------------
(* Writing *)

\* In the order they are written.
Names == <<"_class", "_size", "_start", "_global_size", "_global_start">>
NamesUpTo(n) == {Names[i] : i \in 1..n}
NameAt(n) == {Names[i] : i \in {n} \intersect DOMAIN Names}

\* In parallel the global domain is one local domain.
LocalDomain(said, global) ==
    IF program.parallel THEN [offset |-> Zero, size |-> global.size] ELSE said

\* What the caller of a domain call with data of this size passes.
DomainOf(a, size) ==
    LET said == Plus(size, <<a.excess, 0, 0>>)
        global == [offset |-> DomainOffset, size |-> Plus(a.start, said)]
    IN  [class |-> a.class, global |-> global,
         local |-> LocalDomain([offset |-> a.start, size |-> said], global)]

Values(d) ==
    [a \in {Names[i] : i \in DOMAIN Names} |->
       CASE a = "_class" -> d.class
         [] a = "_size" -> d.local.size
         [] a = "_start" -> d.local.offset
         [] a = "_global_size" -> d.global.size
         [] a = "_global_start" -> d.global.offset]

\* An attribute that exists keeps its value.
WithAttributesMutant(old, d, n) ==
    Updated([a \in NamesUpTo(n) |-> Values(d)[a]], old)

\* The first n attributes of d written to a dataset with the attributes old.
WithAttributes(old, d, n) ==
    Updated(old, [a \in NamesUpTo(n) |-> Values(d)[a]])

\* What is read of an attribute without a value: zeros, which are the class of no
\* data (UndefinedType).
NoValue(a) == IF a = "_class" THEN "undefined" ELSE Zero

\* Attributes that are created, but whose value cannot be written.
WithCreated(old, created) == Updated(old, [a \in created |-> NoValue(a)])

\* A call with the annotation a returns from writing the data.
Begins(a, size) ==
    annotating' = IF a = Plain \/ last'.end # "returned" THEN NoDomain
                  ELSE DomainOf(a, size)

\* A dataset that is created has no attributes.
Fresh == attrs' = << >> /\ unwritten' = {} /\ given' = NoDomain /\ torn' = FALSE

DomainInit ==
    /\ Init
    /\ attrs = << >> /\ unwritten = {}
    /\ annotating = NoDomain /\ given = NoDomain /\ torn = FALSE

WriteDomain(select, a) ==
    /\ annotating = NoDomain
    /\ SerialWrite(select)
    /\ Begins(a, select.count)
    /\ Fresh

AsPoly(a) == IF a = Plain THEN a ELSE [a EXCEPT !.class = "Poly"]

\* appendDomain(): its data is always of PolyType. (A ParallelDomainCollector
\* refuses it.)
AppendDomain(append, a) ==
    /\ annotating = NoDomain
    /\ \/ AppendFirst(append) /\ Fresh
       \/ AppendNext(append) /\ UNCHANGED <<attrs, unwritten, given, torn>>
    /\ Begins(AsPoly(a), <<append.count, 1, 1>>)

ParallelWriteDomain(a) ==
    /\ annotating = NoDomain
    /\ CollectiveWrite
    /\ Begins(a, Gather(local', 0).size)
    /\ Fresh

ReserveDomain(a) ==
    /\ annotating = NoDomain
    /\ Reserve
    /\ Begins(a, Gather(local', 0).size)
    /\ Fresh

\* The first n attributes are written, and the next one fails: if it has to be
\* created, it is or is not, and then has no value. The last one may also have been
\* written when HDF5 reports that it was not.
AttributesFail(n) ==
    LET done == WithAttributes(attrs, annotating, n) IN
        \E created \in SUBSET (NameAt(n + 1) \ DOMAIN done) :
          /\ attrs' = WithCreated(done, created)
          /\ unwritten' = (unwritten \ NamesUpTo(n)) \union created
          /\ torn' = (torn \/ n > 0)
          /\ UNCHANGED given

\* The attributes are written one after the other; any of them may fail. The
\* processes write them together, when they have written their data; those that
\* have reserved it may be ahead of this and append.
WriteDomainAttributes ==
    /\ annotating # NoDomain
    /\ last.call = "write" => pending = {}
    /\ annotating' = NoDomain
    /\ \/ attrs' = WithAttributes(attrs, annotating, Len(Names))
          /\ unwritten' = {}
          /\ given' = annotating /\ torn' = FALSE
       \/ \E n \in 0..Len(Names) : AttributesFail(n)
    /\ UNCHANGED vars

RemoveDomain == annotating = NoDomain /\ RemoveDataset /\ Fresh /\ UNCHANGED annotating

DomainNext ==
    \/ \E a \in program.domains :
         \/ \E s \in program.selections : WriteDomain(s, a)
         \/ \E x \in program.appends : AppendDomain(x, a)
         \/ ParallelWriteDomain(a)
         \/ ReserveDomain(a)
    \/ WriteDomainAttributes
    \/ RemoveDomain
    \/ (CollectiveRefused \/ \E r \in Ranks : Transfer(r)) /\ UNCHANGED domainVars

DomainSpec == DomainInit /\ [][DomainNext]_<<vars, domainVars>>

-----------------------------------------------------------------------------
(* Reading *)

\* A missing offset of the global domain is taken for none, as in
\* getGlobalDomain().
NeededMutant == {"_class", "_size", "_start", "_global_size"}

\* The attributes readDomain() cannot do without.
Needed == {Names[i] : i \in DOMAIN Names}

Readable == Needed \subseteq DOMAIN attrs

GetLocalDomain == [offset |-> attrs["_start"], size |-> attrs["_size"]]

\* Only a DomainCollector does with less: it multiplies the local size.
GlobalDomainKnown ==
    IF program.parallel THEN {"_global_size", "_global_start"} \subseteq DOMAIN attrs
    ELSE {"_global_size", "_size"} \intersect DOMAIN attrs # {}

GetGlobalDomain ==
    [size |-> IF "_global_size" \in DOMAIN attrs THEN attrs["_global_size"]
              ELSE [i \in Dim |-> program.topology[i] * attrs["_size"][i]],
     offset |-> IF "_global_start" \in DOMAIN attrs THEN attrs["_global_start"]
                ELSE Zero]

\* Where the data lies in the coordinates of requests.
ClientDomain ==
    [offset |-> Plus(attrs["_start"], attrs["_global_start"]), size |-> attrs["_size"]]

\* Domain::testIntersection, of domains that have elements.
Intersect(d, e) ==
    \A i \in Dim : /\ d.offset[i] < e.offset[i] + e.size[i]
                   /\ e.offset[i] < d.offset[i] + d.size[i]

\* Any size will do.
SizesDifferMutant == FALSE

\* The data has not the size of its domain. A DomainCollector lets a dataset of no
\* elements pass, whose size reads as one.
SizesDiffer ==
    /\ LogicalSize(dset) # attrs["_size"]
    /\ ~(~program.parallel /\ Scalar(LogicalSize(dset)) = 1 /\ Scalar(attrs["_size"]) = 0)

\* The request ends in the domain, but the part it skips is not taken off.
PieceMutant(request, client) ==
    [i \in Dim |->
       LET first == request.offset[i]
           end == first + request.size[i]
           clientEnd == client.offset[i] + client.size[i]
           skip == IF first <= client.offset[i] THEN 0 ELSE first - client.offset[i]
       IN  [dst |-> IF client.offset[i] > first THEN client.offset[i] - first ELSE 0,
            src |-> skip,
            size |-> IF end >= clientEnd THEN client.size[i] - skip
                     ELSE end - client.offset[i]]]

\* Per axis: what is read of the domain, and where it goes in the buffer.
Piece(request, client) ==
    [i \in Dim |->
       LET first == request.offset[i]
           end == first + request.size[i]
           clientEnd == client.offset[i] + client.size[i]
           skip == IF first <= client.offset[i] THEN 0 ELSE first - client.offset[i]
       IN  [dst |-> IF client.offset[i] > first THEN client.offset[i] - first ELSE 0,
            src |-> skip,
            size |-> IF end >= clientEnd THEN client.size[i] - skip
                     ELSE end - (client.offset[i] + skip)]]

\* The pieces of the axes the data has. The others are read from 0 to 0.
PieceArgs(request) ==
    LET piece == Piece(request, ClientDomain)
        triple(f, other) ==
            [i \in Dim |-> IF i <= dset.ndims THEN piece[i][f] ELSE other]
    IN  [dst |-> triple("dst", 0), src |-> triple("src", 0), size |-> triple("size", 1)]

\* A DomainCollector looks for the file that holds the first cell of the request,
\* and reads nothing if its one file does not.
Found(request) ==
    program.parallel \/ Intersect([request EXCEPT !.size = Ones], ClientDomain)

\* readDomain() throws.
ReadDomainRefused(request) ==
    \/ ~Readable
    \/ /\ Found(request) /\ attrs["_class"] = "Grid"
       /\ \/ SizesDiffer
          \/ /\ Intersect(request, ClientDomain)
             /\ LET args == PieceArgs(request) IN
                ReadRefused(dset, request.size, args.dst, args.size, args.src)

\* The buffer that is filled for a request that is found and meets the data: of
\* GridType data the part that was asked for, of PolyType data all there is.
ReadDomain(request) ==
    LET args == PieceArgs(request)
        all == LogicalSize(dset)
    IN  IF attrs["_class"] = "Grid"
        THEN Read(dset, request.size, args.dst, args.size, args.src)
        ELSE Read(dset, all, Zero, all, Zero)

-----------------------------------------------------------------------------
(* Properties *)

AttributesTypeOK ==
    /\ TypeOK
    /\ \E n \in 0..Len(Names) : DOMAIN attrs = NamesUpTo(n)
    /\ unwritten \subseteq DOMAIN attrs
    /\ torn \in BOOLEAN
    /\ dset.kind = "none" => attrs = << >> /\ annotating = NoDomain
    /\ given # NoDomain => DOMAIN attrs = {Names[i] : i \in DOMAIN Names}

Annotated == given # NoDomain /\ ~torn

\* DomainCollector.cpp:91-116, ParallelDomainCollector.cpp:46-60. When a call has
\* returned, the dataset has its domain, whatever earlier calls that failed on the
\* way have left of theirs, until a later call fails or the dataset is replaced.
DomainIsGiven ==
    Annotated =>
        /\ attrs["_class"] = given.class
        /\ GetLocalDomain = given.local
        /\ GlobalDomainKnown /\ GetGlobalDomain = given.global

\* DCAttribute.cpp:76-83, DomainCollector.cpp:369-387, ParallelDomainCollector.cpp:
\* 113-124. Data is not read by attributes whose value was never written, although
\* an attribute that was created exists without one: all that readDomain() finds
\* were written, if a call has written all of its own, and otherwise all but the
\* last one, the offset of the global domain, which may then read as zero.
HalfWrittenNotRead ==
    Readable => Needed \intersect unwritten
                  \subseteq (IF given = NoDomain THEN {"_global_start"} ELSE {})

\* Requests for parts of the data that vary along one axis, where some begin before
\* it or reach past it; along the others for all of it or the last place.
Requests ==
    LET client == ClientDomain
        begin(i) == client.offset[i]
        size(i) == client.size[i]
        along(i) == IF i > dset.ndims THEN {<<begin(i), 1>>}
                    ELSE (0..begin(i) + size(i)) \X (1..size(i) + 1)
        others(i) == {<<begin(i), size(i)>>}
                     \union (IF size(i) > 1 THEN {<<begin(i) + size(i) - 1, 1>>} ELSE {})
        ranges(k, i) == IF i = k THEN along(i) ELSE others(i)
    IN  {[offset |-> [i \in Dim |-> e[i][1]], size |-> [i \in Dim |-> e[i][2]]] :
           e \in UNION {ranges(k, 1) \X ranges(k, 2) \X ranges(k, 3) : k \in Dim}}

\* What readDomain() returns for a request: stored elements are where they belong,
\* and no element lies where there is no data.
BufferExact(request) ==
    LET buffer == ReadDomain(request)
        wanted == IF attrs["_class"] = "Grid" THEN request ELSE ClientDomain
        size == IF attrs["_class"] = "Grid" THEN request.size ELSE LogicalSize(dset)
    IN  \A q \in Box(size) :
            LET p == [i \in Dim |-> wanted.offset[i] + q[i] - ClientDomain.offset[i]]
                got == buffer[SwapDims(q, dset.ndims)]
            IN  IF Within(p, Zero, LogicalSize(dset))
                THEN p \in DOMAIN expected => got = expected[p]
                ELSE got = Fill

\* ParallelDomainCollector.cpp:126-128, 263-329, DomainCollector.cpp:403-411, 486-601.
\* With the domain of a call that returned, a request that meets the data is read:
\* the buffer holds each element the processes have stored by then in its place.
\* Data of GridType that has not the size of its domain is not read at all. With a
\* DomainCollector this holds of requests that begin in the data; it returns nothing
\* for the others, whether they meet the data or not.
DomainReadExact ==
    Annotated /\ HasCells =>
        \A request \in Requests : Found(request) =>
            IF given.class = "Grid" /\ LogicalSize(dset) # given.local.size
            THEN ReadDomainRefused(request)
            ELSE Intersect(request, ClientDomain) =>
                    ~ReadDomainRefused(request) /\ BufferExact(request)
=============================================================================
