# A verification project for libSplash

libSplash stores the data of simulations in HDF5 files: iterations, datasets in
iterations, attributes on both, either in one file per process (serial and merged
access) or in one file per iteration written by all processes (parallel access).
This directory models how it does so in TLA+, checks the models with TLC and
proves the central ones with TLAPS.

Paths below are relative to the repository. `PROJECT.json` maps every definition
to the lines it models, and lists the runs, the bugs each property is known to
catch (`mutants`), the hazards and the theorems.

    tlc -config LazyLoading_handles.cfg MCLazyLoading  # any run: its cfg and its MC module
    tlapm HandleMgrProofs.tla                          # any proof module

## 1. The system

| Part | State | Operations |
|---|---|---|
| `HandleMgr` | the table of open files (index to handle and access count), the least accessed index, the files created in this session, name, scheme, flags and MPI size of the session | `setFileNameScheme`, `open` (two), `get` (two), `close`, three callbacks |
| `SerialDataCollector` | `fileStatus`, `maxID`, `mpiTopology`, a `HandleMgr` for full names | `open` (create, write, read, merged), `close`, `write`, `append`, `remove` (two), `createReference` (two), attribute calls, `read`, `readMeta`, `getMaxID`, `getEntryIDs`, `getEntriesForID` |
| `SDCHelper` | none; writes and reads the header group of a file | `writeHeader`, `getReferenceData` |
| `DCGroup`, `DCDataSet`, `DCAttribute` | HDF5 ids, the extent of an open dataset | create, open, write, append, reference, remove, close |
| `ParallelDataCollector` | as the serial one, plus the MPI communicator; one file per iteration | as the serial one, collective; `reserve` and an independent `append` |
| `DomainCollector`, `ParallelDomainCollector` | adds domain attributes to every dataset | `writeDomain`, `appendDomain`, `reserveDomain`, `readDomain`, lazy loading |
| `Dimensions`, `Selection`, `Domain`, `DataContainer`, `DomainData` | values | geometry and lookup |
| `DCHelper` | none | chunk sizes, swapping of dimensions |
| `AttributeInfo`, `H5IdWrapper` | an attribute id shared by reference counts; type, dataspace and number of dimensions, loaded when first asked for | read, copy, assign, swap, close, destroy, `getType`, `getNDims`, `getDims` |
| `tools/splashtools.cpp` | per process: result, share of the files; the size of the run, broadcast | command line, check, list |

A collector asks its `HandleMgr` for a handle before every access. The manager
opens or creates the file behind the handle, closing another when it holds the
allowed number, and calls the collector back (`FileCreateCallback`) to write the
header of a file it created. Domain collectors are collectors whose writes add
attributes and whose reads search the files of all ranks. An `AttributeInfo` lives
outside the collector that returned it, and keeps the file open in the HDF5
library. `splashtools` uses collectors, and MPI of its own, to go through the files
of a run. There are no threads;
concurrency is between the MPI processes of a parallel collector and between a
process and the files it, or a crashed predecessor, left behind.

What is hard: a table whose entries vanish between two calls; operations made of
many HDF5 calls, each of which can fail and leave the steps before it done;
sessions that follow one another over the same files, also after a failed
`open()`, a failed `close()` or a crash; ids lost on error paths, which keep files
open in the HDF5 library; processes that each decide for themselves which
collective call comes next; domains that are written attribute by attribute behind
the data; a search over a grid of files in unsigned arithmetic,
whose loops change their own bounds.

What makes each part correct:

- `HandleMgr`: the victim of an eviction exists; a handle is open and on the file
  of the index asked for; a session creates no file twice and loses nothing it
  wrote, however small the table is.
- `SerialDataCollector`: the recorded highest iteration covers every iteration
  with data that a `close()` has recorded, that of the session also what it wrote,
  whatever fails or crashes later; what is stored is listed under the path it is read by; a closed
  collector keeps nothing of its last session; only the file of a writing session
  changes.
- `ParallelDataCollector`: the processes make the same collective calls in the
  same order, agree on what they know, and every call returns.
- `readDomain()`: it ends; it reads every file the request meets, and none but
  those; it copies exactly the common cells; the container spans its entries.
- Lazy loading: a subdomain that was loaded lazily can still be read.
- Domain attributes: the domain of a dataset is that of the last call that
  returned; data is not read by attributes that were never written, but for the
  offset of the global domain.
- `DCDataSet` and the gathering of parts: the parts of the processes tile the
  whole; what a call stored stays where it belongs, whatever is written, appended
  or fails later; a request for a part of the whole gets exactly that part.
- `DCHelper`: chunks are not empty, lie in the data and have a useful size.
- `AttributeInfo`, `H5IdWrapper`: an id is closed once, when nobody uses it any
  more; what an object has loaded is about the attribute it is on.
- `splashtools`: every file of a run is handled by one process; damage is reported;
  no process waits for ever.

## 2. The modules

    FileSession  <--implements--  HandleMgr  <--extends--  LazyLoading
    DCDataSet    <--extends--     DomainAttributes
    DomainReader     SerialDataCollector     ParallelDataCollector
    AttributeInfo    SplashTools

    proofs: HandleMgrProofs (also of LazyLoading), SerialDataCollectorProofs,
            ParallelDataCollectorProofs, DomainReaderProofs, AttributeInfoProofs,
            DomainAttributesProofs (also of DCDataSet), SplashToolsProofs; what they
            share about numbers is in NumberLemmas

Each `MC...` module gives TLC the values of the constants of the module it
extends. A program that is data rather than code is given there as a set of
records (`Programs`): the runs of a collector are over all of them.

**`HandleMgr`** models `src/HandleMgr.cpp` in full. Its variables are the members
of the class (`handles`, `leastAccIndex`, `createdFiles`, ...) and three of its
surroundings: the files on disk, those the HDF5 library holds open through a lost
id, and those that hold something written in this session. `get()` is split by
its outcome: a hit, a failing eviction, a creation, a creation whose callback
throws, an opening, a failing creation or opening. Each is one action, because
nothing happens in the process between the steps of a call. Access counters wrap
at `UInt32Max`, and the test for full file names is in `size_t` arithmetic.
`CloseFails(k)` is a `close()` whose k-th `H5Fclose` fails: members reset, all entries
still in the table, those before the k-th closed. The close callback is left out: no
collector registers one.

**`FileSession`** is what the manager promises its callers: in a creating session
every file is created at most once, and what was written stays until the session
ends. It knows no table. `HandleMgr!Session` is the refinement mapping.

**`SerialDataCollector`** models one process over a life of sessions with one base
name, on one file with a full name or on the files of several ranks (`Programs`). A
file is a record: whether the header is complete, the MPI size and highest iteration it
names, its iteration groups, and what an iteration holds under a path (nothing,
data, a reference, a group). Paths are sequences of names: writing, referencing and
annotating makes the groups above (`MakeGroups`), unless a dataset is in the way
(`Blocked`); writing and removing take everything below with them (`Put`). `Entries`
is the recursive listing of `DCGroup`, a walk down the groups. The `HandleMgr` below
is reduced to what a single file needs, its session and the handle at index 0. An
operation is one action
whose result is any of the states its HDF5 calls can leave when one of them fails
(`WriteResults`, `CreateResults`, ...), and says whether an object id is lost on
the way: HDF5 keeps such a file open, and then refuses to truncate it, or to open
it for writing if the id is of a read-only opening. `Crash` may damage any file
open for writing, since HDF5 promises nothing of a file that was not closed.

Two history variables say, iteration by iteration, what the highest one must cover.
`unrecorded` has those of each file that its header does not cover: what came since
the last `close()` that wrote the header (`Track`), what that `close()` had lost count
of, and what a crash takes back from a file that was still open. `uncounted` has those
of the session's file that `maxID` does not cover: after `open()` those the header
lacked, after a `remove(id)` whose listing fails and a `close()` that fails all of them,
and none again once the entries are listed; what is written is counted again.
`MaxIDCovers` demands everything else, also after crashes and in sessions that have
seen a failure.

**`ParallelDataCollector`** models the processes of an SPMD program, each with its
own handle table, status, highest iteration and list of pending collective HDF5
calls (`todo`). A call begins with what the process decides alone; its collective
calls then each wait for all processes to arrive with the same one (`Meet`,
`MeetFails`). Each operation has an operator of its own (`WriteCall`, `ReserveCall`,
`ReadMetaCall`, ...) that says which accesses to the handle table it makes, also
those an operation makes again and again (`MoreGets`), and which collective calls
follow. The program is given as data (`Programs`: handle limit, kinds of access,
iterations): a leading process makes any call of it, the others follow in order,
at most `MaxAhead` calls behind. `append()` is independent and made by any process
at any time after a `reserve()` of the same iteration. `write()` and `reserve()` of parts
begin with an `MPI_Allgather` of their sizes (`gatherMPIWrites()`), before they ask for
a handle. It is left out of `todo`: every process makes it, and the same one, in the
same call, whatever its table holds, so that it only makes the processes wait for each
other earlier. What it computes is in `DCDataSet`.

**`DCDataSet`** models one dataset from its creation to its removal, and what
happens to each element. Positions are triples in the order of the callers; the
dimensions in the file are swapped (`SwapDims`), which for two dimensions leaves
the third alone. In a parallel program the processes exchange the sizes of their
parts (`local`), each computes the size of the whole and its own offset
(`Gather`, `gatherMPIWrites()`), the dataset is created, and each process writes its
part in an order of its own (`Transfer`), in the collective `write()` or in an
independent `append()` after `reserve()`. In a serial program `write()` takes a
strided selection of its buffer, and `append()` creates or extends the dataset. As in the
code a buffer or an extent that is taken as a whole is not selected in (`SelectsSource`,
`SelectsTarget`). A selection whose count is the size of its buffer and whose offset is
not 0 would leave the buffer: `DataSetAssumption` excludes it from what callers pass.
Every call may fail at the HDF5 calls it makes. `OptimalChunkDims` is
`getOptimalChunkDims()`. `expected` is a history variable: which element a call
that returned stored at which position. For a part it is computed from where the parts
of the neighbours end (`Elements`) and not from the offsets the code adds up. An element is named by its writer (a rank or
a call) and its place in the writer's buffer, so that a shifted, swapped or
overwritten element is told from the right one. The layouts (`Layouts`) are those of
a cuboid that is cut along its axes, as the callers of the library have them:
`gatherMPIWrites()` adds up sizes along one row of processes per axis and cannot see
others.

**`DomainReader`** models `DomainCollector::readDomain()`, an action per iteration
of its loops: find where the global domain begins (a moving window rotates the
grid over the MPI positions), choose the half to search, find the first file,
walk through its neighbours. Arithmetic on positions is modulo `SizeMod`, the
table index modulo `IndexMod`, so that a wrapped position reaches the file the
code would reach: none, or another one whose index happens to be the same
(`FilesBehind`). `GridPiece` is one dimension of the copy into the buffer, `Extend`
is `DataContainer::add()`.

**`DomainAttributes`** adds the domain to such a dataset: `writeDomain()`,
`reserveDomain()` and `appendDomain()` do what the calls without a domain do, and
then write five attributes (`Names`) in this order, any of which may be the first
that fails (`WriteDomainAttributes`). An attribute is created and then written, and
either may fail (`AttributesFail`): `unwritten` has those that were created and never got
a value, and read as zeros (`NoValue`). Replacing or removing the dataset removes
them; `appendDomain()` to an existing one overwrites them one by one. `given` and
`torn` are history variables: the domain of the last call that wrote all of its
attributes, and whether a later call wrote some. What a reader sees is a function
of the attributes and the data: `GetLocalDomain`, `GetGlobalDomain` with the
fallbacks of a `DomainCollector`, `Found` for its search, which on one file finds a
request exactly if the file holds the request's first cell, `ReadDomainRefused` for the
checks, `Piece` for one dimension of the copy of `readGridInternal()` of both collectors,
and `ReadDomain` for the buffer that comes back.

**`LazyLoading`** composes `HandleMgr` with the raw HDF5 ids `readDomain(..., lazyLoad)`
keeps in its result. A reference (`refs`) is the index of the file and whether the
id that was kept is still open: a file that is closed and opened again gets another
id. `asked` are the indices the session has asked for. Every call of a reader is a
`Get` of the manager, after which it may keep the id.

**`AttributeInfo`** models the objects a program holds (`Infos`), the HDF5 attribute
ids they share, with the reference count of each (`H5IdWrapper`), and the collector
that creates, opens and closes the file meanwhile. An id keeps the file open in the
library behind a closed collector, and a file that is open there cannot be created
again, or opened for writing if it is open for reading: `Open`'s guards. A parallel
collector's `close()` fails while ids are open: HDF5 does not close a file of the
MPI-I/O driver behind them. `stored` is the dataspace of an attribute in the file,
which stays as it was created: writing an existing attribute with other dimensions does not
change it. The copy, the assignment (by copy and swap), `close()` and the
destructor are each one action, with what they make of two counts (`Shared`,
`Dropped`, `Settle`). Objects whose id could not be opened are not modelled.

**`SplashTools`** models the processes of `splashtools`, each with a program counter,
from the command line (`ParseCmdLine`, options and arguments in any order) to the
barrier at the end. Process 0 finds out how many files there are and broadcasts
it; each process computes its share (`FilesToProcesses`) and goes through it, a
file per step, once for each function it was asked for. Files are named by MPI
position, iteration or full name, as the collector that opens them names them;
files that are missing or damaged (`bad`) fail to open.

## 3. The runs

| Run | Expected | What it shows |
|---|---|---|
| `handles` | holds | A reader that keeps ids, over all three naming schemes, two handles, three indices, counters that wrap: `TypeOK`, `VictimIsOpen`, `LeastCounterAgrees`, `TableBounded`, `HandleOnItsFile`, `OnlyCreatedFilesOpen`, the inductive invariant `IndInv`, `LoadedStaysReadable`, and the refinement `ImplementsSession`. |
| `serial_sessions` | holds | All four kinds of session, failures and crashes, on one file with a full name and the iterations 0 and 2, on the files of two ranks written in turn and read merged, and on files with groups in groups: `TypeOK`, `MaxIDCovers`, `StoredIsListed`, `ClosedIsReset`, `OnlySessionFileChanges`. |
| `serial_meta` | violated | `ReadMetaFindsData`: `readMeta()` in a merged session. |
| `domain_search` | holds | `EveryFileRead`, `PositionsExist`, `GridPieceExact`, `ContainerSpansEntries`, `TypeOK` and `Terminates` for every grid, rotation and request in the bounds. |
| `domain_twice` | violated | `EntriesDistinct`: in two dimensions a row can be read twice. |
| `parallel_agree` | holds | `CollectivesMatch`, `ViewsAgree`, `TypeOK` and `CallsReturn` for three programs of two processes: attributes and removals on three iterations through two handles, every operation but `append()` on two iterations through one handle, `reserve()` and `append()` on two iterations through two. |
| `parallel_scarce` | violated | `CollectivesMatch` for a program that appends independently with fewer handles than iterations. |
| `domain_data` | holds | Datasets of two to four processes in one to three dimensions, and of serial programs that write, append and remove, with and without a domain, failing anywhere: `PartsTile`, `ContentsExact`, `ChunksFit`, `DomainIsGiven`, `HalfWrittenNotRead`, `DomainReadExact`, `AttributesTypeOK`. |
| `dataset_append` | violated | `AppendsToTheEnd`, which `DataCollector.hpp` documents. |
| `attribute_ids` | holds | Three objects on two ids, copied, assigned, swapped and closed while sessions of either collector come and go: `CountedAndOpen`, `FileReleased`, `LoadedBelongs`, `DimsAsGiven`, `TypeOK`. |
| `attribute_retry` | violated | `NDimsKnown`: an object that threw once answers the second time, with a member nothing has set. |
| `tools_files` | holds | One to three processes on runs of one to five files, some of them damaged, with every kind of command line: `EveryFileOnce`, `FailureReported`, `Terminates`, `TypeOK`. |

### Bounds, and why they are enough

- *Handles.* Two handles for three indices (0, 1 and 3) is the least that has
  evictions whose victim is not the only entry, and an index that returns after its
  eviction. `UInt32Max` = 2 lets counters wrap with the third access; the tracked
  counter and the entry's counter wrap together or the properties fail. The 2x1x2
  topology has positions whose first and third coordinate differ from zero; a
  swapped factor in `IndexFromPos` maps two of them to one index. `SizeMod` = 16
  is larger than any name. Larger values are covered by the proofs. References
  need no bound: there is one per index, open or not.
- *Serial collector.* The iterations 0 and 2 of one file tell a maximum from a count of
  the iterations, and a removal that lowers it from one that does not; 0 is also what
  `maxID` falls back to. There one dataset
  name is enough, since datasets of an iteration do not interact unless one is on
  the path of the other. Two programs have such paths, A and A/B: one with two
  iterations, one with a name C beside them, for what must not go when A goes. For
  several files one iteration suffices, since what is new there is which file a
  handle is on.
- *Parallel collector.* Two processes: every property relates two of them, and a
  collective call of all is met by none of three if two of them disagree.
  `MaxAhead` = 2 lets a process begin, for instance, a `getMaxID()` while another
  is before the write that precedes it. Three iterations through two handles have
  evictions with a choice; counters wrap at 3.
- *Datasets and their domains.* Parts of zero, one or two elements in a row of three
  processes: empty parts at any place, and unequal ones, so that a wrong row or a
  wrong prefix of the sum shows; parts of one or two per axis for 2x2 processes in
  a plane and 2x1x2 in space, the last of which has an axis that is not cut between
  two that are; 1x1x2 is the topology that two-dimensional data is refused on. The
  unequal cuboids are plain, the equal ones have a domain that is read. Up to three
  calls suffice for serial programs: create, change, change again. Chunk sizes are
  scaled to 16, 8 and 4 bytes and `TypeSize` to 1: planes of up to 6x6 elements and
  cuboids up to 3x5x2 lie below, between and above the thresholds. `SizeMod` = 256 is
  larger than twice the largest difference, and a negative difference wraps to more
  than any of them, as in the code. `DomainOffset` = <<1, 0, 0>> lets a request
  begin before the data. Domains are those of the data, or larger by an element,
  which the reader must refuse. Requests begin at 0 or later, so some begin before the
  data and some end behind it. They vary along one axis at a time, and along
  the others ask for all or the last place: the copy treats axes alone.
- *Domain search.* Rows of one to four files, grids of 2x3 and 2x2x2, local domains
  of one or two cells in two dimensions. The halving behaves differently for
  lengths 1, 2, 3 and 4, every rotation is enumerated, and three rows are needed
  for a row in the middle. Requests are all intervals inside the domain and, with
  `AskOutside`, those that begin before it. `Margin` = 0 bounds where they end:
  beyond the domain the last file is cut off in any case.
- *Attributes.* Three objects (interchangeable: the run uses their symmetry) can
  share one id, or two hold one and the third another. Two ids are one too few for
  three objects on an id each, which relates no two of them. Two attributes: one of
  a dataset that the collector writes, and a foreign one of the file with an
  H5S_NULL dataspace. One value, and two and three dimensions with different
  extents.
- *splashtools.* Five files on three processes leave a rest; two and three processes
  on one file leave processes without files; 2x2x1 and 1x2x2 tell the axes apart.
  Up to two bad files (`MaxBad`): the master file and another. `-p` is run by one
  process: with more it never ends (below).

### Fairness

`DomainReader` assumes weak fairness of `Progress`, the iterations of the loops:
`readDomain()` is one sequential call. Errors may but need not happen. A loop
iteration that changes nothing is not progress, and `Terminates` catches it.
`ParallelDataCollector` assumes that a process that is behind comes to the calls
the others have made (`WF(Follow)`: the program is SPMD), and that a collective
call all processes have arrived at ends, well or with an error (`WF` of `Meet` or
`MeetFails`: MPI makes progress). Nothing makes a process lead or append.
`SplashTools` assumes weak fairness of each process and of the barrier: a program
that runs to its end, and a barrier that opens when all have come. The
other modules state no fairness: their properties are about what may never
happen, and a caller may stop at any time. Deadlock is checked where something
can always be done (in `DomainReader` the call has ended otherwise: `Finished`). It is
not for `DCDataSet`, `DomainAttributes` and `SplashTools`, whose programs end; that
processes of the last do not stop anywhere else is `Terminates`.

### What the violated runs say

Each is a disagreement between the code and its documentation:

- `readMeta()` hands its iteration to `handles.get()` as a file index; in a merged
  session it reads the file of the rank with that number.
- When `readDomain()` meets a file outside the request in a later row of the first
  plane, it ends its y range at the row before, but goes on with the current loop
  in that row: its subdomains are added again.
- `append()` of `ParallelDataCollector` is documented as independent. Its
  `handles.get()` counts accesses, and may close and open files collectively.
- `append()` is documented to append to the end of a dataset, with a stride and an
  offset in its buffer (`DataCollector.hpp:212-243`). The first `append()` makes its
  selection with the size of the buffer and the count exchanged
  (`SerialDataCollector.cpp:947`), so with a stride or an offset it selects more
  than the buffer has, and throws. Appending to what an `append()` of no elements
  created, or to a dataset of `write()`, throws as well: neither can be extended.
- `loadSpace()` of `AttributeInfo` keeps the dataspace before it checks that it is a
  simple one. The first `getNDims()` of an attribute with another throws; the
  second one finds the dataspace loaded and returns an `nDims_` nobody set.

Other divergences were noticed while reading and have no run of their own:

- `HandleMgr.hpp:46-48` says the handle with the fewest accesses is closed. The
  code tracks one index, moves it only when a handle is inserted, and closes that
  one although another may have fewer accesses by then;
- `readDomainLazy()` reads through an id of which only `close()` is documented to
  end the life (`IDomainCollector.hpp:106-107`). An eviction ends it as well:
  `LoadedStaysReadable` holds for sessions that ask for no more files than they may
  have open, and no longer with one file more;
- a dataset of no elements reads as one of size (1,1,1), so that no collector comes
  to "skipping entry with 0 elements" (`DomainCollector.cpp:345-348`). With a
  GridType domain of size 0 a `DomainCollector` reads it, a `ParallelDomainCollector`
  refuses it;
- `appendDomain()` that fails among its attributes leaves some of this and some of
  the call before; of no elements on a GridType dataset it only makes it PolyType.
  The number of elements it looks up first (`DomainCollector.cpp:763-782`) is not
  used;
- with some attributes missing `getGlobalDomain()` of a `DomainCollector` returns a
  guess, the local size times the topology and an offset of 0, that the caller
  cannot tell from what was stored;
- `IParallelDomainCollector.hpp:39-40` says that the size of the global domain and the
  offset in it are determined via MPI; what the caller passes is stored;
- `write()` of a name that is a group, which a nested dataset or an attribute of the
  name has made, unlinks the group and everything below. The comment in
  `DCDataSet.cpp:207-210` speaks of a dataset;
- `UserManual.tex:347-348` says that a reference is accessed like a normal dataset;
  `read()` of one returns the stored reference and not the data;
- `readMeta()` under another spelling of a path (a doubled slash) throws that the
  entry was not found by its name, and leaves the dataset open;
- `getEntriesInternal()` closes the id of a data type with `H5Dclose`
  (`DCGroup.cpp:212`);
- `writeAttribute()` to an attribute that exists keeps its old type and dimensions;
- the assignment operator of `AttributeInfo` gives up its type and dataspace by
  `release()`, which does not close them;
- `splashtools`: `-d` asks for nothing, since `deleteIteration` is never set
  (`UserManual.tex:525` says it deletes); `-p` with several processes hangs, because
  process 0 alone makes a collector of `MPI_COMM_WORLD`, and takes the number of
  processes for that of files; listing overwrites the result of checking, opens the
  same file for all files of a run, and catches nothing;
- `DCHelper.hpp:113-114` says that dimensions are sorted in descending order; the
  multimap they are put in is ascending;
- names for which `find(".h5")` is compared with `length() - 3`: a two-character
  name without suffix counts as a full name (npos equals 2 - 3), and a name with
  ".h5" in the middle and at the end does not;
- the highest iteration does not count iterations that hold only attributes or
  references;
- object ids lost on error paths of `DCDataSet`, `SDCHelper` and `read()`, which
  keep the file open beyond `close()`;
- merged `read()` finds data of rank 0 only;
- a `DomainCollector` searches for the file that holds the first cell of a request:
  a request that begins outside the global domain returns nothing even if it meets it,
  and so does one to a single file that begins before its data;
- `readDomain()` goes by which attributes exist. When the last of the five is created
  and its `H5Awrite` fails (`DCAttribute.cpp:76-83`), `writeDomain()` throws, but the
  dataset can be read as domain data, with an offset of the global domain that nobody
  wrote;
- in the parallel collector `FAT_WRITE` does not create a missing file
  (`doc/manual/UserManual.tex:458` says it does), and `open()` succeeds without
  one.

## 4. What is proved

Every safety property that a passing run checks, and the refinement, is proved for
every value of the constants that satisfies the named assumptions. Each proof follows
the same pattern: an inductive invariant, one lemma per action (or per outcome of an
action), and the properties as consequences.

Sums, products and searches are defined by recursive functions over numbers. What
these compute is proved by the least-number principle (`LeastNatural`: a set of
natural numbers that is not empty has a least one): a smallest counterexample has a
predecessor that is none. `RecursionStays` and `RecursionExists` state the two facts
about recursive functions that the proofs need; none of them uses an induction
theorem that takes an operator.

**`HandleMgrProofs`.** `Invariance`: `Spec => []IndInv`, and from it `TypeCorrect`,
`VictimAlwaysOpen`, `NeverTooManyHandles`, `HandlesOnTheirFiles`, `TrackedCounterRight`
(`LeastCounterAgrees`) and `OnlyOwnFilesOpen` (`OnlyCreatedFilesOpen`).

`VictimIsOpen` is not inductive: that the victim of a full table exists depends on
how `leastAccIndex` got there. `VictimTracked` is the strengthening. Either the
tracked index is in the table with the counter that is remembered for it, or it
is not, the remembered counter is 0, and there is room for one more handle; so
the next insertion takes the track over, and no eviction can happen before. The
counters may wrap to 0 in the first case, which is why it cannot be told by the
counter alone. `HandleOnItsFile` needs in addition that a session of a full name
only uses index 0, `OnlyCreatedFilesOpen` that the created indices stay; between
sessions `ClosedInv` says what a failed `close()` may leave: a table without a
session, from which no collector starts a new one (`Closed`). `LeftByClose`, a part of
it, is about the entries: what is still open is a file of the disk, and comes after
all that was closed. A second `close()` therefore closes the rest or throws at its
first entry, and never closes an id twice and then goes on. `PositionRoundTrip`
(on `NumberLemmas`) shows that an index of the MPI scheme, split into a position
and put together again, is the same index; `FileInjective` that different indices
have different files.

`Refinement`: under `NoFullNames` (no base name counts as a full name) every
behaviour implements `FileSession`. The assumption is needed: a name that does
gives all indices one file, and each index would create it again. It is the step
`MustCreate(i)` implies `FileOf(i) \notin created` that uses it. The model has
such names and `Invariance` is proved for them too; the runs use a base name.

`LoadedReadable` is about `LazyLoading`: `LazyInv` keeps that the table only has indices
that were asked for. While these are not more than may be open, there is room
whenever a new one is asked for, and nothing is evicted.

Assumptions on the constants: `HandlesAssumption` (a limit that a `uint32_t` can
hold, counters with at least three values), `InputAssumption` (positive topology
sizes), `NameAssumption` (lengths below npos).

**`SerialDataCollectorProofs`.** `HighestCovers` (`MaxIDCovers`), `StoredListed`
(`StoredIsListed`), `ClosedReset` (`ClosedIsReset`), `TypeCorrect`, and the action
property `OnlySessionFile` (`OnlySessionFileChanges`), for any tree of names, any
iterations and any sequence of sessions, failures and crashes. `MaxIDCovers` alone is not
inductive. `HeadersCover` is its part about headers. `MaxIDInv` adds what holds between
the calls of a session for writing, before it has a handle: `maxID` covers all that is
counted of the file the next call will open, unless that is about to be truncated, and
it is unknown only when nothing is counted, which is when `close()` does not write it.
So a `close()` that writes the header leaves as `unrecorded` just what was `uncounted`
(`WriteMaxIDFacts`), and the next session starts with these. `HandleInv` says which
files a handle can be of, and when one is about to be truncated. `FilesSound` is about the
contents: `Tree`, each object lies in groups of its iteration. From it follows that
the walk of `Entries` reaches every object, by induction over the length of its path.
Operations on contents are proved once (`Becomes`): whatever HDF5 calls fail, the
result is again such a tree and has no data that was not there or written.
`SerialAssumption` only says that iterations are numbers and paths have their prefixes.

**`ParallelDataCollectorProofs`.** `NoMixedCollectives` (`CollectivesMatch`), `SameViews`
(`ViewsAgree`) and `TypeCorrect`, for any number of processes and any programs. The
processes never tell each other what they do, so that the invariant has to relate them
through what they have in common: `Agreement` says that there is one sequence of books
(`Book`: status, table, created files, highest iteration, pending collective calls), of
which each entry follows from the one before by the call at that place in the script
(`Linked`, `After`), and that the books of each process are the entry of the number of
calls it has begun. Two that wait in collective calls have both come to the end of it,
and so wait in the same. All theorems have the hypothesis `EnoughHandles`: a program that
appends independently has a handle for every iteration. Without it the processes'
tables part, which `parallel_scarce` shows. Under it the counters may differ and decide
nothing (`AppendInv`: whatever was reserved is open).

**`DomainReaderProofs`.** `EveryFileIsRead` (`EveryFileRead`), `PositionsAreReal`
(`PositionsExist`), `PiecesExact` (`GridPieceExact`), `Spans` (`ContainerSpansEntries`) and
`TypeCorrect`, for every topology, grid, rotation and request. The invariant follows the
loops:

- `GridInv`: along each axis the files are a rotated line of slots, one behind the
  other (`LineInv`), that begins at a position k;
- `ZeroInv`: the search for k has k in its range, or has gone one step too far, which
  the next step takes back (`Straddles`). This is why it ends at k although it moves
  both ends;
- `FirstInv`: the search for the first file f of the request keeps f between its ends,
  and k never divides what is between them (`Encloses`), so that comparing offsets
  tells the side;
- `WalkInv`: the walk stands at a place relative to f and has seen exactly what comes
  before it (`WalkState`), although the loops change their own bounds;
- `SpanInv`: the first file that is added has the smallest offsets, and so `add()` never
  has to widen the container downwards;
- `ReadInv`: all that is in the container is a position of the topology whose file
  intersects the request. The four cases of `readGridInternal()` are only right for
  these (`PieceExact`): for others the subtractions wrap. It is also proved for
  requests that begin outside (`Reads`).

`DomainAssumption` bounds the topology below `SizeMod`, and files have at least one cell.

**`DomainAttributesProofs`.** About `DCDataSet`: `PartsTileExactly` (`PartsTile`),
`ContentsStayExact` (`ContentsExact`), `ChunksAlwaysFit` (`ChunksFit`), `DatasetTypeCorrect`,
all from `DatasetInvariant`: `Spec => []DataInv`. First comes what the operators compute.
`ChunkFacts`: a chunk of `getOptimalChunkDims()` lies in the data, and its bytes stay
within the sizes that are allowed, because each doubling brings them closer to the
target and a negative difference wraps to more than any other (2 times a chunk size is
at most `SizeMod`). `RowTiles`: the sums of the sizes before each place of a row cut it
without a gap, and `PartsTileBox`: three such rows cut the whole. `ElementsFacts`: adding
up from neighbour to neighbour comes to the same offsets as `Gather`. `SwapFacts` and
`SwapWithin`: swapping the axes twice is nothing, and keeps what is in a box.
`WriteStores`: a write puts the elements of a selection to their places and leaves
the others. In `DataInv`, `Holds` says that everything in `expected` is in its place. It
is not inductive alone: a process that writes its part must not touch what another has
stored. `Together` therefore adds that the dataset has the size the processes add up,
and that only those that have written their part have stored anything (`PartIsOwn`
then follows from the tiling). `Alone` is the same for a serial program: nobody waits,
and only what is one-dimensional grows, so that growing keeps every place
(`GrowthHolds`).

About `DomainAttributes`: `DomainsAreDatasets`, `DomainSpec => Spec`: every behaviour of a
collector of domains is one of a plain collector, whose theorems it inherits
(`DomainsKeepData`). `AttributesTypeCorrect`, `DomainIsWritten` (`DomainIsGiven`),
`HalfWrittenIsNotRead` (`HalfWrittenNotRead`) and `DomainReadIsExact` (`DomainReadExact`)
follow from `DomainInvariant`. `DomainInv` says that the names that are there are the
first n of the five, all five if some call has written all of them, and then those of
this call unless a later one tore them; that an attribute without a value is the last
of those that exist; and that none is without one once a call has written all. All five
exist without such a call only if the last one was created and its write failed, and
this is as far as `HalfWrittenNotRead` can go. Reading needs one thing more,
`Covers`: serial data of GridType never grows and is not larger than its domain. A
`DomainCollector` excuses data of size one that has a domain without elements;
`Covers` is why it never excuses data that has an element (`WrongSizeRefused`). That
the buffer is exact for requests that are `Found` is then `MetAxis`, the four cases of the copy along one axis, and
`ReadFacts`, which puts three axes together in the order of the file.

The assumptions are `DataSetAssumption` (topologies and strides are positive, chunk
sizes descend, selections have a count of 1 along the axes the data does not have, and
those of a whole buffer begin at its beginning) and
`AnnotationAssumption` (domains are numbers and not smaller than the data).

**`AttributeInfoProofs`.** `CountsRight`, `ReleasedInTime`, `LoadedIsOwn`,
`DimsReadBack` and `TypeCorrect`, the five properties of `attribute_ids`, for any
finite set of objects and any sets of ids and attributes. The inductive invariant
`IndInv` joins three of them, because none is inductive alone: `FileReleased` needs to
know that an open id has a holder (`CountedAndOpen`), `LoadedBelongs` that an id does
not change its attribute while it is held, for which the count must be right. To
these come what the types of the variables are (`BasicTypes`), that the file has the
dataspace that was given (`StoredAsGiven`), and that an object that has loaded a
dataspace of a collector knows its number of dimensions (`SpaceKnown`); the dataspace
may be scalar, and then that number is 0. The work is in `HoldersChange`: when one
object changes, the number of holders of an id changes by that object, a statement on
cardinalities from which the counts after `Assign` follow, also when both objects
were on one id. The assumptions are `ConstantsAssumption` (a finite set of objects,
dimensions that are numbers) and `NoneAssumption` (`None` is nothing else).

**`SplashToolsProofs`.** `EachFileOnce` (`EveryFileOnce`), `FailuresReported`
(`FailureReported`) and `TypeCorrect`, for any number of processes and files and any
command line. That the shares of the processes are disjoint and leave nothing out is
arithmetic on a division with a rest (`ShareOf`, `Holds`); that different indices name
different files is `GridPosition` of `NumberLemmas`. `Progress` says how far a process has
come in its share, and that a check is only taken off the list when its share is
done; `Report` that with nothing else to do the result of a process is that of its
check.

Only model-checked:

- liveness: `Terminates` of `DomainReader` and of `SplashTools`, `CallsReturn`. They rest on
  fairness, which the provers do not reason about;
- that the five runs that are expected to be violated are: each is a counterexample
  on a small instance;
- what the parallel collector does when a program appends independently with fewer
  handles than iterations: its theorems exclude it, and there they do not hold.

## 5. What is not modelled, and what comes next

Abstracted on purpose:

- *Data.* Values and types of elements and attributes, compression, how
  `DomainData` stores its elements. Where a collector is modelled, a dataset is
  there or not; `DCDataSet` has its extent and contents.
- *HDF5 ids.* Those of groups, types and dataspaces, which one call opens and closes
  and nobody shares; lost ones are kept as what they do to the file
  (`leakedRead`, `leakedWrite`).
- *Parallel failures.* HDF5 failures are collective. A failing `H5Fclose` is not
  modelled there; `HandleMgr` has it. There is one base file name, the processes
  see the directory as it is, and `getMaxID()` is asked within a session.
- *Composition of parallel collectors and data.* The collective calls of
  `ParallelDomainCollector` are those of `ParallelDataCollector`, whose model knows no
  extents; `DomainAttributes` has the extents and takes the calls as collective.
- *splashtools.* `deleteFromIteration()`, which is never called, and what is printed.
  `-p` with several processes, which never ends.
- *The rest.* `splash2xdmf.py`, tests, examples, logging, the tables of base types:
  no state or logic of their own that the properties would be about.

What may come next: a finer model of the collective calls of `ParallelDomainCollector`,
composed with the handle tables, so that `DomainSpec` is shown to be what the processes of
`ParallelDataCollector` do together; `TypeOK` of `ParallelDataCollector` without
`EnoughHandles`; and a measure for the loops of `readDomain()`, as a proof that each
iteration comes closer to the end.
