----------------------------- MODULE HandleMgr -----------------------------
(***************************************************************************)
(* splash::HandleMgr: the table of open HDF5 file handles every data        *)
(* collector works through. At most maxHandles files are open at a time;    *)
(* asking for one more closes the file leastAccIndex points to. In a        *)
(* session opened with H5F_ACC_TRUNC the first request for an index creates *)
(* its file and later requests open it read/write.                          *)
(*                                                                          *)
(* Around the manager there is the HDF5 library, modelled from how the code *)
(* uses it: the files on disk, and which of them the library holds open. An *)
(* H5Fcreate, H5Fopen or H5Fclose may fail at any time.                     *)
(*                                                                          *)
(* A definition named ...Mutant is a plausible bug: in place of the         *)
(* definition that follows it, it breaks a property of the module.          *)
(***************************************************************************)
EXTENDS Integers, Sequences, FiniteSets

CONSTANTS
    RequestedHandles,   \* constructor argument maxHandles; 0 asks for no limit
    Schemes,            \* naming schemes the owning collector switches between
    UInt32Max,          \* std::numeric_limits<uint32_t>::max()
    SizeMod,            \* 2^(bits of size_t): std::string::npos is SizeMod - 1
    Ids,                \* the indices (MPI ranks, iterations) callers ask for
    Names,              \* base names: [len, h5], h5 the places where ".h5" occurs
    Topologies,         \* MPI sizes passed to open(): triples <<X, Y, Z>>
    NoName              \* the empty file name of a closed manager

ASSUME HandlesAssumption ==
    /\ RequestedHandles \in Nat
    /\ UInt32Max \in Nat /\ UInt32Max > 1
    /\ RequestedHandles <= UInt32Max

ASSUME InputAssumption ==
    /\ Schemes \subseteq {"MPI", "ITERATIONS", "FULLNAME"}
    /\ Ids \subseteq Nat
    /\ Topologies \subseteq (Nat \ {0}) \X (Nat \ {0}) \X (Nat \ {0})
    /\ <<1, 1, 1>> \in Topologies

ASSUME NameAssumption ==
    /\ SizeMod \in Nat /\ SizeMod > 3
    /\ Names \subseteq [len : 0..(SizeMod - 2), h5 : SUBSET Nat]
    /\ \A n \in Names : \A p \in n.h5 : p + 3 <= n.len
    /\ NoName \notin Names

VARIABLES
    scheme,             \* fileNameScheme
    filename,           \* filename; NoName is the empty string
    fileFlags,          \* "RDONLY" is H5F_ACC_RDONLY, the 0 close() leaves behind
    mpiSize,
    handles,            \* index -> [file, ctr, live]; live: the id is still open
    leastAccIndex,      \* [index, ctr]
    createdFiles,       \* indices created in this session
    disk,               \* files that exist
    orphans,            \* files held open by an id that no table entry refers to
    written             \* files holding what the collector wrote in this session

mgrVars == <<scheme, filename, fileFlags, mpiSize, handles, leastAccIndex,
             createdFiles>>
vars == <<mgrVars, disk, orphans, written>>
sessionVars == <<scheme, filename, fileFlags, mpiSize>>

Flags == {"RDONLY", "RDWR", "TRUNC"}
CtrMod == UInt32Max + 1

MaxHandles == IF RequestedHandles = 0 THEN UInt32Max - 1 ELSE RequestedHandles

-----------------------------------------------------------------------------
(* File names and indices *)

\* std::string::find(".h5"): the first occurrence, npos when there is none.
Find(n) ==
    IF n.h5 = {} THEN SizeMod - 1
    ELSE CHOOSE p \in n.h5 : \A q \in n.h5 : p <= q

\* The test filename.find(".h5") == filename.length() - 3, in size_t.
IsFullName(n) == Find(n) = (n.len - 3) % SizeMod

IndexFromPosMutant(size, pos) ==
    pos[1] + pos[2] * size[1] + pos[3] * size[1] * size[3]

IndexFromPos(size, pos) ==
    pos[1] + pos[2] * size[1] + pos[3] * size[1] * size[2]

PosFromIndex(sch, size, i) ==
    IF sch = "MPI"
    THEN <<i % size[1], (i \div size[1]) % size[2], i \div (size[2] * size[1])>>
    ELSE <<i, 0, 0>>

\* The file of a position: the name and the suffix get() appends to it.
FileName(sch, name, pos) ==
    [base |-> name,
     suffix |-> CASE sch = "FULLNAME" \/ (name # NoName /\ IsFullName(name)) -> <<>>
                  [] sch = "MPI" -> pos
                  [] OTHER -> <<pos[1]>>]

File == [base : Names, suffix : Seq(Nat)]

\* Table index and file of a request. The positions callers pass lie inside
\* the topology, and each of those is the position of exactly one index, so
\* requests are enumerated by index.
IndexOfMutant(i) ==
    IF scheme # "FULLNAME" THEN 0
    ELSE IndexFromPos(mpiSize, PosFromIndex(scheme, mpiSize, i))

IndexOf(i) ==
    IF scheme = "FULLNAME" THEN 0
    ELSE IndexFromPos(mpiSize, PosFromIndex(scheme, mpiSize, i))

FileOf(i) == FileName(scheme, filename, PosFromIndex(scheme, mpiSize, i))

\* Positions of files that lie outside the topology are not asked for.
InTopology(i) == scheme = "MPI" => i < mpiSize[1] * mpiSize[2] * mpiSize[3]

-----------------------------------------------------------------------------
Init ==
    /\ scheme \in Schemes
    /\ filename = NoName
    /\ fileFlags = "RDONLY"
    /\ mpiSize = <<1, 1, 1>>
    /\ handles = [i \in {} |-> 0]
    /\ leastAccIndex = [index |-> 0, ctr |-> 0]
    /\ createdFiles = {}
    /\ disk = {}
    /\ orphans = {}
    /\ written = {}

-----------------------------------------------------------------------------
(* Opening *)

\* The data collectors open only when closed: fileStatus is FST_CLOSED, which
\* it becomes after a close() that did not throw.
Closed == filename = NoName /\ DOMAIN handles = {}

\* SerialDataCollector switches between one full name and one file per rank;
\* the manager of a ParallelDataCollector keeps one file per iteration.
SetFileNameScheme(s) ==
    /\ filename = NoName
    /\ s # scheme /\ "ITERATIONS" \notin {s, scheme}
    /\ scheme' = s
    /\ UNCHANGED <<filename, fileFlags, mpiSize, handles, leastAccIndex,
                   createdFiles, disk, orphans, written>>

\* open() for several files. A full name given to more than one process makes
\* it throw, but only after every member has been set. Iterations are not
\* distributed over a topology.
OpenMany(size, name, flags) ==
    /\ Closed
    /\ scheme # "FULLNAME"
    /\ scheme = "ITERATIONS" => size = <<1, 1, 1>>
    /\ mpiSize' = size
    /\ filename' = name
    /\ fileFlags' = flags
    /\ UNCHANGED <<scheme, handles, leastAccIndex, createdFiles, disk, orphans,
                   written>>

\* open() for a single file, by its full name.
OpenFull(name, flags) ==
    /\ Closed
    /\ scheme # "ITERATIONS"
    /\ "FULLNAME" \in Schemes
    /\ scheme' = "FULLNAME"
    /\ mpiSize' = <<1, 1, 1>>
    /\ filename' = name
    /\ fileFlags' = flags
    /\ UNCHANGED <<handles, leastAccIndex, createdFiles, disk, orphans, written>>

-----------------------------------------------------------------------------
(* get() *)

Victim == leastAccIndex.index

HasRoomMutant == Cardinality(DOMAIN handles) <= MaxHandles

HasRoomMutant2 == Cardinality(DOMAIN handles) + 1 < MaxHandles

HasRoom == Cardinality(DOMAIN handles) + 1 <= MaxHandles

\* handles.find(leastAccIndex.index) may miss, and then the code reads past the
\* end of the map; H5Fclose refuses what it finds there, as it refuses the id
\* of a file that is closed already.
CanEvict == Victim \in DOMAIN handles /\ handles[Victim].live

Without(h, i) == [j \in DOMAIN h \ {i} |-> h[j]]

\* The table and the least accessed index once there is room for one more.
TableAfterEviction == IF HasRoom THEN handles ELSE Without(handles, Victim)

LeastAfterEvictionMutant == leastAccIndex

LeastAfterEviction ==
    IF HasRoom THEN leastAccIndex ELSE [leastAccIndex EXCEPT !.ctr = 0]

MissWithRoom(i) == IndexOf(i) \notin DOMAIN handles /\ (HasRoom \/ CanEvict)

\* The new handle enters the table with one access.
Insert(index, file) ==
    /\ handles' =
        [j \in DOMAIN TableAfterEviction \union {index} |->
            IF j = index THEN [file |-> file, ctr |-> 1, live |-> TRUE]
                         ELSE TableAfterEviction[j]]
    /\ leastAccIndex' =
        IF LeastAfterEviction.ctr = 0 \/ 1 < LeastAfterEviction.ctr
        THEN [index |-> index, ctr |-> 1]
        ELSE LeastAfterEviction

MustCreateMutant(i) == fileFlags = "TRUNC" /\ FileOf(i) \notin disk
MustCreateMutant2(i) == fileFlags = "TRUNC"

MustCreate(i) == fileFlags = "TRUNC" /\ IndexOf(i) \notin createdFiles

GetHitMutant(i) ==
    LET index == IndexOf(i) IN
    /\ index \in DOMAIN handles
    /\ handles' = [handles EXCEPT ![index].ctr = (@ + 1) % CtrMod]
    /\ UNCHANGED <<leastAccIndex, sessionVars, createdFiles, disk, orphans, written>>

GetHitMutant2(i) ==
    LET index == IndexOf(i) IN
    /\ index \in DOMAIN handles
    /\ handles' = [handles EXCEPT ![index].ctr = @ + 1]
    /\ UNCHANGED <<leastAccIndex, sessionVars, createdFiles, disk, orphans, written>>

GetHit(i) ==
    LET index == IndexOf(i) IN
    /\ index \in DOMAIN handles
    /\ handles' = [handles EXCEPT ![index].ctr = (@ + 1) % CtrMod]
    /\ leastAccIndex' =
        IF leastAccIndex.index = index
        THEN [leastAccIndex EXCEPT !.ctr = (@ + 1) % CtrMod]
        ELSE leastAccIndex
    /\ UNCHANGED <<sessionVars, createdFiles, disk, orphans, written>>

\* H5Fclose of the victim fails: get() throws and the table is as before.
GetEvictFails(i) ==
    /\ IndexOf(i) \notin DOMAIN handles
    /\ ~HasRoom
    /\ UNCHANGED vars

\* H5Fcreate refuses to truncate a file the library holds open.
OpenElsewhere(f) ==
    \/ f \in orphans
    \/ \E j \in DOMAIN TableAfterEviction :
          TableAfterEviction[j].live /\ TableAfterEviction[j].file = f

\* H5Fcreate truncates whatever the file held.
GetCreate(i) ==
    /\ MissWithRoom(i)
    /\ MustCreate(i)
    /\ ~OpenElsewhere(FileOf(i))
    /\ Insert(IndexOf(i), FileOf(i))
    /\ createdFiles' = createdFiles \union {IndexOf(i)}
    /\ disk' = disk \union {FileOf(i)}
    /\ written' = written \ {FileOf(i)}
    /\ UNCHANGED <<sessionVars, orphans>>

\* The create callback throws: the file is created and counts as created, but
\* its id is lost before it enters the table.
GetCreateCallbackThrows(i) ==
    /\ MissWithRoom(i)
    /\ MustCreate(i)
    /\ ~OpenElsewhere(FileOf(i))
    /\ handles' = TableAfterEviction
    /\ leastAccIndex' = LeastAfterEviction
    /\ createdFiles' = createdFiles \union {IndexOf(i)}
    /\ disk' = disk \union {FileOf(i)}
    /\ orphans' = orphans \union {FileOf(i)}
    /\ written' = written \ {FileOf(i)}
    /\ UNCHANGED sessionVars

\* H5Fopen of an existing file, read/write in a creating session. The open
\* callback cannot fail.
GetOpen(i) ==
    /\ MissWithRoom(i)
    /\ ~MustCreate(i)
    /\ FileOf(i) \in disk
    /\ Insert(IndexOf(i), FileOf(i))
    /\ UNCHANGED <<sessionVars, createdFiles, disk, orphans, written>>

\* H5Fcreate or H5Fopen fails: get() throws after the eviction.
GetFails(i) ==
    /\ MissWithRoom(i)
    /\ handles' = TableAfterEviction
    /\ leastAccIndex' = LeastAfterEviction
    /\ UNCHANGED <<sessionVars, createdFiles, disk, orphans, written>>

Get(i) ==
    \/ GetHit(i)
    \/ GetEvictFails(i)
    \/ GetCreate(i)
    \/ GetCreateCallbackThrows(i)
    \/ GetOpen(i)
    \/ GetFails(i)

-----------------------------------------------------------------------------
\* A collector writes through the handle get() returned for an open file.
WriteThrough(index) ==
    /\ filename # NoName
    /\ fileFlags # "RDONLY"
    /\ index \in DOMAIN handles
    /\ handles[index].live
    /\ written' = written \union {handles[index].file}
    /\ UNCHANGED <<mgrVars, disk, orphans>>

ResetMembersMutant ==
    /\ filename' = NoName
    /\ fileFlags' = "RDONLY"
    /\ leastAccIndex' = [index |-> 0, ctr |-> 0]
    /\ mpiSize' = <<1, 1, 1>>
    /\ written' = {}
    /\ UNCHANGED <<scheme, createdFiles>>

\* close() resets its members before it closes the handles, in index order.
ResetMembers ==
    /\ createdFiles' = {}
    /\ filename' = NoName
    /\ fileFlags' = "RDONLY"
    /\ leastAccIndex' = [index |-> 0, ctr |-> 0]
    /\ mpiSize' = <<1, 1, 1>>
    /\ written' = {}
    /\ UNCHANGED scheme

Close ==
    /\ ResetMembers
    /\ \A j \in DOMAIN handles : handles[j].live
    /\ handles' = [j \in {} |-> 0]
    /\ UNCHANGED <<disk, orphans>>

\* The loop over the handles goes on behind the one that cannot be closed.
CloseFailsMutant(k) ==
    /\ k \in DOMAIN handles
    /\ handles[k].live
    /\ ResetMembers
    /\ handles' = [j \in DOMAIN handles |->
                     IF j # k THEN [handles[j] EXCEPT !.live = FALSE]
                              ELSE handles[j]]
    /\ UNCHANGED <<disk, orphans>>

\* H5Fclose fails for index k: close() throws with the table as it was, the
\* handles before k closed and those from k on not.
CloseFails(k) ==
    /\ k \in DOMAIN handles
    /\ \A j \in DOMAIN handles : j < k => handles[j].live
    /\ ResetMembers
    /\ handles' = [j \in DOMAIN handles |->
                     IF j < k THEN [handles[j] EXCEPT !.live = FALSE]
                              ELSE handles[j]]
    /\ UNCHANGED <<disk, orphans>>

Next ==
    \/ \E s \in Schemes : SetFileNameScheme(s)
    \/ \E size \in Topologies, n \in Names, fl \in Flags : OpenMany(size, n, fl)
    \/ \E n \in Names, fl \in Flags : OpenFull(n, fl)
    \/ \E i \in Ids : InTopology(i) /\ Get(i)
    \/ \E index \in DOMAIN handles : WriteThrough(index)
    \/ Close
    \/ \E k \in DOMAIN handles : CloseFails(k)

Spec == Init /\ [][Next]_vars

-----------------------------------------------------------------------------
(* Properties *)

Entry == [file : File, ctr : 0..UInt32Max, live : BOOLEAN]

TypeOK ==
    /\ scheme \in Schemes
    /\ filename \in Names \union {NoName}
    /\ fileFlags \in Flags
    /\ mpiSize \in Topologies
    /\ DOMAIN handles \subseteq Nat /\ IsFiniteSet(DOMAIN handles)
    /\ handles \in [DOMAIN handles -> Entry]
    /\ leastAccIndex \in [index : Nat, ctr : 0..UInt32Max]
    /\ createdFiles \subseteq Nat
    /\ disk \subseteq File
    /\ orphans \subseteq File
    /\ written \subseteq File

\* A session is on: opened and not yet closed.
InSession == filename # NoName

\* HandleMgr.cpp:161-178. When the table is full, the entry get() is about to
\* close exists and its file is open, whatever opens, failed creations and
\* throwing callbacks came before. Otherwise handles.find() returns end().
VictimIsOpen == InSession /\ ~HasRoom => CanEvict

\* HandleMgr.cpp:239-245. leastAccIndex.ctr is the access count of the entry
\* leastAccIndex.index names, also when the 32 bit counters wrap.
LeastCounterAgrees ==
    InSession =>
        \/ leastAccIndex.ctr = 0
        \/ /\ Victim \in DOMAIN handles
           /\ leastAccIndex.ctr = handles[Victim].ctr

\* HandleMgr.hpp:45-46. Never more open files in the table than maxHandles.
TableBounded == Cardinality(DOMAIN handles) <= MaxHandles

\* HandleMgr.cpp:246. The handle get() returns for an index is open, and open on
\* that index's file.
HandleOnItsFile ==
    InSession =>
        \A j \in DOMAIN handles : handles[j].live /\ handles[j].file = FileOf(j)

\* HandleMgr.cpp:198. A creating session holds no file open that it did not
\* create itself, so it never adds to a file of an earlier run.
OnlyCreatedFilesOpen ==
    InSession /\ fileFlags = "TRUNC" => DOMAIN handles \subseteq createdFiles

\* What makes VictimIsOpen inductive: outside the time a victim is tracked there
\* is room for one more handle.
VictimTracked ==
    \/ Victim \in DOMAIN handles /\ leastAccIndex.ctr = handles[Victim].ctr
    \/ Victim \notin DOMAIN handles /\ leastAccIndex.ctr = 0 /\ HasRoom

SessionInv ==
    /\ VictimTracked
    /\ HandleOnItsFile
    /\ OnlyCreatedFilesOpen
    /\ \A j \in DOMAIN handles : handles[j].file \in disk
    /\ fileFlags = "TRUNC" => written \subseteq {FileOf(i) : i \in createdFiles}
    /\ scheme = "FULLNAME" => DOMAIN handles \union createdFiles \subseteq {0}

\* HandleMgr.cpp:262-275. What a close() that failed leaves in the table are open
\* files of the disk, behind closed ones, also when get() is called or close() is
\* called again in that state. So a second close() either closes everything or
\* fails at the first entry, and closes nothing twice.
LeftByClose ==
    \A j \in DOMAIN handles :
        /\ handles[j].file \in disk
        /\ ~handles[j].live =>
              \A i \in DOMAIN handles : i < j => ~handles[i].live

ClosedInv ==
    /\ LeftByClose
    /\ fileFlags = "RDONLY"
    /\ createdFiles = {}
    /\ written = {}
    /\ DOMAIN handles = {} => leastAccIndex.ctr = 0

\* The inductive invariant: HandleMgr.cpp:151-248 keeps the table, the least
\* accessed index, the created files and the library's open files in step, in a
\* session and between sessions, also after a close() that failed half way.
IndInv ==
    /\ TypeOK
    /\ TableBounded
    /\ written \subseteq disk
    /\ InSession => SessionInv
    /\ ~InSession => ClosedInv

\* The session the manager's callers see.
Session == INSTANCE FileSession WITH
    mode <- IF filename = NoName THEN "CLOSED" ELSE fileFlags,
    created <- {FileOf(i) : i \in createdFiles},
    written <- written,
    disk <- disk

\* HandleMgr.cpp:198-209. The limited table is invisible: the manager implements
\* a session that creates every file at most once and loses nothing it wrote,
\* however often files are closed and opened again to make room.
ImplementsSession == Session!Spec
=============================================================================
