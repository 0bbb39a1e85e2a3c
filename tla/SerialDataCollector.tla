------------------------ MODULE SerialDataCollector ------------------------
(***************************************************************************)
(* splash::SerialDataCollector: the life of the HDF5 files one process      *)
(* opens, writes, reads and closes, one file after the other. A file holds a *)
(* header (the MPI size and, from the first close() on, the highest          *)
(* iteration) and a data group with one group per iteration, in which       *)
(* datasets and references lie in a tree of groups.                         *)
(*                                                                          *)
(* Handles come from a HandleMgr for a single file, of which the session and *)
(* the handle at index 0 are kept here. Calls into HDF5 may fail at any      *)
(* point of an operation: then the operation throws, and what it did before *)
(* stays done. Object ids it does not release keep the file open in the     *)
(* library, also after H5Fclose. The process may crash.                     *)
(*                                                                          *)
(* A definition named ...Mutant is a plausible bug: in place of the         *)
(* definition that follows it, it breaks a property of the module.          *)
(***************************************************************************)
EXTENDS Integers, Sequences, FiniteSets

CONSTANTS
    Programs,           \* [base, full, sizes, ids, names]: the file name passed to
                        \* open(), whether it ends in ".h5", the numbers of MPI
                        \* processes passed to open(), the iterations, the paths of
                        \* datasets in an iteration, such as <<"group", "dataset">>
    NoFile              \* the empty file name of a closed HandleMgr

ASSUME SerialAssumption ==
    \A p \in Programs :
        /\ p.full \in BOOLEAN
        /\ p.sizes \subseteq Nat \ {0} /\ 1 \in p.sizes
        /\ p.ids \subseteq Nat /\ 0 \in p.ids
        /\ NoFile \notin {p.base} \X Nat
        /\ \A n \in p.names :
              /\ n # <<>> /\ n \in Seq({n[k] : k \in 1..Len(n)})
              /\ \A k \in 1..Len(n) : SubSeq(n, 1, k) \in p.names

VARIABLES
    program,            \* which program it is
    fileStatus,
    maxID,
    mpiTopology,        \* number of MPI processes of the files
    filename,           \* the HandleMgr's session: a file, its access flags and
    fileFlags,          \*   whether the session has created the file
    created,
    handle,             \* the file the handle at index 0 is open on, or NoFile
    store,              \* the files on disk: file -> contents
    leakedRead,         \* files kept open by ids nobody releases any more,
    leakedWrite,        \*   in files opened read-only and read/write
    uncounted,          \* iterations maxID need not cover, after a failure, and
    unrecorded          \*   the ones, as <<file, iteration>>, the header of a file
                        \*   does not cover before close() or after a failure

session == <<filename, fileFlags, created, handle>>
leaks == <<leakedRead, leakedWrite>>
covers == <<uncounted, unrecorded>>
vars == <<program, fileStatus, maxID, mpiTopology, session, store, leaks, covers>>

Sizes == program.sizes
Ids == program.ids
Names == program.names

Writable == fileStatus \in {"CREATING", "WRITING"}
Readable == fileStatus \in {"READING", "WRITING", "MERGING"}

-----------------------------------------------------------------------------
(* Files *)

\* getFullFilename(): positions are ranks 0 .. size - 1.
FullFilename(pos) == <<program.base, IF program.full THEN 0 ELSE pos>>
FullNameRefused(size) == program.full /\ size # 1

Files == {program.base} \X UNION {0..(n - 1) : n \in Sizes}

\* What an iteration holds under a name: a dataset, a reference, a group.
Kinds == {"none", "data", "ref", "group"}

Object(c, id, n) == c.obj[<<id, n>>]
HasData(c, id) == \E n \in Names : Object(c, id, n) = "data"

EmptyFile ==
    [header |-> FALSE, size |-> 0, maxid |-> -1, groups |-> {},
     obj |-> [x \in Ids \X Names |-> "none"], damaged |-> FALSE]

Header(c, size) == [c EXCEPT !.header = TRUE, !.size = size]
IdGroup(c, id) == [c EXCEPT !.groups = @ \union {id}]

-----------------------------------------------------------------------------
(* The groups of an iteration *)

\* DCDataSet::splitPath(): what comes before the last '/'; <<>> is the iteration's
\* own group.
Dir(n) == SubSeq(n, 1, Len(n) - 1)

Upto(d) == {SubSeq(d, 1, k) : k \in 1..Len(d)}
Below(n) == {m \in Names : Len(m) > Len(n) /\ SubSeq(m, 1, Len(n)) = n}

\* DCGroup::open()
IsGroup(c, id, d) ==
    id \in c.groups /\ \A k \in Upto(d) : Object(c, id, k) = "group"

\* DCGroup::create(): a dataset on the path is an error.
Blocked(c, id, d) == \E k \in Upto(d) : Object(c, id, k) \in {"data", "ref"}

MakeGroups(c, id, d) ==
    [IdGroup(c, id) EXCEPT
       !.obj = [x \in DOMAIN @ |->
                  IF x[1] = id /\ x[2] \in Upto(d) THEN "group" ELSE @[x]]]

\* An object takes the place of another, which goes with all that lies below it.
Put(c, id, n, kind) ==
    [MakeGroups(c, id, Dir(n)) EXCEPT
       !.obj = [x \in DOMAIN @ |->
                  IF x = <<id, n>> THEN kind
                  ELSE IF x[1] = id /\ x[2] \in Below(n) THEN "none"
                  ELSE @[x]]]

\* Only what lies in the iteration's own group is listed.
EntriesMutant(c, id) ==
    {n \in Names : id \in c.groups /\ Len(n) = 1 /\ Object(c, id, n) \in {"data", "ref"}}

\* getEntriesInternal() goes down the groups of the iteration and counts datasets,
\* references among them.
Entries(c, id) ==
    {n \in Names : IsGroup(c, id, Dir(n)) /\ Object(c, id, n) \in {"data", "ref"}}

-----------------------------------------------------------------------------
(* handles.get(0) *)

Truncates == handle = NoFile /\ fileFlags = "TRUNC" /\ ~created

\* HDF5 does not truncate a file it holds open, nor open one read/write that it
\* holds open read-only.
\* A merged session over 0 ranks divides by zero when it looks for a rank.
CanGet ==
    \/ handle # NoFile
    \/ /\ filename # NoFile
       /\ fileStatus = "MERGING" => mpiTopology > 0
       /\ IF Truncates THEN filename \notin leakedRead \union leakedWrite
          ELSE /\ filename \in DOMAIN store
               /\ ~store[filename].damaged
               /\ fileFlags # "RDONLY" => filename \notin leakedRead

Target == IF handle # NoFile THEN handle ELSE filename

\* The files when f has contents c.
Storing(f, c) ==
    [g \in {f} \union DOMAIN store |-> IF g = f THEN c ELSE store[g]]

Contents == IF Truncates THEN EmptyFile ELSE store[Target]

\* After get(0) the file is open; an operation through the handle leaves it with
\* contents c.
Leave(c) ==
    /\ CanGet
    /\ handle' = Target
    /\ created' = (created \/ Truncates)
    /\ store' = Storing(Target, c)
    /\ UNCHANGED <<filename, fileFlags>>

\* The iterations of a file, as pairs. The header does not cover yet what comes
\* into an iteration that had no data, and need not cover one that has none left.
Of(f, ids) == {f} \X ids

Track(ids) ==
    unrecorded' = {p \in unrecorded \union Of(Target, {id \in ids : ~HasData(Contents, id)}) :
                     p[1] = Target => HasData(store'[Target], p[2])}

\* An id of the file is lost: the file stays open in the library.
Leak(lost) ==
    IF ~lost THEN UNCHANGED leaks
    ELSE IF Writable THEN leakedWrite' = leakedWrite \union {Target} /\ UNCHANGED leakedRead
    ELSE leakedRead' = leakedRead \union {Target} /\ UNCHANGED leakedWrite

-----------------------------------------------------------------------------
Init ==
    /\ program \in Programs
    /\ fileStatus = "CLOSED"
    /\ maxID = -1
    /\ mpiTopology = 1
    /\ filename = NoFile /\ fileFlags = "RDONLY" /\ created = FALSE /\ handle = NoFile
    /\ store = << >>
    /\ leakedRead = {} /\ leakedWrite = {} /\ uncounted = {} /\ unrecorded = {}

-----------------------------------------------------------------------------
(* open() *)

OpenSession(f, flags) == filename' = f /\ fileFlags' = flags

\* What openCreate() leaves of a file, and whether it loses the header group:
\* it stops at the first step that fails.
CreateResults(size) ==
    {<<EmptyFile, FALSE>>, <<Header(EmptyFile, 0), TRUE>>}
    \union ({Header(EmptyFile, size)} \X BOOLEAN)

CreateFile(f, size) ==
    /\ OpenSession(f, "TRUNC")
    /\ maxID' = 0
    /\ mpiTopology' = size
    /\ UNCHANGED uncounted
    /\ \/ UNCHANGED <<created, handle, store, leaks, unrecorded>>
       \/ /\ f \notin leakedRead \union leakedWrite
          /\ created' = TRUE /\ handle' = f
          /\ unrecorded' = unrecorded \ Of(f, Ids)
          /\ \E r \in CreateResults(size) :
               /\ store' = Storing(f, r[1])
               /\ leakedWrite' = IF r[2] THEN leakedWrite \union {f} ELSE leakedWrite
          /\ UNCHANGED leakedRead

RefuseFullName ==
    UNCHANGED <<maxID, mpiTopology, session, store, leaks, covers>>

OpenCreate(pos, size) ==
    /\ fileStatus = "CLOSED"
    /\ fileStatus' = "CREATING"
    /\ IF FullNameRefused(size) THEN RefuseFullName
       ELSE CreateFile(FullFilename(pos), size)

\* SDCHelper::getReferenceData(). It reads max_id before mpi_size, and loses the
\* header group when it cannot read one of them. An mpi_size that openCreate() has
\* created and not written is read as 0.
ReferenceComplete(c) == ~c.damaged /\ c.header /\ c.maxid >= 0

\* A session that adds to a file starts to count at 0.
ReferenceDataMutant(f) ==
    /\ ReferenceComplete(store[f])
    /\ maxID' = 0
    /\ mpiTopology' = store[f].size
    /\ uncounted' = {id \in Ids : <<f, id>> \in unrecorded}
    /\ UNCHANGED <<created, handle, store, leaks, unrecorded>>

ReferenceData(f) ==
    /\ ReferenceComplete(store[f])
    /\ maxID' = store[f].maxid
    /\ mpiTopology' = store[f].size
    /\ uncounted' = {id \in Ids : <<f, id>> \in unrecorded}
    /\ UNCHANGED <<created, handle, store, leaks, unrecorded>>

ReferenceDataFails(f) ==
    /\ UNCHANGED <<mpiTopology, session, store, covers, leakedWrite>>
    /\ \/ UNCHANGED <<maxID, leakedRead>>
       \/ /\ ~store[f].damaged /\ store[f].header
          /\ maxID' \in {maxID, IF store[f].maxid >= 0 THEN store[f].maxid ELSE maxID}
          /\ leakedRead' = leakedRead \union ({f} \ leakedWrite)

OpenExisting(f, flags) ==
    \/ ReferenceData(f) /\ OpenSession(f, flags)
    \/ ReferenceDataFails(f)

OpenWrite(pos, size) ==
    LET f == FullFilename(pos) IN
    /\ fileStatus = "CLOSED"
    /\ \/ /\ FullNameRefused(size)
          /\ fileStatus' = "WRITING"
          /\ RefuseFullName
       \/ /\ ~FullNameRefused(size) /\ f \in DOMAIN store
          /\ fileStatus' = "WRITING"
          /\ OpenExisting(f, "RDWR")
       \/ /\ ~FullNameRefused(size) /\ f \notin DOMAIN store
          /\ fileStatus' = "CREATING"
          /\ CreateFile(f, size)

\* A missing file leaves the collector closed.
OpenRead(pos) ==
    LET f == FullFilename(pos) IN
    /\ fileStatus = "CLOSED"
    /\ f \in DOMAIN store
    /\ fileStatus' = "READING"
    /\ OpenExisting(f, "RDONLY")

\* The session covers the files of all ranks; rank 0's file is the one at
\* index 0. A full name for several ranks throws when all of this is done.
OpenMerge ==
    LET f == FullFilename(0) IN
    /\ fileStatus = "CLOSED"
    /\ f \in DOMAIN store
    /\ fileStatus' = "MERGING"
    /\ OpenExisting(f, "RDONLY")

-----------------------------------------------------------------------------
(* close() *)

ResetSessionMutant ==
    /\ mpiTopology' = 1
    /\ filename' = NoFile /\ fileFlags' = "RDONLY" /\ created' = FALSE
    /\ UNCHANGED maxID

ResetSession ==
    /\ maxID' = -1
    /\ mpiTopology' = 1
    /\ filename' = NoFile /\ fileFlags' = "RDONLY" /\ created' = FALSE

RecordsMaxIDMutant == Writable /\ maxID > 0

RecordsMaxID == Writable /\ maxID >= 0

\* The highest iteration goes into the header, which may have to get the attribute
\* first. It then covers what maxID counts.
WriteMaxID ==
    /\ CanGet
    /\ \/ /\ Contents.header
          /\ store' = Storing(Target, [Contents EXCEPT !.maxid = maxID])
          /\ unrecorded' = (unrecorded \ Of(Target, Ids)) \union Of(Target, uncounted)
       \/ /\ Contents.header /\ Contents.maxid = -1
          /\ store' = Storing(Target, [Contents EXCEPT !.maxid = 0])
          /\ Track({})
       \/ store' = Storing(Target, Contents) /\ Track({})

\* When that fails, close() carries on.
RecordMaxID ==
    IF RecordsMaxID THEN WriteMaxID \/ UNCHANGED <<store, unrecorded>>
    ELSE /\ UNCHANGED store
         /\ unrecorded' = IF Writable THEN unrecorded \ Of(Target, Ids \ uncounted)
                          ELSE unrecorded

Close ==
    /\ fileStatus # "CLOSED"
    /\ RecordMaxID
    /\ ResetSession
    /\ handle' = NoFile
    /\ fileStatus' = "CLOSED"
    /\ uncounted' = {}
    /\ UNCHANGED leaks

\* H5Fclose fails: close() throws before it changes the status. The handle stays
\* in the table, and nothing is counted any more.
CloseFails ==
    /\ fileStatus # "CLOSED"
    /\ IF RecordsMaxID THEN WriteMaxID /\ handle' = Target
       ELSE handle # NoFile /\ UNCHANGED <<store, unrecorded, handle>>
    /\ ResetSession
    /\ uncounted' = IF Writable THEN Ids ELSE {}
    /\ UNCHANGED <<fileStatus, leaks>>

-----------------------------------------------------------------------------
(* Writing *)

CountIDMutant(id) == maxID' = maxID + 1

CountID(id) == maxID' = IF id > maxID THEN id ELSE maxID

\* A call fails in get(0), or goes through the handle and ends in one of a set of
\* results: the contents it leaves, and whether an object id of the file is lost.
\* It stores data in no iteration but those in ids.
Passes(results, ids) ==
    \/ UNCHANGED <<session, store, leaks, unrecorded>>
    \/ CanGet /\ \E r \in results : Leave(r[1]) /\ Leak(r[2]) /\ Track(ids)

Through(results) == Passes(results, {}) /\ UNCHANGED uncounted

\* openCreate() of a group stops at a dataset, or fails after any of the groups on
\* the path.
GroupFails(c, id, d) ==
    ({c} \union IF Blocked(c, id, d) THEN {}
                ELSE {MakeGroups(c, id, SubSeq(d, 1, k)) : k \in 0..Len(d)}) \X {FALSE}

\* DCDataSet::create() unlinks an object of the same name before it creates the
\* new one. A dataset that cannot be written afterwards is not closed.
DataResults(c, id, n) ==
    IF Blocked(c, id, Dir(n)) THEN {}
    ELSE {<<Put(c, id, n, "none"), FALSE>>} \union ({Put(c, id, n, "data")} \X BOOLEAN)

WriteResults(c, id, n) == GroupFails(c, id, Dir(n)) \union DataResults(c, id, n)

WriteMutant(id, n) ==
    /\ fileStatus # "CLOSED"
    /\ CountID(id)
    /\ Passes(WriteResults(Contents, id, n), {id})
    /\ uncounted' = uncounted \ {id}
    /\ UNCHANGED <<fileStatus, mpiTopology>>

Write(id, n) ==
    /\ Writable
    /\ CountID(id)
    /\ Passes(WriteResults(Contents, id, n), {id})
    /\ uncounted' = uncounted \ {id}
    /\ UNCHANGED <<fileStatus, mpiTopology>>

\* An existing dataset is extended, or stays open when that fails.
AppendResults(c, id, n) ==
    GroupFails(c, id, Dir(n)) \union
    CASE Object(c, id, n) = "none" -> DataResults(c, id, n)
      [] Object(c, id, n) = "group" -> {}
      [] OTHER -> {c} \X BOOLEAN

AppendData(id, n) ==
    /\ Writable
    /\ CountID(id)
    /\ Passes(AppendResults(Contents, id, n), {id})
    /\ uncounted' = uncounted \ {id}
    /\ UNCHANGED <<fileStatus, mpiTopology>>

\* The missing groups of the path are created, the last one for the object itself.
AttributeResults(c, id, n) ==
    IF Object(c, id, n) # "none" THEN {<<c, FALSE>>} ELSE GroupFails(c, id, n)

WriteAttribute(id, n) ==
    /\ Writable
    /\ Through(AttributeResults(Contents, id, n))
    /\ UNCHANGED <<fileStatus, maxID, mpiTopology>>

\* writeAttribute() without a dataset name.
WriteGroupAttribute(id) ==
    /\ Writable
    /\ Through(GroupFails(Contents, id, <<>>))
    /\ UNCHANGED <<fileStatus, maxID, mpiTopology>>

\* The destination's group is created before the source is opened. The source
\* stays open when the reference cannot be created. Only equal pointers to the two
\* names are refused, so a reference may be asked for in its own place.
ReferenceResults(c, src, srcName, dst, dstName) ==
    LET g == MakeGroups(c, dst, Dir(dstName)) IN
    IF ~IsGroup(c, src, Dir(srcName)) THEN {<<c, FALSE>>}
    ELSE GroupFails(c, dst, Dir(dstName)) \union
         IF Object(c, src, srcName) \notin {"data", "ref"}
              \/ Blocked(c, dst, Dir(dstName)) THEN {}
         ELSE {<<g, TRUE>>} \union
              IF Object(c, dst, dstName) # "none" THEN {}
              ELSE {Put(c, dst, dstName, "ref")} \X BOOLEAN

CreateReference(src, srcName, dst, dstName) ==
    /\ Writable
    /\ Through(ReferenceResults(Contents, src, srcName, dst, dstName))
    /\ UNCHANGED <<fileStatus, maxID, mpiTopology>>

-----------------------------------------------------------------------------
(* Removing *)

Without(c, id) ==
    [c EXCEPT !.groups = @ \ {id},
              !.obj = [x \in DOMAIN @ |-> IF x[1] = id THEN "none" ELSE @[x]]]

HighestEntryMutant(c) == 0

HighestEntry(c) == CHOOSE m \in c.groups \union {0} : \A id \in c.groups : id <= m

RemoveIterationMutant(id) ==
    /\ CanGet
    /\ id \in Contents.groups
    /\ Leave(Without(Contents, id))
    /\ maxID' = HighestEntry(Without(Contents, id))
    /\ Track({}) /\ uncounted' = {}
    /\ UNCHANGED <<fileStatus, mpiTopology, leaks>>

\* remove(id): the highest iteration is looked up again among the entries.
RemoveIteration(id) ==
    /\ Writable
    /\ CanGet
    /\ id \in Contents.groups
    /\ Leave(Without(Contents, id))
    /\ maxID' = HighestEntry(Without(Contents, id))
    /\ Track({}) /\ uncounted' = {}
    /\ UNCHANGED <<fileStatus, mpiTopology, leaks>>

\* The entries cannot be listed: remove(id) throws with the highest iteration at 0.
RemoveIterationUnlisted(id) ==
    /\ Writable
    /\ CanGet
    /\ id \in Contents.groups
    /\ Leave(Without(Contents, id))
    /\ maxID' = 0
    /\ Track({}) /\ uncounted' = Ids
    /\ UNCHANGED <<fileStatus, mpiTopology, leaks>>

\* remove(id, name) leaves the iteration and the highest iteration as they are. A
\* name of a group removes what is in it.
RemoveDataset(id, n) ==
    /\ Writable
    /\ CanGet
    /\ Object(Contents, id, n) # "none"
    /\ Through({<<Put(Contents, id, n, "none"), FALSE>>})
    /\ UNCHANGED <<fileStatus, maxID, mpiTopology>>

-----------------------------------------------------------------------------
(* Reading *)

IsDataset(c, id, n) == Object(c, id, n) \in {"data", "ref"}

\* A dataset that cannot be read is not closed.
ReadResults(c, id, n) ==
    {c} \X IF IsDataset(c, id, n) THEN BOOLEAN ELSE {FALSE}

Read(id, n) ==
    /\ Readable
    /\ CanGet
    /\ Through(ReadResults(Contents, id, n))
    /\ UNCHANGED <<fileStatus, maxID, mpiTopology>>

\* readMeta() asks for the handle of the iteration, which in a merged session is
\* that of the rank of the same number. A full name is the file of every rank.
MetaFile(id) ==
    IF fileStatus # "MERGING" \/ program.full THEN Target
    ELSE IF id < mpiTopology THEN FullFilename(id)
    ELSE NoFile

\* It opens the dataset, then looks for it among the iteration's entries.
MetaResults(c, id, n) ==
    IF IsDataset(c, id, n) /\ n \notin Entries(c, id) THEN {<<c, TRUE>>}
    ELSE ReadResults(c, id, n)

ReadMeta(id, n) ==
    /\ Readable
    /\ CanGet
    /\ MetaFile(id) = Target
    /\ Through(MetaResults(Contents, id, n))
    /\ UNCHANGED <<fileStatus, maxID, mpiTopology>>

\* The handle of another rank stays in the table for close(); an id may be lost.
ReadMetaOfRank(id, n) ==
    /\ Readable
    /\ filename # NoFile
    /\ MetaFile(id) \in DOMAIN store \ {Target}
    /\ LET c == store[MetaFile(id)] IN
       /\ ~c.damaged
       /\ \E r \in MetaResults(c, id, n) :
             leakedRead' = IF r[2] THEN leakedRead \union {MetaFile(id)} ELSE leakedRead
    /\ UNCHANGED <<fileStatus, maxID, mpiTopology, session, store, leakedWrite, covers>>

\* getEntryIDs(), getEntriesForID() and the attribute calls only get a handle;
\* the first two ask for no status.
Look ==
    /\ CanGet
    /\ Through({<<Contents, FALSE>>})
    /\ UNCHANGED <<fileStatus, maxID, mpiTopology>>

-----------------------------------------------------------------------------
\* The process is killed. A file it was writing may be beyond use, and what close()
\* put in the header of one that stayed open need not be on the disk.
Crash ==
    /\ fileStatus' = "CLOSED" /\ maxID' = -1 /\ mpiTopology' = 1
    /\ filename' = NoFile /\ fileFlags' = "RDONLY" /\ created' = FALSE
    /\ handle' = NoFile
    /\ leakedRead' = {} /\ leakedWrite' = {}
    /\ uncounted' = {}
    /\ LET held == IF Writable THEN {handle} \ {NoFile} ELSE {}
           stayed == leakedWrite \union IF filename = NoFile THEN held ELSE {}
       IN
       /\ unrecorded' = unrecorded \union {p \in stayed \X Ids : HasData(store[p[1]], p[2])}
       /\ \E bad \in SUBSET (leakedWrite \union held) :
            store' = [f \in DOMAIN store |->
                        [store[f] EXCEPT !.damaged = @ \/ f \in bad]]

Next == UNCHANGED program /\ (
    \/ \E size \in Sizes : \E pos \in 0..(size - 1) :
          OpenCreate(pos, size) \/ OpenWrite(pos, size) \/ OpenRead(pos)
    \/ OpenMerge
    \/ Close
    \/ CloseFails
    \/ \E id \in Ids, n \in Names :
          \/ Write(id, n) \/ AppendData(id, n)
          \/ WriteAttribute(id, n)
          \/ RemoveDataset(id, n)
          \/ Read(id, n) \/ ReadMeta(id, n) \/ ReadMetaOfRank(id, n)
          \/ \E dst \in Ids, m \in Names : CreateReference(id, n, dst, m)
    \/ \E id \in Ids :
          \/ WriteGroupAttribute(id)
          \/ RemoveIteration(id) \/ RemoveIterationUnlisted(id)
    \/ Look
    \/ Crash)

Spec == Init /\ [][Next]_vars

-----------------------------------------------------------------------------
(* Properties *)

Content ==
    [header : BOOLEAN, size : Sizes \union {0}, maxid : Ids \union {-1, 0},
     groups : SUBSET Ids, obj : [Ids \X Names -> Kinds], damaged : BOOLEAN]

TypeOK ==
    /\ program \in Programs
    /\ fileStatus \in {"CLOSED", "CREATING", "WRITING", "READING", "MERGING"}
    /\ maxID \in Ids \union {-1}
    /\ mpiTopology \in Sizes \union {0}
    /\ filename \in Files \union {NoFile}
    /\ fileFlags \in {"RDONLY", "RDWR", "TRUNC"}
    /\ created \in BOOLEAN
    /\ handle \in Files \union {NoFile}
    /\ DOMAIN store \subseteq Files
    /\ \A f \in DOMAIN store : store[f] \in Content
    /\ leakedRead \subseteq Files /\ leakedWrite \subseteq Files
    /\ uncounted \subseteq Ids /\ unrecorded \subseteq Files \X Ids

\* SerialDataCollector.cpp:532, :569, :604-612, :176-186, :857. The highest iteration
\* of a file in which write() or append() stored data is never too low. The header
\* covers every iteration with data but those that came since the last close(), which
\* a crash or a failure there may lose; until close() rewrites it, it is not worse
\* for a remove(id) or a close() that fails. getMaxID() of a session covers
\* what the header covered and what the session wrote, after such a failure at least
\* what it wrote since, and from the next remove(id) that succeeds everything again.
MaxIDCovers ==
    \A f \in DOMAIN store : \A id \in Ids :
        HasData(store[f], id) =>
            /\ <<f, id>> \notin unrecorded => id <= store[f].maxid
            /\ Writable /\ f = handle /\ id \notin uncounted => id <= maxID

\* DCGroup.cpp:169-219, DCDataSet.cpp:210-212. Every dataset and reference a file
\* stores is among the entries of its iteration, under the name read() takes,
\* whatever took the place of an object on its path before.
StoredIsListed ==
    \A f \in DOMAIN store : \A id \in Ids, n \in Names :
        IsDataset(store[f], id, n) => n \in Entries(store[f], id)

\* SerialDataCollector.cpp:190-198, :145-146. Whatever failed before, a closed
\* collector holds nothing of an earlier session, in particular no handle: open()
\* always opens a HandleMgr that is closed.
ClosedIsReset ==
    fileStatus = "CLOSED" =>
        /\ maxID = -1 /\ mpiTopology = 1
        /\ filename = NoFile /\ handle = NoFile
        /\ fileFlags = "RDONLY" /\ ~created

\* SerialDataCollector.cpp:324, :423, :526, :563, :595, :624, :651. Only the file of
\* a session opened for writing is ever changed, also through a handle that a
\* failed open() or close() left behind.
OnlySessionFileChanges ==
    [][\A f \in DOMAIN store :
         store'[f] # store[f] =>
             \/ /\ Writable \/ fileStatus' = "CREATING"
                /\ f \in {handle, filename, handle'}
             \/ store'[f] = [store[f] EXCEPT !.damaged = TRUE]]_vars

\* DataCollector.hpp:474-476: readMeta() "Reads meta data from HDF5 file", "id" being
\* the "ID of iteration": it finds every dataset that read() finds.
ReadMetaFindsData ==
    Readable /\ filename # NoFile /\ CanGet =>
        \A id \in Ids : HasData(Contents, id) =>
            /\ MetaFile(id) \in DOMAIN store
            /\ HasData(store[MetaFile(id)], id)

=============================================================================
