----------------------- MODULE ParallelDataCollector ------------------------
(***************************************************************************)
(* splash::ParallelDataCollector: the MPI processes of a program share one  *)
(* HDF5 file per iteration. Every process has a collector with a handle     *)
(* table of its own; the HDF5 calls that open, close and change a file are  *)
(* collective, so that a process that makes one waits until all processes   *)
(* make the same one. Nothing tells the processes of each other's tables:   *)
(* that they open and close the same files in the same order follows from   *)
(* each of them deciding the same, from what it alone has seen.             *)
(*                                                                          *)
(* The program is SPMD: its processes make the same collective calls in the *)
(* same order, each at its own pace. append() is the exception: "append     *)
(* calls which are not collective but must be preceded by a collective      *)
(* reserve call" (UserManual.tex:484).                                      *)
(*                                                                          *)
(* A definition named ...Mutant is a plausible bug: in place of the         *)
(* definition that follows it, it breaks a property of the module.          *)
(***************************************************************************)
EXTENDS Integers, Sequences, FiniteSets

CONSTANTS
    Ranks,          \* the MPI processes
    Iterations,     \* ids: numbers
    Programs,       \* [limit, used, ids]: constructor argument maxFileHandles,
                    \* the kinds of access the program makes, to which iterations
    CtrMod,         \* 2^32, scaled down: access counters wrap
    MaxAhead        \* bound: collective calls a process is ahead of another

AllKinds ==
    {"write", "reserve", "append", "remove", "removeDataset", "createReference",
     "writeAttribute", "writeNewAttribute", "writeGlobalAttribute",
     "readAttribute", "readGlobalAttribute", "read", "readMeta", "getEntries"}

ASSUME ParallelAssumption ==
    /\ Ranks # {} /\ IsFiniteSet(Ranks)
    /\ Iterations \subseteq Nat /\ IsFiniteSet(Iterations)
    /\ CtrMod \in Nat /\ CtrMod > 2
    /\ MaxAhead \in Nat \ {0}
    /\ \A p \in Programs :
         /\ p.limit \in Nat \ {0}
         /\ p.used \subseteq AllKinds /\ p.ids \subseteq Iterations

VARIABLES
    program,        \* which program it is
    fileStatus,     \* rank -> "CLOSED", or the HDF5 flags of its session
    tables,         \* rank -> [open, least, created], its HandleMgr
    maxID,          \* rank -> options.maxID
    reserved,       \* rank -> iterations it reserved in this session
    todo,           \* rank -> collective HDF5 calls its current call still makes
    script,         \* calls some but not all processes have begun
    begun,          \* rank -> how many of them it has begun
    disk            \* iterations that have a file

rankVars == <<fileStatus, tables, maxID, reserved, todo>>
scriptVars == <<script, begun>>
vars == <<program, rankVars, scriptVars, disk>>

Modes == {"RDONLY", "RDWR", "TRUNC"}
EmptyTable == [open |-> [i \in {} |-> 0], least |-> [index |-> 0, ctr |-> 0],
               created |-> {}]

\* Every process lists the directory for itself.
ListedMaxID(old) ==
    IF disk = {} THEN old ELSE CHOOSE m \in disk : \A i \in disk : i <= m

Init ==
    /\ program \in Programs
    /\ fileStatus = [r \in Ranks |-> "CLOSED"]
    /\ tables = [r \in Ranks |-> EmptyTable]
    /\ maxID = [r \in Ranks |-> -1]
    /\ reserved = [r \in Ranks |-> {}]
    /\ todo = [r \in Ranks |-> <<>>]
    /\ script = <<>>
    /\ begun = [r \in Ranks |-> 0]
    /\ disk \in SUBSET program.ids

-----------------------------------------------------------------------------
(* HandleMgr::get in one process *)

Full(t) == Cardinality(DOMAIN t.open) + 1 > program.limit

Hits(t, i, n) ==
    [open |-> [t.open EXCEPT ![i] = (@ + n) % CtrMod],
     least |-> [index |-> t.least.index,
                ctr |-> IF t.least.index = i THEN (t.least.ctr + n) % CtrMod
                        ELSE t.least.ctr],
     created |-> t.created]

\* The file of f is closed: in get() to make room, and then it leaves the table.
Drop(t, f) ==
    IF f \notin DOMAIN t.open THEN t
    ELSE [open |-> [i \in DOMAIN t.open \ {f} |-> t.open[i]],
          least |-> [index |-> t.least.index, ctr |-> 0],
          created |-> t.created]

Enter(t, i) ==
    [open |-> [j \in DOMAIN t.open \union {i} |-> IF j = i THEN 1 ELSE t.open[j]],
     least |-> IF t.least.ctr = 0 \/ 1 < t.least.ctr THEN [index |-> i, ctr |-> 1]
               ELSE t.least,
     created |-> t.created]

Op(do, i) == [do |-> do, file |-> i]

MustCreate(r, i) == fileStatus[r] = "TRUNC" /\ i \notin tables[r].created

\* The collective calls of handles.get(i).
GetOps(r, i) ==
    LET t == tables[r] IN
    IF i \in DOMAIN t.open THEN <<>>
    ELSE (IF Full(t) THEN <<Op("close", t.least.index)>> ELSE <<>>)
           \o <<Op(IF MustCreate(r, i) THEN "create" ELSE "open", i)>>

AfterGet(t, i) == IF i \in DOMAIN t.open THEN Hits(t, i, 1) ELSE t

-----------------------------------------------------------------------------
(* Calls *)

Writing(r) == fileStatus[r] \in {"RDWR", "TRUNC"}
Reading(r) == fileStatus[r] \in {"RDONLY", "RDWR"}

Calls == [kind : {"open"}, mode : Modes]
         \union [kind : {"close", "getMaxID"}]
         \union [kind : AllKinds \ {"append"}, id : Iterations]

Used(c) ==
    \/ c.kind \in {"open", "close", "getMaxID"}
    \/ c.kind \in program.used /\ c.id \in program.ids

\* open() opens no file yet.
OpenCreate(r) == maxID' = [maxID EXCEPT ![r] = -1]
OpenRead(r) == maxID' = [maxID EXCEPT ![r] = ListedMaxID(@)]
OpenWrite(r) == maxID' = [maxID EXCEPT ![r] = ListedMaxID(@)]

OpenCall(r, mode) ==
    /\ fileStatus[r] = "CLOSED"
    /\ fileStatus' = [fileStatus EXCEPT ![r] = mode]
    /\ CASE mode = "TRUNC" -> OpenCreate(r)
         [] mode = "RDONLY" -> OpenRead(r)
         [] mode = "RDWR" -> OpenWrite(r)
    /\ UNCHANGED <<tables, reserved, todo>>

\* A hash table in place of the ordered map: the files are closed in any order.
CloseCallMutant(r) ==
    /\ \E order \in [1..Cardinality(DOMAIN tables[r].open) -> DOMAIN tables[r].open] :
         /\ \A j, k \in DOMAIN order : j # k => order[j] # order[k]
         /\ todo' = [todo EXCEPT ![r] = [j \in DOMAIN order |-> Op("close", order[j])]]
    /\ tables' = [tables EXCEPT ![r] = EmptyTable]
    /\ fileStatus' = [fileStatus EXCEPT ![r] = "CLOSED"]
    /\ maxID' = [maxID EXCEPT ![r] = -1]
    /\ reserved' = [reserved EXCEPT ![r] = {}]

\* handles.close() closes the files in index order.
CloseCall(r) ==
    /\ \E order \in [1..Cardinality(DOMAIN tables[r].open) -> DOMAIN tables[r].open] :
         /\ \A j, k \in DOMAIN order : j < k => order[j] < order[k]
         /\ todo' = [todo EXCEPT ![r] = [j \in DOMAIN order |-> Op("close", order[j])]]
    /\ tables' = [tables EXCEPT ![r] = EmptyTable]
    /\ fileStatus' = [fileStatus EXCEPT ![r] = "CLOSED"]
    /\ maxID' = [maxID EXCEPT ![r] = -1]
    /\ reserved' = [reserved EXCEPT ![r] = {}]

\* Only one process lists the directory.
GetMaxIDCallMutant(r) ==
    /\ maxID' = IF r = CHOOSE s \in Ranks : TRUE
                 THEN [maxID EXCEPT ![r] = ListedMaxID(@)] ELSE maxID
    /\ UNCHANGED <<fileStatus, tables, reserved, todo>>

GetMaxIDCall(r) ==
    /\ maxID' = [maxID EXCEPT ![r] = ListedMaxID(@)]
    /\ UNCHANGED <<fileStatus, tables, reserved, todo>>

\* One call: a handle for the iteration, then what is done with it.
Access(r, kind, i) ==
    /\ todo' = [todo EXCEPT ![r] = GetOps(r, i) \o <<Op(kind, i)>>]
    /\ tables' = [tables EXCEPT ![r] = AfterGet(@, i)]
    /\ UNCHANGED <<fileStatus, maxID, reserved>>

\* write() and reserve() may first exchange the sizes of the parts, an MPI_Allgather
\* that is not among the collective calls here: whether a process comes to it depends
\* on the call alone, not on its table.
WriteCall(r, i) == Writing(r) /\ Access(r, "write", i)
ReserveCall(r, i) == Writing(r) /\ Access(r, "reserve", i)
RemoveCall(r, i) == Writing(r) /\ Access(r, "remove", i)
RemoveDatasetCall(r, i) == Writing(r) /\ Access(r, "removeDataset", i)
CreateReferenceCall(r, i) == Writing(r) /\ Access(r, "createReference", i)

\* To a dataset that exists, or to one that does not: then a group is created.
WriteAttributeCall(r, kind, i) == Writing(r) /\ Access(r, kind, i)
WriteGlobalAttributeCall(r, i) == Writing(r) /\ Access(r, "writeGlobalAttribute", i)

ReadCall(r, i) == Reading(r) /\ Access(r, "read", i)
ReadMetaCall(r, i) == Reading(r) /\ Access(r, "readMeta", i)
ReadAttributeCall(r, i) == fileStatus[r] # "CLOSED" /\ Access(r, "readAttribute", i)
ReadGlobalAttributeCall(r, i) == Reading(r) /\ Access(r, "readGlobalAttribute", i)
GetEntriesCall(r, i) == fileStatus[r] # "CLOSED" /\ Access(r, "getEntries", i)

Begin(r, c) ==
    /\ todo[r] = <<>>
    /\ CASE c.kind = "open" -> OpenCall(r, c.mode)
         [] c.kind = "close" -> fileStatus[r] # "CLOSED" /\ CloseCall(r)
         [] c.kind = "getMaxID" -> fileStatus[r] # "CLOSED" /\ GetMaxIDCall(r)
         [] c.kind = "write" -> WriteCall(r, c.id)
         [] c.kind = "reserve" -> ReserveCall(r, c.id)
         [] c.kind = "remove" -> RemoveCall(r, c.id)
         [] c.kind = "removeDataset" -> RemoveDatasetCall(r, c.id)
         [] c.kind = "createReference" -> CreateReferenceCall(r, c.id)
         [] c.kind \in {"writeAttribute", "writeNewAttribute"} ->
              WriteAttributeCall(r, c.kind, c.id)
         [] c.kind = "writeGlobalAttribute" -> WriteGlobalAttributeCall(r, c.id)
         [] c.kind = "read" -> ReadCall(r, c.id)
         [] c.kind = "readMeta" -> ReadMetaCall(r, c.id)
         [] c.kind = "readAttribute" -> ReadAttributeCall(r, c.id)
         [] c.kind = "readGlobalAttribute" -> ReadGlobalAttributeCall(r, c.id)
         [] c.kind = "getEntries" -> GetEntriesCall(r, c.id)
    /\ UNCHANGED <<program, disk>>

\* What all processes have begun is forgotten.
Advance(calls, counts) ==
    IF \A r \in Ranks : counts[r] > 0
    THEN script' = Tail(calls) /\ begun' = [r \in Ranks |-> counts[r] - 1]
    ELSE script' = calls /\ begun' = counts

\* A process makes a call that no other has come to.
Lead(r, c) ==
    /\ Used(c)
    /\ begun[r] = Len(script)
    /\ Len(script) < MaxAhead
    /\ Begin(r, c)
    /\ Advance(Append(script, c), [begun EXCEPT ![r] = @ + 1])

\* A process makes a call that others have made before it.
Follow(r) ==
    /\ begun[r] < Len(script)
    /\ Begin(r, script[begun[r] + 1])
    /\ Advance(script, [begun EXCEPT ![r] = @ + 1])

\* append(): an independent transfer to a dataset reserved in this session.
AppendCall(r, i) ==
    /\ "append" \in program.used
    /\ todo[r] = <<>>
    /\ Writing(r)
    /\ i \in reserved[r]
    /\ todo' = [todo EXCEPT ![r] = GetOps(r, i)]
    /\ tables' = [tables EXCEPT ![r] = AfterGet(@, i)]
    /\ UNCHANGED <<fileStatus, maxID, reserved, scriptVars, program, disk>>

-----------------------------------------------------------------------------
(* Collective HDF5 calls *)

Meeting(op) == \A r \in Ranks : todo[r] # <<>> /\ Head(todo[r]) = op

\* How often a call asks for its handle again.
MoreGets(kind) ==
    CASE kind \in {"writeNewAttribute", "readMeta"} -> 2
      [] kind = "writeAttribute" -> 1
      [] OTHER -> 0

\* The effect of a collective call on one process. The open callback raises
\* maxID, remove() lists the files again.
TableAfter(t, op) ==
    CASE op.do = "close" -> Drop(t, op.file)
      [] op.do = "open" -> Enter(t, op.file)
      [] op.do = "create" -> [Enter(t, op.file) EXCEPT !.created = @ \union {op.file}]
      [] OTHER -> IF op.file \in DOMAIN t.open THEN Hits(t, op.file, MoreGets(op.do)) ELSE t

\* The callback counts iterations.
MaxIDAfterMutant(old, op) ==
    CASE op.do = "open" -> IF old < op.file + 1 THEN op.file + 1 ELSE old
      [] op.do = "remove" -> ListedMaxID(old)
      [] OTHER -> old

MaxIDAfter(old, op) ==
    CASE op.do = "open" -> IF old < op.file THEN op.file ELSE old
      [] op.do = "remove" -> ListedMaxID(old)
      [] OTHER -> old

Meet(op) ==
    /\ Meeting(op)
    /\ op.do = "open" => op.file \in disk
    /\ todo' = [r \in Ranks |-> Tail(todo[r])]
    /\ tables' = [r \in Ranks |-> TableAfter(tables[r], op)]
    /\ maxID' = [r \in Ranks |-> MaxIDAfter(maxID[r], op)]
    /\ reserved' = IF op.do # "reserve" THEN reserved
                   ELSE [r \in Ranks |-> reserved[r] \union {op.file}]
    /\ disk' = IF op.do = "create" THEN disk \union {op.file} ELSE disk
    /\ UNCHANGED <<program, fileStatus, scriptVars>>

\* A missing file is waited for.
MeetFailsMutant(op) ==
    /\ Meeting(op)
    /\ op.do # "close"
    /\ todo' = [r \in Ranks |->
                  IF op.do = "open" /\ op.file \notin disk THEN todo[r] ELSE <<>>]
    /\ UNCHANGED <<fileStatus, tables, maxID, reserved, scriptVars, program, disk>>

\* The file is missing, or HDF5 fails: in all processes, and get() or the access
\* after it throws in all of them.
MeetFails(op) ==
    /\ Meeting(op)
    /\ op.do # "close"
    /\ todo' = [r \in Ranks |-> <<>>]
    /\ UNCHANGED <<fileStatus, tables, maxID, reserved, scriptVars, program, disk>>

Ops == [do : AllKinds \union {"close", "open", "create"}, file : Iterations]

Next ==
    \/ \E r \in Ranks, c \in Calls : Lead(r, c)
    \/ \E r \in Ranks : Follow(r)
    \/ \E r \in Ranks, i \in Iterations : AppendCall(r, i)
    \/ \E op \in Ops : Meet(op)
    \/ \E op \in Ops : MeetFails(op)

\* A process comes to the calls the others have made, and a collective call that
\* all processes have come to ends.
Fairness ==
    /\ \A r \in Ranks : WF_vars(Follow(r))
    /\ WF_vars(\E op \in Ops : Meet(op) \/ MeetFails(op))

Spec == Init /\ [][Next]_vars /\ Fairness

-----------------------------------------------------------------------------
(* Properties *)

TypeOK ==
    /\ program \in Programs
    /\ fileStatus \in [Ranks -> Modes \union {"CLOSED"}]
    /\ \A r \in Ranks :
         /\ DOMAIN tables[r].open \subseteq Iterations
         /\ tables[r].open \in [DOMAIN tables[r].open -> 0..CtrMod - 1]
         /\ tables[r].least \in [index : Iterations \union {0}, ctr : 0..CtrMod - 1]
         /\ tables[r].created \subseteq Iterations
    /\ maxID \in [Ranks -> Iterations \union {-1}]
    /\ reserved \in [Ranks -> SUBSET Iterations]
    /\ todo \in [Ranks -> Seq(Ops)]
    /\ script \in Seq(Calls) /\ Len(script) <= MaxAhead
    /\ begun \in [Ranks -> 0..MaxAhead]
    /\ disk \subseteq Iterations

\* No two processes wait in different collective calls, which neither of them
\* would ever leave.
CollectivesMatch ==
    \A r, s \in Ranks :
        todo[r] # <<>> /\ todo[s] # <<>> => Head(todo[r]) = Head(todo[s])

\* Processes that have come equally far hold the same files open, have created
\* the same ones and know the same highest iteration, although each of them
\* keeps its own books and lists the directory at a time of its own.
ViewsAgree ==
    \A r, s \in Ranks :
        begun[r] = begun[s] /\ todo[r] = todo[s] =>
            /\ fileStatus[r] = fileStatus[s]
            /\ DOMAIN tables[r].open = DOMAIN tables[s].open
            /\ tables[r].created = tables[s].created
            /\ maxID[r] = maxID[s]

\* Every call returns.
CallsReturn == \A r \in Ranks : todo[r] # <<>> ~> todo[r] = <<>>
=============================================================================
