--------------------------- MODULE AttributeInfo ---------------------------
(***************************************************************************)
(* splash::AttributeInfo: what readAttributeInfo() returns about an         *)
(* attribute. Objects of the class are copied, assigned, swapped and closed *)
(* freely; those that came from one call share one HDF5 attribute id behind *)
(* a reference count (H5AttributeIdRefCt), and each of them loads the type  *)
(* and the dataspace it needs on first use into members of its own.         *)
(*                                                                          *)
(* An open attribute keeps its file open in the HDF5 library: closing the   *)
(* collector's file id succeeds and leaves the file open with the driver of *)
(* a SerialDataCollector, and fails with the MPI-I/O driver.                *)
(*                                                                          *)
(* Left out: the ids of type and dataspace themselves (they are never       *)
(* shared, and operator= loses them without closing them, which keeps       *)
(* nothing else open), and the value of an attribute.                       *)
(***************************************************************************)
EXTENDS Integers, Sequences, FiniteSets

CONSTANTS
    Infos,          \* the program's AttributeInfo variables
    AttrIds,        \* bound: HDF5 attribute ids open at a time
    Attributes,     \* attributes a collector writes
    Globals,        \* those of them in the custom group of the file
    Foreign,        \* those another program made at first: H5S_NULL dataspaces
    Given,          \* [ndims, dims] passed to writeAttribute()
    Collectors,     \* subset of {"SERIAL", "PARALLEL"}
    None

MaxDims == 3        \* DSP_DIM_MAX

ASSUME ConstantsAssumption ==
    /\ IsFiniteSet(Infos)
    /\ Globals \subseteq Attributes /\ Foreign \subseteq Attributes
    /\ Given \subseteq [ndims : 1..MaxDims, dims : [1..3 -> Nat]]
    /\ None \notin AttrIds \union Attributes \union Nat \union Given

\* The members of an AttributeInfo: attr_, type_, space_ and nDims_.
Object ==
    [attr : AttrIds \union {None}, type : Attributes \union {None},
     space : Attributes \union {None},
     nDims : (0..MaxDims) \union {None}]

ASSUME NoneAssumption == None \notin Object

VARIABLES
    collector,      \* which collector owns the file
    fileStatus,     \* FST_CLOSED, FST_CREATING, FST_WRITING, FST_READING
    library,        \* how the library holds the file: "NONE", "RDONLY", "RDWR"
    stored,         \* attribute -> its dataspace in the file, or None
    given,          \* attribute -> what it was created from (history)
    attrs,          \* attribute id -> the attribute it is open on, or None
    refCt,          \* attribute id -> number of H5AttributeIdRefCt sharing it
    info            \* variable -> the object it holds, or None

vars == <<collector, fileStatus, library, stored, given, attrs, refCt, info>>
fileVars == <<collector, fileStatus, stored, given>>

-----------------------------------------------------------------------------
(* Dataspaces: what DCAttribute creates and AttributeInfo reads back *)

SwapDims(d, n) ==
    CASE n = 2 -> <<d[2], d[1], d[3]>>
      [] n = 3 -> <<d[3], d[2], d[1]>>
      [] OTHER -> d

Dataspace(g) ==
    LET inFile == SwapDims(g.dims, g.ndims) IN
    IF g.ndims = 1 /\ inFile[1] * inFile[2] * inFile[3] = 1
    THEN [class |-> "SCALAR", extents |-> <<>>]
    ELSE [class |-> "SIMPLE", extents |-> SubSeq(inFile, 1, g.ndims)]

NullSpace == [class |-> "NULL", extents |-> <<>>]

\* A new object: nothing loaded, nDims_ not initialised.
NewInfo(id) ==
    [attr |-> id, type |-> None, space |-> None, nDims |-> None]

\* getNDims() and getDims() once the dataspace is loaded.
NDims(o) == IF o.nDims = 0 THEN 1 ELSE o.nDims

DimsMutant(o) ==
    [k \in 1..3 |-> IF k <= o.nDims THEN stored[o.space].extents[k] ELSE 1]

Dims(o) ==
    SwapDims([k \in 1..3 |-> IF k <= o.nDims THEN stored[o.space].extents[k]
                                             ELSE 1], o.nDims)

Objects == {s \in Infos : info[s] # None}
Free == Infos \ Objects

-----------------------------------------------------------------------------
(* H5IdWrapper *)

SharedMutant(ct, id) == ct

\* RefCounted::copy().
Shared(ct, id) == IF id = None THEN ct ELSE [ct EXCEPT ![id] = @ + 1]

\* RefCounted::release().
Dropped(ct, id) == IF id = None THEN ct ELSE [ct EXCEPT ![id] = @ - 1]

\* H5Aclose by whoever drops the last reference; the file goes with the last of
\* the ids that held it.
Settle(ct) ==
    /\ refCt' = ct
    /\ attrs' = [id \in AttrIds |->
                   IF refCt[id] > 0 /\ ct[id] = 0 THEN None ELSE attrs[id]]
    /\ library' = IF fileStatus = "FST_CLOSED" /\ \A id \in AttrIds : attrs'[id] = None
                  THEN "NONE" ELSE library
    /\ UNCHANGED fileVars

-----------------------------------------------------------------------------
Init ==
    /\ collector \in Collectors
    /\ fileStatus = "FST_CLOSED"
    /\ library = "NONE"
    /\ stored = [a \in Attributes |-> IF a \in Foreign THEN NullSpace ELSE None]
    /\ given = [a \in Attributes |-> None]
    /\ attrs = [id \in AttrIds |-> None]
    /\ refCt = [id \in AttrIds |-> 0]
    /\ info = [s \in Infos |-> None]

\* H5Fcreate refuses a file the library holds; H5Fopen refuses to write to one it
\* holds read-only.
Open(status) ==
    /\ fileStatus = "FST_CLOSED"
    /\ fileStatus' = status
    /\ CASE status = "FST_CREATING" ->
              /\ library = "NONE"
              /\ library' = "RDWR"
              /\ stored' = [a \in Attributes |-> None]
              /\ given' = [a \in Attributes |-> None]
         [] status = "FST_WRITING" ->
              /\ library # "RDONLY"
              /\ library' = "RDWR"
              /\ UNCHANGED <<stored, given>>
         [] status = "FST_READING" ->
              /\ library' = IF library = "NONE" THEN "RDONLY" ELSE library
              /\ UNCHANGED <<stored, given>>
    /\ UNCHANGED <<collector, attrs, refCt, info>>

AnyOpen == \E id \in AttrIds : attrs[id] # None

CloseFile ==
    /\ fileStatus # "FST_CLOSED"
    /\ collector = "PARALLEL" => ~AnyOpen
    /\ fileStatus' = "FST_CLOSED"
    /\ library' = IF AnyOpen THEN library ELSE "NONE"
    /\ UNCHANGED <<collector, stored, given, attrs, refCt, info>>

Writable == fileStatus \in {"FST_CREATING", "FST_WRITING"}

\* An attribute that exists keeps the dataspace it was created with, whatever
\* dimensions it is written with later: only the creation changes anything here.
Create(a, g) ==
    /\ stored[a] = None
    /\ stored' = [stored EXCEPT ![a] = Dataspace(g)]
    /\ given' = [given EXCEPT ![a] = g]
    /\ UNCHANGED <<collector, fileStatus, library, attrs, refCt, info>>

WriteAttribute(a, g) == a \notin Globals /\ Writable /\ Create(a, g)

WriteGlobalAttribute(a, g) == a \in Globals /\ Writable /\ Create(a, g)

-----------------------------------------------------------------------------
(* AttributeInfo *)

\* DCAttribute::readAttributeInfo(): the new object takes over the id. What the
\* collector opened on the way to the attribute is closed again.
OpenAttribute(s, a) ==
    /\ stored[a] # None
    /\ \E id \in AttrIds :
         /\ attrs[id] = None
         /\ \A k \in AttrIds : attrs[k] = None => id <= k
         /\ attrs' = [attrs EXCEPT ![id] = a]
         /\ refCt' = [refCt EXCEPT ![id] = 1]
         /\ info' = [info EXCEPT ![s] = NewInfo(id)]
    /\ UNCHANGED <<fileVars, library>>

\* A parallel collector reads attributes of iterations and datasets also in a
\* session that creates the files, a serial one does not.
GroupReadable ==
    \/ fileStatus \in {"FST_WRITING", "FST_READING"}
    \/ fileStatus = "FST_CREATING" /\ collector = "PARALLEL"

ReadAttributeInfo(s, a) == a \notin Globals /\ GroupReadable /\ OpenAttribute(s, a)

CustomGroupReadable == fileStatus \in {"FST_WRITING", "FST_READING"}

ReadGlobalAttributeInfo(s, a) ==
    a \in Globals /\ CustomGroupReadable /\ OpenAttribute(s, a)

Copy(s, t) ==
    /\ info' = [info EXCEPT ![t] = NewInfo(info[s].attr)]
    /\ Settle(Shared(refCt, info[s].attr))

AssignMutant(t, s) ==
    /\ t # s
    /\ info' = [info EXCEPT ![t].attr = info[s].attr, ![t].type = None]
    /\ Settle(Dropped(Shared(refCt, info[s].attr), info[t].attr))

AssignMutant2(t, s) ==
    /\ t # s
    /\ info' = [info EXCEPT ![t].attr = info[s].attr, ![t].type = None,
                            ![t].space = None]
    /\ Settle(Shared(refCt, info[s].attr))

\* t = s: the wrappers are copied and swapped, what t has loaded is dropped.
\* nDims_ keeps its old value until it is needed again.
Assign(t, s) ==
    /\ t # s
    /\ info' = [info EXCEPT ![t].attr = info[s].attr, ![t].type = None,
                            ![t].space = None]
    /\ Settle(Dropped(Shared(refCt, info[s].attr), info[t].attr))

SwapInfos(s, t) ==
    /\ s # t
    /\ info' = [info EXCEPT ![s] = info[t], ![t] = info[s]]
    /\ UNCHANGED <<fileVars, library, attrs, refCt>>

CloseMutant(s) ==
    /\ UNCHANGED info
    /\ Settle(Dropped(refCt, info[s].attr))

\* close() swaps with an invalid object, which takes what was held with it.
Close(s) ==
    /\ info' = [info EXCEPT ![s] = NewInfo(None)]
    /\ Settle(Dropped(refCt, info[s].attr))

Destroy(s) ==
    /\ info' = [info EXCEPT ![s] = None]
    /\ Settle(Dropped(refCt, info[s].attr))

\* loadType(), for getType(), getMemSize(), isVarSize() and read(). H5Aget_type
\* fails for an object that is closed. colType_, made from the type by getType(),
\* is dropped and swapped with it and not a member here.
LoadType(s) ==
    /\ info[s].type = None /\ info[s].attr # None
    /\ info' = [info EXCEPT ![s].type = attrs[info[s].attr]]
    /\ UNCHANGED <<fileVars, library, attrs, refCt>>

\* loadSpace() keeps the dataspace before it looks at it: with one that is not
\* simple it throws and leaves nDims_ as it was.
LoadSpace(s) ==
    /\ info[s].space = None /\ info[s].attr # None
    /\ LET a == attrs[info[s].attr] IN
         info' = [info EXCEPT
                    ![s].space = a,
                    ![s].nDims = CASE stored[a].class = "NULL" -> @
                                   [] stored[a].class = "SCALAR" -> 0
                                   [] OTHER -> Len(stored[a].extents)]
    /\ UNCHANGED <<fileVars, library, attrs, refCt>>

Next ==
    \/ \E status \in {"FST_CREATING", "FST_WRITING", "FST_READING"} : Open(status)
    \/ CloseFile
    \/ \E a \in Attributes, g \in Given :
          WriteAttribute(a, g) \/ WriteGlobalAttribute(a, g)
    \/ \E s \in Free, a \in Attributes :
          ReadAttributeInfo(s, a) \/ ReadGlobalAttributeInfo(s, a)
    \/ \E s \in Objects, t \in Free : Copy(s, t)
    \/ \E t, s \in Objects : Assign(t, s)
    \/ \E s, t \in Objects : SwapInfos(s, t)
    \/ \E s \in Objects :
          Close(s) \/ Destroy(s) \/ LoadType(s) \/ LoadSpace(s)

Spec == Init /\ [][Next]_vars

-----------------------------------------------------------------------------
(* Properties *)

TypeOK ==
    /\ collector \in Collectors
    /\ fileStatus \in {"FST_CLOSED", "FST_CREATING", "FST_WRITING", "FST_READING"}
    /\ library \in {"NONE", "RDONLY", "RDWR"}
    /\ attrs \in [AttrIds -> Attributes \union {None}]
    /\ refCt \in [AttrIds -> Nat]
    /\ info \in [Infos -> Object \union {None}]
    /\ \A id \in AttrIds : attrs[id] # None => stored[attrs[id]] # None

Holders(id) == {s \in Objects : info[s].attr = id}

\* H5IdWrapper.hpp:51-82, 96-128. The count of an attribute id is the number of objects
\* that hold it, and the id is open exactly while there is one: no object is
\* left with a closed id, none is closed twice, and none is forgotten.
CountedAndOpen ==
    \A id \in AttrIds :
        /\ refCt[id] = Cardinality(Holders(id))
        /\ attrs[id] # None <=> Holders(id) # {}

\* AttributeInfo.hpp:115-120. Once the collector is closed and every object is
\* closed or destroyed the library has let go of the file, so that it can be
\* opened again in any mode; and not before.
FileReleased ==
    library = "NONE" <=>
        /\ fileStatus = "FST_CLOSED"
        /\ \A s \in Objects : info[s].attr = None

\* AttributeInfo.cpp:49-60, 196-210. What an object loaded is about the attribute
\* it refers to now, after any sequence of assignments, swaps and closes.
LoadedBelongs ==
    \A s \in Objects : \A a \in {info[s].type, info[s].space} :
        a # None => info[s].attr # None /\ attrs[info[s].attr] = a

\* DCAttribute.cpp:69-76, AttributeInfo.cpp:141-164. getNDims() and getDims() of a
\* collector's attribute return what it was created with, 1 for the dimensions
\* beyond, whichever object is asked and wherever that object was before.
DimsAsGiven ==
    \A s \in Objects :
        info[s].space # None /\ given[info[s].space] # None =>
            LET g == given[info[s].space] IN
            /\ NDims(info[s]) = g.ndims
            /\ Dims(info[s]) = [k \in 1..3 |-> IF k <= g.ndims THEN g.dims[k] ELSE 1]

\* AttributeInfo.hpp:69: "Return the number of dimensions". An object whose
\* dataspace is loaded knows it: nDims_ is that of the dataspace.
NDimsKnown ==
    \A s \in Objects :
        info[s].space # None =>
            /\ stored[info[s].space].class # "NULL"
            /\ info[s].nDims = Len(stored[info[s].space].extents)
=============================================================================
