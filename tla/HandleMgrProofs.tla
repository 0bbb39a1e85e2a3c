-------------------------- MODULE HandleMgrProofs --------------------------
(***************************************************************************)
(* Proofs about HandleMgr for any number of handles, indices, topologies    *)
(* and names: the inductive invariant IndInv and what follows from it, that *)
(* the manager implements FileSession, and that domains loaded lazily       *)
(* through it stay readable.                                                *)
(***************************************************************************)
EXTENDS LazyLoading, NumberLemmas, FiniteSetTheorems

-----------------------------------------------------------------------------
(* Indices and files *)

\* HandleMgr.cpp:47-48: at least one file may be open.
LEMMA MaxHandlesType == MaxHandles \in Nat \ {0}
  BY HandlesAssumption DEF MaxHandles

\* posFromIndex yields three coordinates, which indexFromPos joins to the index.
LEMMA PositionRoundTrip ==
    ASSUME NEW size \in Topologies, NEW sch \in Schemes, NEW i \in Nat
    PROVE  /\ PosFromIndex(sch, size, i) \in Nat \X Nat \X Nat
           /\ IndexFromPos(size, PosFromIndex(sch, size, i)) = i
  <1>1. PICK X \in Nat \ {0}, Y \in Nat \ {0} : X = size[1] /\ Y = size[2]
    BY InputAssumption
  <1>2. CASE sch = "MPI"
    <2> DEFINE x == i % X
               y == (i \div X) % Y
               z == i \div (Y * X)
    <2>1. PosFromIndex(sch, size, i) = <<x, y, z>>
      BY <1>1, <1>2 DEF PosFromIndex
    <2>2. x \in Nat /\ i \div X \in Nat /\ Y * X \in Nat \ {0}
      BY DivMod
    <2>3. y \in Nat
      BY <2>2, DivMod
    <2>4. z \in Nat
      BY <2>2, DivMod
    <2>5. x + y * X + z * X * Y = i
      BY GridRoundTrip
    <2> HIDE DEF x, y, z
    <2>6. QED
      BY <1>1, <2>1, <2>2, <2>3, <2>4, <2>5 DEF IndexFromPos
  <1>3. CASE sch # "MPI"
    <2>1. PosFromIndex(sch, size, i) = <<i, 0, 0>>
      BY <1>3 DEF PosFromIndex
    <2>2. QED
      BY <2>1, <1>1 DEF IndexFromPos
  <1>4. QED
    BY <1>2, <1>3

\* A request's table index is an index of the same file; it is 0 for full names
\* and the requested index otherwise.
LEMMA IndexFacts ==
    ASSUME TypeOK, NEW i \in Nat
    PROVE  /\ IndexOf(i) = IF scheme = "FULLNAME" THEN 0 ELSE i
           /\ IndexOf(i) \in Nat
           /\ FileOf(IndexOf(i)) = FileOf(i)
           /\ InSession => FileOf(i) \in File
  <1>1. scheme \in Schemes /\ mpiSize \in Topologies
    BY DEF TypeOK
  <1>2. IndexOf(i) = IF scheme = "FULLNAME" THEN 0 ELSE i
    BY <1>1, PositionRoundTrip DEF IndexOf
  <1>3. FileOf(IndexOf(i)) = FileOf(i)
    BY <1>2 DEF FileOf, FileName
  <1>4. ASSUME InSession PROVE FileOf(i) \in File
    <2>1. PosFromIndex(scheme, mpiSize, i) \in Nat \X Nat \X Nat
      BY <1>1, PositionRoundTrip
    <2>2. filename \in Names
      BY <1>4 DEF TypeOK, InSession
    <2> DEFINE pos == PosFromIndex(scheme, mpiSize, i)
    <2>3. PICK x \in Nat, y \in Nat, z \in Nat : pos = <<x, y, z>>
      BY <2>1
    <2>4. <<x, y, z>> \in Seq(Nat) /\ <<x>> \in Seq(Nat) /\ <<>> \in Seq(Nat)
      OBVIOUS
    <2>5. pos \in Seq(Nat) /\ <<pos[1]>> \in Seq(Nat) /\ <<>> \in Seq(Nat)
      BY <2>3, <2>4
    <2> HIDE DEF pos
    <2>6. QED
      BY <2>2, <2>5 DEF FileOf, FileName, File, pos
  <1>5. QED
    BY <1>2, <1>3, <1>4

\* With suffixes in use, different indices have different files.
LEMMA FileInjective ==
    ASSUME TypeOK, InSession, ~IsFullName(filename), scheme # "FULLNAME",
           NEW j \in Nat, NEW k \in Nat, FileOf(j) = FileOf(k)
    PROVE  j = k
  <1> DEFINE pj == PosFromIndex(scheme, mpiSize, j)
             pk == PosFromIndex(scheme, mpiSize, k)
  <1>1. /\ pj \in Nat \X Nat \X Nat /\ IndexFromPos(mpiSize, pj) = j
        /\ pk \in Nat \X Nat \X Nat /\ IndexFromPos(mpiSize, pk) = k
    BY PositionRoundTrip DEF TypeOK
  <1>2. CASE scheme = "MPI"
    <2> HIDE DEF pj, pk
    <2>1. FileOf(j).suffix = pj /\ FileOf(k).suffix = pk
      BY <1>2 DEF FileOf, FileName, pj, pk
    <2>2. QED
      BY <1>1, <2>1
  <1>3. CASE scheme # "MPI"
    <2>1. pj = <<j, 0, 0>> /\ pk = <<k, 0, 0>>
      BY <1>3 DEF PosFromIndex
    <2> HIDE DEF pj, pk
    <2>2. FileOf(j).suffix = <<pj[1]>> /\ FileOf(k).suffix = <<pk[1]>>
      BY <1>3 DEF FileOf, FileName, pj, pk
    <2>3. <<j>> = <<k>>
      BY <2>1, <2>2
    <2>4. QED
      BY <2>3
  <1>4. QED
    BY <1>2, <1>3

-----------------------------------------------------------------------------
(* Making room and inserting *)

\* Once there is room: what is left of the table, and what is tracked in it.
LEMMA EvictionFacts ==
    ASSUME IndInv, HasRoom \/ CanEvict
    PROVE  LET T == TableAfterEviction  L == LeastAfterEviction IN
           /\ DOMAIN T \subseteq DOMAIN handles
           /\ IsFiniteSet(DOMAIN T)
           /\ Cardinality(DOMAIN T) + 1 <= MaxHandles
           /\ \A j \in DOMAIN T : T[j] = handles[j]
           /\ T \in [DOMAIN T -> Entry]
           /\ L \in [index : Nat, ctr : 0..UInt32Max]
           /\ InSession =>
                \/ L.index \in DOMAIN T /\ L.ctr = T[L.index].ctr
                \/ L.index \notin DOMAIN T /\ L.ctr = 0
           /\ ~InSession => (DOMAIN T = {} => L.ctr = 0)
  <1> DEFINE T == TableAfterEviction
             L == LeastAfterEviction
  <1>1. /\ IsFiniteSet(DOMAIN handles) /\ handles \in [DOMAIN handles -> Entry]
        /\ leastAccIndex \in [index : Nat, ctr : 0..UInt32Max]
        /\ Cardinality(DOMAIN handles) <= MaxHandles
        /\ Cardinality(DOMAIN handles) \in Nat
    BY FS_CardinalityType DEF IndInv, TypeOK, TableBounded
  <1>2. CASE HasRoom
    <2>1. T = handles /\ L = leastAccIndex
      BY <1>2 DEF TableAfterEviction, LeastAfterEviction
    <2>2. InSession => VictimTracked
      BY DEF IndInv, SessionInv
    <2>3. ~InSession => ClosedInv
      BY DEF IndInv
    <2> HIDE DEF T, L
    <2>4. QED
      BY <1>1, <1>2, <2>1, <2>2, <2>3 DEF HasRoom, VictimTracked, ClosedInv, Victim, T, L
  <1>3. CASE ~HasRoom
    <2>1. /\ T = [j \in DOMAIN handles \ {Victim} |-> handles[j]]
          /\ L = [leastAccIndex EXCEPT !.ctr = 0]
      BY <1>3 DEF TableAfterEviction, LeastAfterEviction, Without
    <2>2. Victim \in DOMAIN handles
      BY <1>3 DEF CanEvict
    <2>3. /\ IsFiniteSet(DOMAIN T)
          /\ Cardinality(DOMAIN T) = Cardinality(DOMAIN handles) - 1
      BY <1>1, <2>1, <2>2, FS_RemoveElement
    <2>4. Cardinality(DOMAIN T) + 1 <= MaxHandles
      BY <1>1, <2>3, MaxHandlesType
    <2>5. /\ L \in [index : Nat, ctr : 0..UInt32Max] /\ L.ctr = 0
          /\ L.index = Victim
      BY <1>1, <2>1, HandlesAssumption DEF Victim
    <2> HIDE DEF L
    <2>6. QED
      BY <1>1, <2>1, <2>3, <2>4, <2>5 DEF L
  <1>4. QED
    BY <1>2, <1>3

\* Inserting keeps the bound, leaves the other entries alone, and tracks an entry.
LEMMA InsertFacts ==
    ASSUME IndInv, HasRoom \/ CanEvict, NEW index \in Nat, NEW file \in File,
           index \notin DOMAIN handles, Insert(index, file)
    PROVE  /\ DOMAIN handles' \subseteq DOMAIN handles \union {index}
           /\ index \in DOMAIN handles'
           /\ IsFiniteSet(DOMAIN handles')
           /\ Cardinality(DOMAIN handles') <= MaxHandles
           /\ handles' \in [DOMAIN handles' -> Entry]
           /\ handles'[index] = [file |-> file, ctr |-> 1, live |-> TRUE]
           /\ \A j \in DOMAIN handles' \ {index} :
                 j \in DOMAIN handles /\ handles'[j] = handles[j]
           /\ leastAccIndex' \in [index : Nat, ctr : 0..UInt32Max]
           /\ InSession => /\ leastAccIndex'.index \in DOMAIN handles'
                           /\ leastAccIndex'.ctr = handles'[leastAccIndex'.index].ctr
  <1> DEFINE T == TableAfterEviction
             L == LeastAfterEviction
             e == [file |-> file, ctr |-> 1, live |-> TRUE]
  <1>1. /\ DOMAIN T \subseteq DOMAIN handles
        /\ IsFiniteSet(DOMAIN T)
        /\ Cardinality(DOMAIN T) + 1 <= MaxHandles
        /\ \A j \in DOMAIN T : T[j] = handles[j]
        /\ T \in [DOMAIN T -> Entry]
        /\ L \in [index : Nat, ctr : 0..UInt32Max]
        /\ InSession => \/ L.index \in DOMAIN T /\ L.ctr = T[L.index].ctr
                        \/ L.index \notin DOMAIN T /\ L.ctr = 0
    BY EvictionFacts
  <1>2. /\ handles' = [j \in DOMAIN T \union {index} |-> IF j = index THEN e ELSE T[j]]
        /\ leastAccIndex' = IF L.ctr = 0 \/ 1 < L.ctr
                            THEN [index |-> index, ctr |-> 1] ELSE L
    BY DEF Insert
  <1>3. e \in Entry
    BY HandlesAssumption DEF Entry
  <1>4. index \notin DOMAIN T
    BY <1>1
  <1> HIDE DEF T, L, e
  <1>5. /\ DOMAIN handles' = DOMAIN T \union {index}
        /\ handles'[index] = e
        /\ \A j \in DOMAIN T : handles'[j] = T[j]
    BY <1>2, <1>4
  <1>6. /\ IsFiniteSet(DOMAIN handles')
        /\ Cardinality(DOMAIN handles') = Cardinality(DOMAIN T) + 1
    BY <1>1, <1>4, <1>5, FS_AddElement
  <1>7. handles' \in [DOMAIN handles' -> Entry]
    BY <1>1, <1>2, <1>3
  <1>8. leastAccIndex' \in [index : Nat, ctr : 0..UInt32Max]
    BY <1>1, <1>2, HandlesAssumption
  <1>9. ASSUME InSession
        PROVE  /\ leastAccIndex'.index \in DOMAIN handles'
               /\ leastAccIndex'.ctr = handles'[leastAccIndex'.index].ctr
    <2>1. CASE L.ctr = 0 \/ 1 < L.ctr
      BY <1>2, <1>5, <2>1 DEF e
    <2>2. CASE ~(L.ctr = 0 \/ 1 < L.ctr)
      BY <1>1, <1>2, <1>5, <1>9, <2>2
    <2>3. QED
      BY <2>1, <2>2
  <1>10. QED
    BY <1>1, <1>5, <1>6, <1>7, <1>8, <1>9 DEF e

-----------------------------------------------------------------------------
(* The inductive invariant *)

\* While a session lasts, its indices keep their files.
LEMMA SessionKept ==
    ASSUME UNCHANGED sessionVars
    PROVE  /\ \A i : FileOf(i)' = FileOf(i)
           /\ \A i : IndexOf(i)' = IndexOf(i)
           /\ InSession' = InSession
  BY DEF sessionVars, FileOf, IndexOf, InSession

\* A new manager satisfies the inductive invariant.
LEMMA InitIndInv == Init => IndInv
  <1> SUFFICES ASSUME Init PROVE IndInv
    OBVIOUS
  <1>1. DOMAIN handles = {} /\ handles \in [DOMAIN handles -> Entry]
    BY DEF Init
  <1>2. IsFiniteSet(DOMAIN handles) /\ Cardinality(DOMAIN handles) = 0
    BY <1>1, FS_EmptySet
  <1>3. leastAccIndex \in [index : Nat, ctr : 0..UInt32Max]
    BY HandlesAssumption DEF Init
  <1>4. QED
    BY <1>1, <1>2, <1>3, MaxHandlesType, InputAssumption
       DEF Init, IndInv, TypeOK, TableBounded, InSession, ClosedInv, LeftByClose, Flags

\* A hit counts one access to the entry, and to the tracked entry if that is it.
LEMMA HitStep ==
    ASSUME IndInv, NEW i \in Ids, GetHit(i)
    PROVE  IndInv'
  <1> DEFINE index == IndexOf(i)
  <1>1. /\ index \in DOMAIN handles
        /\ handles' = [handles EXCEPT ![index].ctr = (@ + 1) % CtrMod]
        /\ leastAccIndex' = IF leastAccIndex.index = index
                            THEN [leastAccIndex EXCEPT !.ctr = (@ + 1) % CtrMod]
                            ELSE leastAccIndex
        /\ UNCHANGED <<sessionVars, createdFiles, disk, orphans, written>>
    BY DEF GetHit
  <1> HIDE DEF index
  <1>2. /\ handles \in [DOMAIN handles -> Entry]
        /\ leastAccIndex \in [index : Nat, ctr : 0..UInt32Max]
    BY DEF IndInv, TypeOK
  <1>3. \A c \in 0..UInt32Max : (c + 1) % CtrMod \in 0..UInt32Max
    BY HandlesAssumption DEF CtrMod
  <1>4. /\ DOMAIN handles' = DOMAIN handles
        /\ handles' \in [DOMAIN handles -> Entry]
        /\ \A j \in DOMAIN handles : /\ handles'[j].file = handles[j].file
                                     /\ handles'[j].live = handles[j].live
        /\ handles'[index].ctr = (handles[index].ctr + 1) % CtrMod
        /\ \A j \in DOMAIN handles : j # index => handles'[j] = handles[j]
    BY <1>1, <1>2, <1>3 DEF Entry
  <1>5. /\ leastAccIndex' \in [index : Nat, ctr : 0..UInt32Max]
        /\ leastAccIndex'.index = leastAccIndex.index
        /\ leastAccIndex.index # index => leastAccIndex' = leastAccIndex
        /\ leastAccIndex.index = index =>
             leastAccIndex'.ctr = (leastAccIndex.ctr + 1) % CtrMod
    BY <1>1, <1>2, <1>3
  <1>6. TypeOK'
    BY <1>1, <1>4, <1>5 DEF IndInv, TypeOK, sessionVars
  <1>7. TableBounded'
    BY <1>4 DEF IndInv, TableBounded
  <1>8. /\ InSession' = InSession
        /\ \A j : FileOf(j)' = FileOf(j)
    BY <1>1, SessionKept
  <1>9. ASSUME InSession PROVE SessionInv'
    <2>1. SessionInv
      BY <1>9 DEF IndInv
    <2>2. VictimTracked'
      BY <2>1, <1>1, <1>4, <1>5 DEF SessionInv, VictimTracked, Victim, HasRoom
    <2>3. HandleOnItsFile'
      BY <2>1, <1>4, <1>8 DEF SessionInv, HandleOnItsFile
    <2>4. OnlyCreatedFilesOpen'
      BY <2>1, <1>1, <1>4, <1>8 DEF SessionInv, OnlyCreatedFilesOpen, sessionVars
    <2>5. \A j \in DOMAIN handles' : handles'[j].file \in disk'
      BY <2>1, <1>1, <1>4 DEF SessionInv
    <2>6. fileFlags' = "TRUNC" => written' \subseteq {FileOf(k)' : k \in createdFiles'}
      BY <2>1, <1>1, <1>8 DEF SessionInv, sessionVars
    <2>7. QED
      BY <2>1, <2>2, <2>3, <2>4, <2>5, <2>6, <1>1, <1>4 DEF SessionInv, sessionVars
  <1>10. ASSUME ~InSession PROVE ClosedInv'
    <2>1. ClosedInv
      BY <1>10 DEF IndInv
    <2>2. LeftByClose'
      BY <2>1, <1>1, <1>4 DEF ClosedInv, LeftByClose
    <2>3. QED
      BY <2>1, <2>2, <1>1, <1>4 DEF ClosedInv, sessionVars
  <1>11. QED
    BY <1>1, <1>6, <1>7, <1>8, <1>9, <1>10 DEF IndInv

\* A file enters the table, created or opened.
LEMMA InsertStep ==
    ASSUME IndInv, NEW i \in Ids, MissWithRoom(i), InSession,
           Insert(IndexOf(i), FileOf(i)), UNCHANGED <<sessionVars, orphans>>,
           createdFiles' \in {createdFiles, createdFiles \union {IndexOf(i)}},
           fileFlags = "TRUNC" => IndexOf(i) \in createdFiles',
           disk' = disk \union {FileOf(i)},
           written' \in {written, written \ {FileOf(i)}}
    PROVE  IndInv'
  <1> DEFINE index == IndexOf(i)
             f == FileOf(i)
  <1>1. i \in Nat
    BY InputAssumption
  <1>2. TypeOK /\ SessionInv
    BY DEF IndInv
  <1>3. /\ index \in Nat /\ FileOf(index) = f /\ f \in File
        /\ scheme = "FULLNAME" => index = 0
    BY <1>1, <1>2, IndexFacts
  <1>4. index \notin DOMAIN handles /\ (HasRoom \/ CanEvict)
    BY DEF MissWithRoom
  <1> HIDE DEF index, f
  <1>5. /\ DOMAIN handles' \subseteq DOMAIN handles \union {index}
        /\ index \in DOMAIN handles'
        /\ IsFiniteSet(DOMAIN handles')
        /\ Cardinality(DOMAIN handles') <= MaxHandles
        /\ handles' \in [DOMAIN handles' -> Entry]
        /\ handles'[index] = [file |-> f, ctr |-> 1, live |-> TRUE]
        /\ \A j \in DOMAIN handles' \ {index} :
              j \in DOMAIN handles /\ handles'[j] = handles[j]
        /\ leastAccIndex' \in [index : Nat, ctr : 0..UInt32Max]
        /\ leastAccIndex'.index \in DOMAIN handles'
        /\ leastAccIndex'.ctr = handles'[leastAccIndex'.index].ctr
    BY <1>3, <1>4, InsertFacts DEF index, f
  <1>6. /\ \A j : FileOf(j)' = FileOf(j)
        /\ InSession' = InSession
    BY SessionKept
  <1>7. TypeOK'
    BY <1>2, <1>3, <1>5 DEF TypeOK, sessionVars, index, f
  <1>8. TableBounded'
    BY <1>5 DEF TableBounded
  <1>9. written' \subseteq disk'
    BY DEF IndInv
  <1>10. SessionInv'
    <2>1. VictimTracked'
      BY <1>5 DEF VictimTracked, Victim
    <2>2. HandleOnItsFile'
      BY <1>2, <1>3, <1>5, <1>6 DEF SessionInv, HandleOnItsFile
    <2>3. OnlyCreatedFilesOpen'
      BY <1>2, <1>5 DEF SessionInv, OnlyCreatedFilesOpen, sessionVars, index
    <2>4. \A j \in DOMAIN handles' : handles'[j].file \in disk'
      BY <1>2, <1>5 DEF SessionInv, f
    <2>5. fileFlags' = "TRUNC" => written' \subseteq {FileOf(k)' : k \in createdFiles'}
      <3>1. fileFlags = "TRUNC" => written \subseteq {FileOf(k) : k \in createdFiles'}
        BY <1>2 DEF SessionInv
      <3>2. index \in createdFiles' => f \in {FileOf(k) : k \in createdFiles'}
        BY <1>3
      <3>3. fileFlags = "TRUNC" => written' \subseteq {FileOf(k) : k \in createdFiles'}
        BY <3>1, <3>2 DEF index, f
      <3>4. QED
        BY <3>3, <1>6 DEF sessionVars
    <2>6. scheme' = "FULLNAME" => DOMAIN handles' \union createdFiles' \subseteq {0}
      BY <1>2, <1>3, <1>5 DEF SessionInv, sessionVars, index
    <2>7. QED
      BY <2>1, <2>2, <2>3, <2>4, <2>5, <2>6 DEF SessionInv
  <1>11. QED
    BY <1>6, <1>7, <1>8, <1>9, <1>10 DEF IndInv

\* The file could not be created or opened, or its id was lost: only the eviction
\* is left of the request.
LEMMA EvictStep ==
    ASSUME IndInv, NEW i \in Ids, MissWithRoom(i),
           handles' = TableAfterEviction, leastAccIndex' = LeastAfterEviction,
           UNCHANGED sessionVars,
           \/ UNCHANGED <<createdFiles, disk, orphans, written>>
           \/ /\ MustCreate(i)
              /\ createdFiles' = createdFiles \union {IndexOf(i)}
              /\ disk' = disk \union {FileOf(i)}
              /\ orphans' = orphans \union {FileOf(i)}
              /\ written' = written \ {FileOf(i)}
    PROVE  IndInv'
  <1>1. i \in Nat /\ TypeOK
    BY InputAssumption DEF IndInv
  <1>2. /\ MustCreate(i) => InSession
        /\ InSession => FileOf(i) \in File
        /\ IndexOf(i) \in Nat
        /\ scheme = "FULLNAME" => IndexOf(i) = 0
    BY <1>1, IndexFacts DEF IndInv, MustCreate, ClosedInv
  <1>3. /\ DOMAIN handles' \subseteq DOMAIN handles
        /\ IsFiniteSet(DOMAIN handles')
        /\ Cardinality(DOMAIN handles') + 1 <= MaxHandles
        /\ \A j \in DOMAIN handles' : handles'[j] = handles[j]
        /\ handles' \in [DOMAIN handles' -> Entry]
        /\ leastAccIndex' \in [index : Nat, ctr : 0..UInt32Max]
        /\ InSession =>
             \/ /\ leastAccIndex'.index \in DOMAIN handles'
                /\ leastAccIndex'.ctr = handles'[leastAccIndex'.index].ctr
             \/ leastAccIndex'.index \notin DOMAIN handles' /\ leastAccIndex'.ctr = 0
        /\ ~InSession => (DOMAIN handles' = {} => leastAccIndex'.ctr = 0)
    BY EvictionFacts DEF MissWithRoom
  <1>4. /\ \A j : FileOf(j)' = FileOf(j)
        /\ InSession' = InSession
    BY SessionKept
  <1>5. /\ createdFiles \subseteq createdFiles' /\ disk \subseteq disk'
        /\ written' \subseteq written
        /\ createdFiles' \subseteq createdFiles \union {IndexOf(i)}
    OBVIOUS
  <1>6. TypeOK'
    BY <1>1, <1>2, <1>3 DEF TypeOK, sessionVars
  <1>7. Cardinality(DOMAIN handles') \in Nat /\ TableBounded'
    BY <1>3, MaxHandlesType, FS_CardinalityType DEF TableBounded
  <1>8. written' \subseteq disk'
    BY <1>5 DEF IndInv
  <1>9. ASSUME InSession PROVE SessionInv'
    <2>1. SessionInv
      BY <1>9 DEF IndInv
    <2>2. VictimTracked'
      BY <1>3, <1>9 DEF VictimTracked, Victim, HasRoom
    <2>3. HandleOnItsFile'
      BY <2>1, <1>3, <1>4 DEF SessionInv, HandleOnItsFile
    <2>4. OnlyCreatedFilesOpen'
      BY <2>1, <1>3, <1>4, <1>5 DEF SessionInv, OnlyCreatedFilesOpen, sessionVars
    <2>5. \A j \in DOMAIN handles' : handles'[j].file \in disk'
      BY <2>1, <1>3, <1>5 DEF SessionInv
    <2>6. fileFlags' = "TRUNC" => written' \subseteq {FileOf(k)' : k \in createdFiles'}
      BY <2>1, <1>4, <1>5 DEF SessionInv, sessionVars
    <2>7. scheme' = "FULLNAME" => DOMAIN handles' \union createdFiles' \subseteq {0}
      BY <2>1, <1>2, <1>3, <1>5 DEF SessionInv, sessionVars
    <2>8. QED
      BY <2>2, <2>3, <2>4, <2>5, <2>6, <2>7 DEF SessionInv
  <1>10. ASSUME ~InSession PROVE ClosedInv'
    <2>1. ClosedInv /\ UNCHANGED <<createdFiles, disk, written>>
      BY <1>10, <1>2 DEF IndInv
    <2>2. LeftByClose'
      BY <2>1, <1>3 DEF ClosedInv, LeftByClose
    <2>3. QED
      BY <1>10, <2>1, <2>2, <1>3 DEF ClosedInv, sessionVars
  <1>11. QED
    BY <1>4, <1>6, <1>7, <1>8, <1>9, <1>10 DEF IndInv

\* get() keeps the inductive invariant on every path through it.
LEMMA GetStep ==
    ASSUME IndInv, NEW i \in Ids, Get(i)
    PROVE  IndInv'
  <1>1. i \in Nat /\ TypeOK
    BY InputAssumption DEF IndInv
  <1>2. CASE GetHit(i)
    BY <1>2, HitStep
  <1>3. CASE GetEvictFails(i)
    BY <1>3 DEF GetEvictFails, vars, mgrVars, IndInv, TypeOK, TableBounded, InSession,
                SessionInv, VictimTracked, Victim, HasRoom, HandleOnItsFile, FileOf,
                OnlyCreatedFilesOpen, ClosedInv, LeftByClose
  <1>4. CASE GetCreate(i)
    <2>1. InSession
      BY <1>4 DEF GetCreate, MustCreate, IndInv, ClosedInv
    <2>2. QED
      BY <1>4, <2>1, InsertStep DEF GetCreate
  <1>5. CASE GetCreateCallbackThrows(i)
    BY <1>5, EvictStep DEF GetCreateCallbackThrows
  <1>6. CASE GetOpen(i)
    <2>1. InSession
      <3>1. FileOf(i).base = filename
        BY DEF FileOf, FileName
      <3>2. FileOf(i) \in File
        BY <1>1, <1>6 DEF GetOpen, TypeOK
      <3>3. QED
        BY <3>1, <3>2, NameAssumption DEF File, InSession
    <2>2. disk' = disk \union {FileOf(i)}
      BY <1>6 DEF GetOpen
    <2>3. QED
      BY <1>6, <2>1, <2>2, InsertStep DEF GetOpen, MustCreate
  <1>7. CASE GetFails(i)
    BY <1>7, EvictStep DEF GetFails
  <1>8. QED
    BY <1>2, <1>3, <1>4, <1>5, <1>6, <1>7 DEF Get

\* Writing through a handle touches a file of the session only.
LEMMA WriteStep ==
    ASSUME IndInv, NEW index \in DOMAIN handles, WriteThrough(index)
    PROVE  IndInv'
  <1>1. /\ InSession /\ TypeOK /\ SessionInv
        /\ UNCHANGED <<mgrVars, disk, orphans>>
        /\ written' = written \union {handles[index].file}
    BY DEF WriteThrough, IndInv, InSession
  <1>2. UNCHANGED sessionVars
    BY <1>1 DEF mgrVars, sessionVars
  <1>3. /\ \A j : FileOf(j)' = FileOf(j)
        /\ InSession' = InSession
    BY <1>2, SessionKept
  <1>4. handles[index].file \in disk
    BY <1>1 DEF SessionInv
  <1>5. TypeOK'
    BY <1>1, <1>4 DEF TypeOK, mgrVars
  <1>6. TableBounded' /\ written' \subseteq disk'
    BY <1>1, <1>4 DEF IndInv, TableBounded, mgrVars
  <1>7. VictimTracked' /\ HandleOnItsFile' /\ OnlyCreatedFilesOpen'
    BY <1>1, <1>3 DEF SessionInv, VictimTracked, Victim, HasRoom, HandleOnItsFile,
                      OnlyCreatedFilesOpen, mgrVars
  <1>8. fileFlags' = "TRUNC" => written' \subseteq {FileOf(k)' : k \in createdFiles'}
    <2>1. fileFlags = "TRUNC" => handles[index].file \in {FileOf(k) : k \in createdFiles}
      BY <1>1 DEF SessionInv, HandleOnItsFile, OnlyCreatedFilesOpen
    <2>2. fileFlags = "TRUNC" => written' \subseteq {FileOf(k) : k \in createdFiles}
      BY <1>1, <2>1 DEF SessionInv
    <2>3. QED
      BY <1>1, <1>3, <2>2 DEF mgrVars
  <1>9. SessionInv'
    BY <1>1, <1>7, <1>8 DEF SessionInv, mgrVars
  <1>10. QED
    BY <1>1, <1>3, <1>5, <1>6, <1>9 DEF IndInv

\* Changing the naming scheme and opening start from a manager without session.
LEMMA OpenStep ==
    ASSUME IndInv,
           \/ \E s \in Schemes : SetFileNameScheme(s)
           \/ \E size \in Topologies, n \in Names, fl \in Flags : OpenMany(size, n, fl)
           \/ \E n \in Names, fl \in Flags : OpenFull(n, fl)
    PROVE  IndInv'
  <1>1. ~InSession /\ ClosedInv /\ TypeOK
    BY DEF IndInv, SetFileNameScheme, OpenMany, OpenFull, Closed, InSession
  <1>2. UNCHANGED <<handles, leastAccIndex, createdFiles, disk, orphans, written>>
    BY DEF SetFileNameScheme, OpenMany, OpenFull
  <1>3. TypeOK'
    <2>1. scheme' \in Schemes /\ mpiSize' \in Topologies
      BY <1>1, InputAssumption DEF TypeOK, SetFileNameScheme, OpenMany, OpenFull
    <2>2. filename' \in Names \union {NoName} /\ fileFlags' \in Flags
      BY <1>1 DEF TypeOK, SetFileNameScheme, OpenMany, OpenFull
    <2>3. QED
      BY <1>1, <1>2, <2>1, <2>2 DEF TypeOK
  <1>4. TableBounded' /\ written' \subseteq disk'
    BY <1>2 DEF IndInv, TableBounded
  <1>5. CASE \E s \in Schemes : SetFileNameScheme(s)
    BY <1>1, <1>2, <1>3, <1>4, <1>5
       DEF SetFileNameScheme, IndInv, ClosedInv, LeftByClose, InSession
  <1>6. CASE ~(\E s \in Schemes : SetFileNameScheme(s))
    <2>1. DOMAIN handles = {}
      BY <1>6 DEF OpenMany, OpenFull, Closed
    <2>2. InSession'
      BY <1>6, NameAssumption DEF OpenMany, OpenFull, InSession
    <2>3. VictimTracked'
      <3>1. HasRoom
        BY <2>1, FS_EmptySet, MaxHandlesType DEF HasRoom
      <3>2. QED
        BY <1>1, <1>2, <2>1, <3>1 DEF ClosedInv, VictimTracked, HasRoom, Victim
    <2>4. HandleOnItsFile' /\ OnlyCreatedFilesOpen'
      BY <1>2, <2>1 DEF HandleOnItsFile, OnlyCreatedFilesOpen
    <2>5. /\ \A j \in DOMAIN handles' : handles'[j].file \in disk'
          /\ written' = {} /\ createdFiles' = {} /\ DOMAIN handles' = {}
      BY <1>1, <1>2, <2>1 DEF ClosedInv
    <2>6. SessionInv'
      BY <2>3, <2>4, <2>5 DEF SessionInv
    <2>7. QED
      BY <1>3, <1>4, <2>2, <2>6 DEF IndInv
  <1>7. QED
    BY <1>5, <1>6

\* close() leaves no session behind, whether or not it could close every handle.
LEMMA CloseStep ==
    ASSUME IndInv, Close \/ \E k \in DOMAIN handles : CloseFails(k)
    PROVE  IndInv'
  <1>1. ResetMembers /\ UNCHANGED <<disk, orphans>> /\ TypeOK
    BY DEF Close, CloseFails, IndInv
  <1>2. ~InSession' /\ written' = {}
    BY <1>1 DEF ResetMembers, InSession
  <1>3. /\ IsFiniteSet(DOMAIN handles')
        /\ Cardinality(DOMAIN handles') <= MaxHandles
        /\ DOMAIN handles' \subseteq Nat
        /\ handles' \in [DOMAIN handles' -> Entry]
    <2>1. CASE Close
      <3>1. DOMAIN handles' = {} /\ handles' \in [DOMAIN handles' -> Entry]
        BY <2>1 DEF Close
      <3>2. QED
        BY <3>1, FS_EmptySet, MaxHandlesType
    <2>2. CASE \E k \in DOMAIN handles : CloseFails(k)
      <3>1. PICK k \in DOMAIN handles : CloseFails(k)
        BY <2>2
      <3>2. \A j \in DOMAIN handles :
              handles[j] \in Entry /\ [handles[j] EXCEPT !.live = FALSE] \in Entry
        BY <1>1 DEF TypeOK, Entry
      <3>3. DOMAIN handles' = DOMAIN handles
        BY <3>1 DEF CloseFails
      <3>4. handles' \in [DOMAIN handles -> Entry]
        BY <3>1, <3>2 DEF CloseFails
      <3>5. QED
        BY <1>1, <3>3, <3>4 DEF IndInv, TypeOK, TableBounded
    <2>3. QED
      BY <2>1, <2>2
  <1>4. TypeOK'
    BY <1>1, <1>3, InputAssumption, HandlesAssumption DEF TypeOK, ResetMembers, Flags
  <1>5. LeftByClose'
    <2>1. /\ \A j \in DOMAIN handles : handles[j].file \in disk
          /\ \A i, j \in DOMAIN handles :
                i < j /\ ~handles[j].live => ~handles[i].live
      BY DEF IndInv, SessionInv, HandleOnItsFile, ClosedInv, LeftByClose
    <2>2. CASE Close
      BY <2>2 DEF Close, LeftByClose
    <2>3. CASE \E k \in DOMAIN handles : CloseFails(k)
      <3>1. PICK k \in DOMAIN handles : CloseFails(k)
        BY <2>3
      <3>2. /\ DOMAIN handles' = DOMAIN handles /\ k \in Nat /\ DOMAIN handles \subseteq Nat
            /\ \A j \in DOMAIN handles :
                  /\ handles'[j].file = handles[j].file
                  /\ j < k => handles[j].live /\ ~handles'[j].live
                  /\ ~(j < k) => handles'[j].live = handles[j].live
        BY <1>1, <3>1 DEF CloseFails, TypeOK, Entry
      <3>3. \A i, j \in DOMAIN handles :
              i < j /\ ~handles'[j].live => ~handles'[i].live
        BY <2>1, <3>2
      <3>4. QED
        BY <1>1, <2>1, <3>2, <3>3 DEF LeftByClose
    <2>4. QED
      BY <2>2, <2>3
  <1>6. ClosedInv'
    BY <1>1, <1>5 DEF ResetMembers, ClosedInv
  <1>7. QED
    BY <1>2, <1>3, <1>4, <1>6 DEF IndInv, TableBounded

\* Every step keeps the inductive invariant.
LEMMA NextIndInv == IndInv /\ [Next]_vars => IndInv'
  <1> SUFFICES ASSUME IndInv, [Next]_vars PROVE IndInv'
    OBVIOUS
  <1>1. CASE \E i \in Ids : Get(i)
    BY <1>1, GetStep
  <1>2. CASE \E index \in DOMAIN handles : WriteThrough(index)
    BY <1>2, WriteStep
  <1>3. CASE Close \/ \E k \in DOMAIN handles : CloseFails(k)
    BY <1>3, CloseStep
  <1>4. CASE \/ \E s \in Schemes : SetFileNameScheme(s)
             \/ \E size \in Topologies, n \in Names, fl \in Flags : OpenMany(size, n, fl)
             \/ \E n \in Names, fl \in Flags : OpenFull(n, fl)
    BY <1>4, OpenStep
  <1>5. CASE UNCHANGED vars
    BY <1>5 DEF vars, mgrVars, IndInv, TypeOK, TableBounded, InSession, SessionInv,
                VictimTracked, Victim, HasRoom, HandleOnItsFile, FileOf,
                OnlyCreatedFilesOpen, ClosedInv, LeftByClose
  <1>6. QED
    BY <1>1, <1>2, <1>3, <1>4, <1>5 DEF Next

\* The inductive invariant holds in every behaviour, with failing opens, creations,
\* callbacks and closes, for every handle limit (HandleMgr.cpp:36-276).
THEOREM Invariance == Spec => []IndInv
  <1>1. Init => IndInv
    BY InitIndInv
  <1>2. IndInv /\ [Next]_vars => IndInv'
    BY NextIndInv
  <1>3. QED
    BY <1>1, <1>2, PTL DEF Spec

\* HandleMgr.cpp:36-53. Every member keeps its type.
THEOREM TypeCorrect == Spec => []TypeOK
  <1>1. IndInv => TypeOK
    BY DEF IndInv
  <1>2. QED
    BY <1>1, Invariance, PTL

\* HandleMgr.cpp:161-178. A full table always has an open victim, so eviction
\* never dereferences handles.end().
THEOREM VictimAlwaysOpen == Spec => []VictimIsOpen
  <1>1. IndInv => VictimIsOpen
    BY DEF IndInv, SessionInv, VictimTracked, HandleOnItsFile, VictimIsOpen, CanEvict
  <1>2. QED
    BY <1>1, Invariance, PTL

\* HandleMgr.hpp:45-46. The number of open files in the table never exceeds
\* maxHandles.
THEOREM NeverTooManyHandles == Spec => []TableBounded
  <1>1. IndInv => TableBounded
    BY DEF IndInv
  <1>2. QED
    BY <1>1, Invariance, PTL

\* HandleMgr.cpp:246. Every handle in the table is open on the file of its index.
THEOREM HandlesOnTheirFiles == Spec => []HandleOnItsFile
  <1>1. IndInv => HandleOnItsFile
    BY DEF IndInv, SessionInv, HandleOnItsFile
  <1>2. QED
    BY <1>1, Invariance, PTL

\* HandleMgr.cpp:218-245. The cached least access count is the one of the entry the
\* cached index names, or 0 while no victim is tracked.
THEOREM TrackedCounterRight == Spec => []LeastCounterAgrees
  <1>1. IndInv => LeastCounterAgrees
    BY DEF IndInv, SessionInv, VictimTracked, LeastCounterAgrees
  <1>2. QED
    BY <1>1, Invariance, PTL

\* HandleMgr.cpp:198. A creating session never holds a file it did not create.
THEOREM OnlyOwnFilesOpen == Spec => []OnlyCreatedFilesOpen
  <1>1. IndInv => OnlyCreatedFilesOpen
    BY DEF IndInv, SessionInv, OnlyCreatedFilesOpen
  <1>2. QED
    BY <1>1, Invariance, PTL

-----------------------------------------------------------------------------
(* The manager implements FileSession *)

\* A base name without ".h5" of another length than two is not a full name.
NoFullNames == \A n \in Names : ~IsFullName(n)

\* The state of the session as the manager's callers see it.
Mode == IF filename = NoName THEN "CLOSED" ELSE fileFlags
Created == {FileOf(i) : i \in createdFiles}

\* A file that has to be created has not been created in this session.
LEMMA NotYetCreated ==
    ASSUME IndInv, NoFullNames, NEW i \in Ids, MustCreate(i)
    PROVE  /\ InSession
           /\ FileOf(i) \notin Created
           /\ {FileOf(k) : k \in createdFiles \union {IndexOf(i)}} = Created \union {FileOf(i)}
  <1>1. i \in Nat /\ TypeOK
    BY InputAssumption DEF IndInv
  <1>2. InSession /\ SessionInv
    BY DEF IndInv, MustCreate, ClosedInv
  <1>3. /\ IndexOf(i) = IF scheme = "FULLNAME" THEN 0 ELSE i
        /\ IndexOf(i) \in Nat
        /\ FileOf(IndexOf(i)) = FileOf(i)
    BY <1>1, IndexFacts
  <1>4. ASSUME NEW j \in createdFiles, FileOf(j) = FileOf(i) PROVE FALSE
    <2>1. j \in Nat /\ j # IndexOf(i)
      BY <1>1 DEF TypeOK, MustCreate
    <2>2. scheme # "FULLNAME"
      BY <1>2, <1>3, <2>1 DEF SessionInv
    <2>3. ~IsFullName(filename)
      BY <1>1, <1>2 DEF NoFullNames, TypeOK, InSession
    <2>4. QED
      BY <1>1, <1>2, <1>3, <1>4, <2>1, <2>2, <2>3, FileInjective
  <1>5. FileOf(i) \notin Created
    BY <1>4 DEF Created
  <1>6. {FileOf(k) : k \in createdFiles \union {IndexOf(i)}} = Created \union {FileOf(i)}
    BY <1>3 DEF Created
  <1>7. QED
    BY <1>2, <1>5, <1>6

\* A creation is a creation of the session: the file is new to it, so nothing the
\* session wrote is truncated.
LEMMA CreateRefines ==
    ASSUME IndInv, NoFullNames, NEW i \in Ids, MustCreate(i), UNCHANGED sessionVars,
           createdFiles' = createdFiles \union {IndexOf(i)},
           disk' = disk \union {FileOf(i)},
           written' = written \ {FileOf(i)}
    PROVE  Session!Create
  <1>1. /\ InSession /\ FileOf(i) \notin Created
        /\ {FileOf(k) : k \in createdFiles'} = Created \union {FileOf(i)}
    BY NotYetCreated
  <1>2. \A j : FileOf(j)' = FileOf(j)
    BY SessionKept
  <1>3. Created' = Created \union {FileOf(i)}
    BY <1>1, <1>2 DEF Created
  <1>4. Mode = "TRUNC" /\ Mode' = Mode
    BY <1>1 DEF Mode, MustCreate, InSession, sessionVars
  <1>5. written \subseteq Created
    BY <1>1 DEF IndInv, SessionInv, Created, MustCreate
  <1>6. written' = written
    BY <1>1, <1>5
  <1>7. FileOf(i) \in Created' \ Created
    BY <1>1, <1>3
  <1>8. QED
    BY <1>3, <1>4, <1>6, <1>7 DEF Session!Create, Mode, Created

\* Steps that change neither the session nor what it holds.
LEMMA StutterRefines ==
    ASSUME UNCHANGED <<sessionVars, createdFiles, disk, written>>
    PROVE  UNCHANGED Session!vars
  <1>1. \A j : FileOf(j)' = FileOf(j)
    BY SessionKept
  <1>2. QED
    BY <1>1 DEF Session!vars, sessionVars

\* Every step is a step of the session, or invisible to it.
LEMMA StepRefines ==
    ASSUME IndInv, NoFullNames, [Next]_vars
    PROVE  [Session!Next]_(Session!vars)
  <1>1. CASE \E i \in Ids : Get(i)
    <2>1. PICK i \in Ids : Get(i)
      BY <1>1
    <2>2. CASE GetCreate(i) \/ GetCreateCallbackThrows(i)
      <3>1. Session!Create
        BY <2>2, CreateRefines DEF GetCreate, GetCreateCallbackThrows
      <3>2. QED
        BY <3>1 DEF Session!Next
    <2>3. CASE GetHit(i) \/ GetEvictFails(i) \/ GetOpen(i) \/ GetFails(i)
      BY <2>3, StutterRefines
         DEF GetHit, GetEvictFails, GetOpen, GetFails, vars, mgrVars, sessionVars
    <2>4. QED
      BY <2>1, <2>2, <2>3 DEF Get
  <1>2. CASE \E index \in DOMAIN handles : WriteThrough(index)
    <2>1. PICK index \in DOMAIN handles : WriteThrough(index)
      BY <1>2
    <2>2. UNCHANGED sessionVars /\ UNCHANGED <<createdFiles, disk>>
      BY <2>1 DEF WriteThrough, mgrVars, sessionVars
    <2>3. \A j : FileOf(j)' = FileOf(j)
      BY <2>2, SessionKept
    <2>4. handles[index].file \in disk /\ written \subseteq disk
      BY <2>1 DEF WriteThrough, IndInv, InSession, SessionInv
    <2>5. Mode \in {"RDWR", "TRUNC"} /\ Mode' = Mode
      BY <2>1, <2>2 DEF WriteThrough, IndInv, TypeOK, Flags, Mode, sessionVars
    <2>6. Created' = Created
      BY <2>2, <2>3 DEF Created
    <2>7. Mode = "TRUNC" => /\ handles[index].file \in Created
                            /\ written \subseteq Created
      BY <2>1 DEF WriteThrough, IndInv, InSession, SessionInv, HandleOnItsFile,
                  OnlyCreatedFilesOpen, Mode, Created
    <2>8. Session!Write
      BY <2>1, <2>2, <2>4, <2>5, <2>6, <2>7
         DEF Session!Write, Mode, Created, WriteThrough
    <2>9. QED
      BY <2>8 DEF Session!Next
  <1>3. CASE Close \/ \E k \in DOMAIN handles : CloseFails(k)
    <2>1. ResetMembers /\ UNCHANGED disk
      BY <1>3 DEF Close, CloseFails
    <2>2. Session!End
      BY <2>1 DEF Session!End, ResetMembers
    <2>3. QED
      BY <2>2 DEF Session!Next
  <1>4. CASE \E s \in Schemes : SetFileNameScheme(s)
    <2>1. createdFiles = {} /\ UNCHANGED <<filename, fileFlags, createdFiles, disk, written>>
      BY <1>4 DEF SetFileNameScheme, IndInv, InSession, ClosedInv
    <2>2. QED
      BY <2>1 DEF Session!vars
  <1>5. CASE \/ \E size \in Topologies, n \in Names, fl \in Flags : OpenMany(size, n, fl)
             \/ \E n \in Names, fl \in Flags : OpenFull(n, fl)
    <2>1. /\ createdFiles = {} /\ UNCHANGED <<createdFiles, disk, written>>
          /\ filename = NoName /\ filename' \in Names /\ fileFlags' \in Flags
      BY <1>5 DEF OpenMany, OpenFull, Closed, IndInv, InSession, ClosedInv
    <2>2. filename' # NoName
      BY <2>1, NameAssumption
    <2>3. fileFlags' \in Session!Modes
      BY <2>1 DEF Flags, Session!Modes
    <2>4. Session!Begin(fileFlags')
      BY <2>1, <2>2 DEF Session!Begin
    <2>5. QED
      BY <2>3, <2>4 DEF Session!Next
  <1>6. CASE UNCHANGED vars
    BY <1>6, StutterRefines DEF vars, mgrVars, sessionVars
  <1>7. QED
    BY <1>1, <1>2, <1>3, <1>4, <1>5, <1>6 DEF Next

\* HandleMgr.cpp:198-209. With base names that are not full names, the limited
\* table is invisible: files are created once per session and keep what the session
\* wrote, whatever is evicted and reopened in between.
THEOREM Refinement ==
    ASSUME NoFullNames
    PROVE  Spec => ImplementsSession
  <1>1. Init => Session!Init
    BY DEF Init, Session!Init
  <1>2. IndInv /\ [Next]_vars => [Session!Next]_(Session!vars)
    BY StepRefines
  <1>3. QED
    BY <1>1, <1>2, Invariance, PTL DEF Spec, ImplementsSession, Session!Spec


-----------------------------------------------------------------------------
(* Lazy loading *)

\* The references of a session are to indices it asked for, and so is the table.
\* While these are not more than may be open, no reference was closed.
LazyInv ==
    /\ IsFiniteSet(asked)
    /\ ~InSession => refs = {}
    /\ InSession => DOMAIN handles \subseteq asked
    /\ InSession /\ Cardinality(asked) <= MaxHandles =>
          \A r \in refs : r[2] /\ r[1] \in DOMAIN handles

\* Asking for an index adds at most its own handle.
LEMMA GetAddsOne ==
    ASSUME NEW i \in Ids, Get(i)
    PROVE  /\ DOMAIN handles' \subseteq DOMAIN handles \union {IndexOf(i)}
           /\ IndexOf(i) \in DOMAIN handles \/ HasRoom =>
                 DOMAIN handles \subseteq DOMAIN handles'
           /\ filename' = filename
  <1>1. DOMAIN TableAfterEviction \subseteq DOMAIN handles
    BY DEF TableAfterEviction, Without
  <1>2. HasRoom => TableAfterEviction = handles
    BY DEF TableAfterEviction
  <1>3. CASE GetHit(i) \/ GetEvictFails(i)
    BY <1>3 DEF GetHit, GetEvictFails, vars, mgrVars, sessionVars
  <1>4. CASE GetCreate(i) \/ GetOpen(i)
    <2>1. /\ IndexOf(i) \notin DOMAIN handles /\ filename' = filename
          /\ DOMAIN handles' = DOMAIN TableAfterEviction \union {IndexOf(i)}
      BY <1>4 DEF GetCreate, GetOpen, MissWithRoom, Insert, sessionVars
    <2>2. QED
      BY <1>1, <1>2, <2>1
  <1>5. CASE GetCreateCallbackThrows(i) \/ GetFails(i)
    <2>1. /\ IndexOf(i) \notin DOMAIN handles /\ filename' = filename
          /\ handles' = TableAfterEviction
      BY <1>5 DEF GetCreateCallbackThrows, GetFails, MissWithRoom, sessionVars
    <2>2. QED
      BY <1>1, <1>2, <2>1
  <1>6. QED
    BY <1>3, <1>4, <1>5 DEF Get

\* A session that has not asked for more files than may be open never makes room.
LEMMA AskKeepsTable ==
    ASSUME IndInv, LazyInv, InSession, NEW i \in Ids, Get(i),
           Cardinality(asked \union {IndexOf(i)}) <= MaxHandles
    PROVE  DOMAIN handles \subseteq DOMAIN handles'
  <1> DEFINE H == DOMAIN handles
             index == IndexOf(i)
  <1>1. IsFiniteSet(asked) /\ H \subseteq asked /\ IsFiniteSet(H)
    BY DEF LazyInv, IndInv, TypeOK
  <1>2. IsFiniteSet(asked \union {index}) /\ H \union {index} \subseteq asked \union {index}
    BY <1>1, FS_AddElement
  <1>3. Cardinality(H \union {index}) <= Cardinality(asked \union {index})
    BY <1>2, FS_Subset
  <1>4. CASE index \in H
    BY <1>4, GetAddsOne
  <1>5. CASE index \notin H
    <2>1. Cardinality(H \union {index}) = Cardinality(H) + 1
      BY <1>1, <1>5, FS_AddElement
    <2>2. Cardinality(H) \in Nat /\ Cardinality(asked \union {index}) \in Nat
      BY <1>1, <1>2, FS_CardinalityType
    <2>3. HasRoom
      BY <1>3, <2>1, <2>2, MaxHandlesType DEF HasRoom
    <2>4. QED
      BY <2>3, GetAddsOne
  <1>6. QED
    BY <1>4, <1>5

LEMMA AskStep ==
    ASSUME IndInv, IndInv', LazyInv, NEW i \in Ids, Ask(i)
    PROVE  LazyInv'
  <1>1. /\ Get(i) /\ asked' = asked \union {IndexOf(i)}
        /\ refs' = RefsAfter \/ KeepsHandle(IndexOf(i))
    BY DEF Ask
  <1>2. /\ DOMAIN handles' \subseteq DOMAIN handles \union {IndexOf(i)}
        /\ filename' = filename
    BY <1>1, GetAddsOne
  <1>3. InSession' <=> InSession
    BY <1>2 DEF InSession
  <1>4. IsFiniteSet(asked')
    BY <1>1, FS_AddElement DEF LazyInv
  <1>5. InSession => DOMAIN handles' \subseteq asked'
    BY <1>1, <1>2 DEF LazyInv
  <1>6. ~InSession => refs' = {}
    BY <1>1 DEF LazyInv, RefsAfter, KeepsHandle
  <1>7. ASSUME InSession, Cardinality(asked') <= MaxHandles, NEW r \in refs'
        PROVE  r[2] /\ r[1] \in DOMAIN handles'
    <2>1. /\ IsFiniteSet(asked) /\ asked \subseteq asked'
          /\ Cardinality(asked) <= Cardinality(asked')
      BY <1>1, <1>4, FS_Subset DEF LazyInv
    <2>2. Cardinality(asked) <= MaxHandles
      BY <1>4, <1>7, <2>1, FS_CardinalityType, MaxHandlesType
    <2>3. \A s \in refs : s[2] /\ s[1] \in DOMAIN handles
      BY <1>7, <2>2 DEF LazyInv
    <2>4. DOMAIN handles \subseteq DOMAIN handles'
      BY <1>1, <1>7, AskKeepsTable
    <2>5. \A j \in DOMAIN handles' : handles'[j].live
      BY <1>3, <1>7 DEF IndInv, SessionInv, HandleOnItsFile
    <2>6. CASE r \in RefsAfter
      <3>1. PICK s \in refs : r = <<s[1], s[2] /\ StillOpen(s[1])>>
        BY <2>6 DEF RefsAfter
      <3>2. s[1] \in DOMAIN handles' /\ StillOpen(s[1]) /\ s[2]
        BY <2>3, <2>4, <2>5 DEF StillOpen
      <3>3. QED
        BY <3>1, <3>2
    <2>7. CASE r = <<IndexOf(i), TRUE>> /\ StillOpen(IndexOf(i))
      BY <2>7 DEF StillOpen
    <2>8. QED
      BY <1>1, <2>6, <2>7 DEF KeepsHandle
  <1>8. QED
    BY <1>3, <1>4, <1>5, <1>6, <1>7 DEF LazyInv

\* Opening starts with an empty table, and writing changes none.
LEMMA PrepareStep ==
    ASSUME IndInv, LazyInv, Prepare
    PROVE  LazyInv'
  <1>1. refs' = refs /\ asked' = asked
    BY DEF Prepare, lazyVars
  <1>2. CASE (\E s \in Schemes : SetFileNameScheme(s))
               \/ (\E index \in DOMAIN handles : WriteThrough(index))
    <2>1. filename' = filename /\ handles' = handles
      BY <1>2 DEF SetFileNameScheme, WriteThrough, mgrVars
    <2>2. QED
      BY <1>1, <2>1 DEF LazyInv, InSession
  <1>3. CASE \/ \E size \in Topologies, n \in Names, fl \in Flags : OpenMany(size, n, fl)
             \/ \E n \in Names, fl \in Flags : OpenFull(n, fl)
    <2>1. ~InSession /\ DOMAIN handles' = {}
      BY <1>3 DEF OpenMany, OpenFull, Closed, InSession
    <2>2. refs' = {}
      BY <1>1, <2>1 DEF LazyInv
    <2>3. QED
      BY <1>1, <2>1, <2>2 DEF LazyInv
  <1>4. QED
    BY <1>2, <1>3 DEF Prepare

LEMMA EndStep ==
    ASSUME End
    PROVE  LazyInv'
  <1>1. refs' = {} /\ asked' = {} /\ filename' = NoName
    BY DEF End, Close, CloseFails, ResetMembers
  <1>2. QED
    BY <1>1, FS_EmptySet DEF LazyInv, InSession

LEMMA LazyStep ==
    ASSUME IndInv, LazyInv, [LazyNext]_allVars
    PROVE  IndInv' /\ LazyInv'
  <1>1. [Next]_vars
    BY DEF LazyNext, allVars, Ask, Prepare, End, Next
  <1>2. IndInv'
    BY <1>1, NextIndInv
  <1>3. CASE UNCHANGED allVars
    <2>1. UNCHANGED <<filename, handles, refs, asked>>
      BY <1>3 DEF allVars, lazyVars, vars, mgrVars
    <2>2. LazyInv'
      BY <2>1 DEF LazyInv, InSession
    <2>3. QED
      BY <1>2, <2>2
  <1>4. QED
    BY <1>2, <1>3, AskStep, PrepareStep, EndStep DEF LazyNext

\* IDomainCollector.hpp:106-107. A domain loaded lazily can be read until the session
\* ends, if it asks for no more files than may be open, whatever failed, was
\* asked for again or was left behind by an earlier session.
THEOREM LoadedReadable == LazySpec => []LoadedStaysReadable
  <1>1. LazyInit => IndInv /\ LazyInv
    <2>1. SUFFICES ASSUME LazyInit PROVE IndInv /\ LazyInv
      OBVIOUS
    <2>2. IndInv
      BY <2>1, InitIndInv DEF LazyInit
    <2>3. refs = {} /\ asked = {} /\ DOMAIN handles = {}
      BY <2>1 DEF LazyInit, Init
    <2>4. QED
      BY <2>2, <2>3, FS_EmptySet DEF LazyInv
  <1>2. IndInv /\ LazyInv /\ [LazyNext]_allVars => (IndInv /\ LazyInv)'
    BY LazyStep
  <1>3. IndInv /\ LazyInv => LoadedStaysReadable
    BY DEF LazyInv, LoadedStaysReadable
  <1>4. QED
    BY <1>1, <1>2, <1>3, PTL DEF LazySpec
=============================================================================
