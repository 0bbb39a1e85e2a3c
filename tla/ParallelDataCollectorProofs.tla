-------------------- MODULE ParallelDataCollectorProofs ---------------------
(***************************************************************************)
(* Proofs about ParallelDataCollector for any number of processes, any      *)
(* iterations and any programs: that the processes, which tell each other   *)
(* nothing, come to the same collective calls and keep the same books.      *)
(***************************************************************************)
EXTENDS ParallelDataCollector, NumberLemmas, FiniteSetTheorems, SequenceTheorems

-----------------------------------------------------------------------------
(* Finite sets of iterations *)

\* A finite set of natural numbers has an upper bound: a smallest one without
\* would have one when an element is taken out.
LEMMA FiniteBounded ==
    ASSUME NEW S \in SUBSET Nat, IsFiniteSet(S)
    PROVE  \E b \in Nat : \A k \in S : k <= b
  <1> DEFINE Bounded(T) == \E b \in Nat : \A k \in T : k <= b
             Bad == {n \in Nat : \E T \in SUBSET Nat :
                        IsFiniteSet(T) /\ Cardinality(T) = n /\ ~Bounded(T)}
  <1>1. ASSUME Bad # {} PROVE FALSE
    <2>1. PICK n \in Bad : \A m \in Bad : n <= m
      <3>1. Bad \in SUBSET Nat
        OBVIOUS
      <3> HIDE DEF Bad
      <3>2. QED
        BY <1>1, <3>1, LeastNatural
    <2>2. PICK T \in SUBSET Nat : IsFiniteSet(T) /\ Cardinality(T) = n /\ ~Bounded(T)
      BY <2>1
    <2>3. T # {}
      BY <2>2
    <2>4. PICK x \in T : TRUE
      BY <2>3
    <2>5. IsFiniteSet(T \ {x}) /\ Cardinality(T \ {x}) = n - 1
      BY <2>2, <2>4, FS_RemoveElement
    <2>6. n - 1 \in Nat
      BY <2>5, FS_CardinalityType
    <2>7. n - 1 \notin Bad
      BY <2>1, <2>6
    <2>8. PICK b \in Nat : \A k \in T \ {x} : k <= b
      BY <2>2, <2>5, <2>6, <2>7
    <2>9. \A k \in T : k <= (IF b < x THEN x ELSE b)
      BY <2>2, <2>8
    <2>10. QED
      BY <2>2, <2>9
  <1>2. Cardinality(S) \in Nat
    BY FS_CardinalityType
  <1>3. Cardinality(S) \notin Bad
    BY <1>1, <1>2
  <1>4. QED
    BY <1>2, <1>3

\* The elements of a finite set in increasing order.
Increasing(S) ==
    {o \in [1..Cardinality(S) -> S] : \A j, k \in DOMAIN o : j < k => o[j] < o[k]}

Sorted(S) == CHOOSE o \in Increasing(S) : TRUE

\* Where two increasing orders differ first, neither is the smaller one.
LEMMA IncreasingLeast ==
    ASSUME NEW S \in SUBSET Nat, IsFiniteSet(S),
           NEW o \in Increasing(S), NEW q \in Increasing(S),
           NEW k \in 1..Cardinality(S), \A j \in 1..Cardinality(S) : j < k => o[j] = q[j]
    PROVE  ~(o[k] < q[k])
  <1> DEFINE n == Cardinality(S)
  <1>1. n \in Nat
    BY FS_CardinalityType
  <1>2. /\ o \in [1..n -> S] /\ \A i, j \in 1..n : i < j => o[i] < o[j]
        /\ q \in [1..n -> S] /\ \A i, j \in 1..n : i < j => q[i] < q[j]
    BY DEF Increasing
  <1>3. IsFiniteSet(1..n) /\ Cardinality(1..n) = Cardinality(S)
    <2>1. IsFiniteSet(1..n) /\ Cardinality(1..n) = IF 1 > n THEN 0 ELSE n - 1 + 1
      BY <1>1, FS_Interval
    <2>2. QED
      BY <1>1, <2>1
  <1> HIDE DEF n
  <1>4. \A i, j \in 1..n : q[i] = q[j] => i = j
    <2>1. SUFFICES ASSUME NEW i \in 1..n, NEW j \in 1..n, q[i] = q[j], i # j
                   PROVE  FALSE
      OBVIOUS
    <2>2. i \in Nat /\ j \in Nat /\ (i < j \/ j < i)
      BY <1>1, <2>1
    <2>3. q[i] \in Nat /\ q[j] \in Nat
      BY <1>2, <2>1
    <2>4. QED
      BY <1>2, <2>1, <2>2, <2>3
  <1>5. q \in Injection(1..n, S)
    BY <1>2, <1>4 DEF Injection, IsInjective
  <1>6. q \in Surjection(1..n, S)
    BY <1>3, <1>5, FS_Injection
  <1>7. PICK j \in 1..n : q[j] = o[k]
    BY <1>2, <1>6 DEF Surjection, n
  <1>8. SUFFICES ASSUME o[k] < q[k] PROVE FALSE
    OBVIOUS
  <1>9. o[j] \in Nat /\ o[k] \in Nat /\ q[j] \in Nat /\ q[k] \in Nat /\ k \in 1..n
    BY <1>2 DEF n
  <1>10. CASE j < k
    BY <1>2, <1>7, <1>9, <1>10 DEF n
  <1>11. CASE j = k
    BY <1>7, <1>8, <1>9, <1>11
  <1>12. CASE j > k
    BY <1>2, <1>7, <1>8, <1>9, <1>12
  <1>13. QED
    BY <1>1, <1>9, <1>10, <1>11, <1>12

\* There is one increasing order. handles.close() walks an ordered map: all
\* processes that hold the same files open close them in the same order.
LEMMA IncreasingUnique ==
    ASSUME NEW S \in SUBSET Nat, IsFiniteSet(S), NEW o \in Increasing(S)
    PROVE  o = Sorted(S)
  <1> DEFINE q == Sorted(S)
             n == Cardinality(S)
             D == {k \in 1..n : o[k] # q[k]}
  <1>1. n \in Nat
    BY FS_CardinalityType
  <1>2. q \in Increasing(S)
    BY DEF Sorted
  <1>3. o \in [1..n -> S] /\ q \in [1..n -> S]
    BY <1>2 DEF Increasing
  <1> HIDE DEF q, n
  <1>4. ASSUME D # {} PROVE FALSE
    <2>1. D \in SUBSET Nat
      BY <1>1
    <2>2. PICK k \in D : \A j \in D : k <= j
      BY <1>4, <2>1, LeastNatural
    <2>3. k \in 1..n /\ o[k] # q[k] /\ \A j \in 1..n : j < k => o[j] = q[j]
      BY <1>1, <2>2
    <2>4. ~(o[k] < q[k])
      BY <1>2, <2>3, IncreasingLeast DEF n
    <2>5. ~(q[k] < o[k])
      BY <1>2, <2>3, IncreasingLeast DEF n
    <2>6. o[k] \in Nat /\ q[k] \in Nat
      BY <1>3, <2>3
    <2>7. QED
      BY <2>3, <2>4, <2>5, <2>6
  <1>5. \A k \in 1..n : o[k] = q[k]
    BY <1>4
  <1> HIDE DEF D
  <1>6. o = q
    <2>1. o = [k \in 1..n |-> o[k]] /\ q = [k \in 1..n |-> q[k]]
      BY <1>3
    <2>2. [k \in 1..n |-> o[k]] = [k \in 1..n |-> q[k]]
      BY <1>5
    <2>3. QED
      BY <2>1, <2>2
  <1>7. QED
    BY <1>6 DEF q


-----------------------------------------------------------------------------
(* Handle tables *)

Counter == 0..CtrMod - 1

Table ==
    UNION {[open : [S -> Counter], least : [index : Iterations \union {0}, ctr : Counter],
            created : SUBSET Iterations] : S \in SUBSET Iterations}

\* Counters wrap.
LEMMA CounterFacts ==
    /\ 0 \in Counter /\ 1 \in Counter
    /\ \A c \in Counter, n \in Nat : (c + n) % CtrMod \in Counter
  <1>1. CtrMod \in Nat \ {0} /\ CtrMod > 2
    BY ParallelAssumption
  <1>2. ASSUME NEW c \in Counter, NEW n \in Nat PROVE (c + n) % CtrMod \in Counter
    <2>1. c + n \in Nat
      BY <1>1 DEF Counter
    <2>2. QED
      BY <1>1, <2>1, DivMod DEF Counter
  <1>3. QED
    BY <1>1, <1>2 DEF Counter

LEMMA TableFacts ==
    ASSUME NEW t \in Table
    PROVE  /\ t = [open |-> t.open, least |-> t.least, created |-> t.created]
           /\ DOMAIN t.open \in SUBSET Iterations
           /\ t.open \in [DOMAIN t.open -> Counter]
           /\ t.least = [index |-> t.least.index, ctr |-> t.least.ctr]
           /\ t.least.index \in Iterations \union {0} /\ t.least.ctr \in Counter
           /\ t.created \in SUBSET Iterations
  <1>1. PICK S \in SUBSET Iterations :
            t \in [open : [S -> Counter], created : SUBSET Iterations,
                   least : [index : Iterations \union {0}, ctr : Counter]]
    BY DEF Table
  <1>2. t.open \in [S -> Counter] /\ DOMAIN t.open = S
    BY <1>1
  <1>3. t.least \in [index : Iterations \union {0}, ctr : Counter]
    BY <1>1
  <1>4. QED
    BY <1>1, <1>2, <1>3

LEMMA IsTable ==
    ASSUME NEW S \in SUBSET Iterations, NEW f \in [S -> Counter],
           NEW i \in Iterations \union {0}, NEW c \in Counter,
           NEW created \in SUBSET Iterations
    PROVE  [open |-> f, least |-> [index |-> i, ctr |-> c], created |-> created] \in Table
  BY DEF Table

LEMMA EmptyTableFacts == EmptyTable \in Table /\ DOMAIN EmptyTable.open = {}
  <1>1. [i \in {} |-> 0] \in [{} -> Counter]
    OBVIOUS
  <1>2. EmptyTable \in Table
    BY <1>1, CounterFacts, IsTable DEF EmptyTable
  <1>3. QED
    BY <1>2 DEF EmptyTable

\* HandleMgr::get() of an open file counts, and changes nothing else.
LEMMA HitsFacts ==
    ASSUME NEW t \in Table, NEW i \in DOMAIN t.open, NEW n \in Nat
    PROVE  /\ Hits(t, i, n) \in Table
           /\ DOMAIN Hits(t, i, n).open = DOMAIN t.open
           /\ Hits(t, i, n).created = t.created
  <1> DEFINE f == [t.open EXCEPT ![i] = (@ + n) % CtrMod]
             x == t.least.index
             d == IF x = i THEN (t.least.ctr + n) % CtrMod ELSE t.least.ctr
  <1>1. Hits(t, i, n) = [open |-> f, least |-> [index |-> x, ctr |-> d],
                         created |-> t.created]
    BY DEF Hits
  <1>2. f \in [DOMAIN t.open -> Counter] /\ DOMAIN f = DOMAIN t.open
    BY TableFacts, CounterFacts
  <1>3. x \in Iterations \union {0} /\ d \in Counter
    BY TableFacts, CounterFacts
  <1> HIDE DEF f, x, d
  <1>4. Hits(t, i, n) \in Table
    <2>1. DOMAIN t.open \in SUBSET Iterations /\ t.created \in SUBSET Iterations
      BY TableFacts
    <2>2. QED
      BY <1>1, <1>2, <1>3, <2>1 DEF Table
  <1>5. QED
    BY <1>1, <1>2, <1>4

LEMMA DropFacts ==
    ASSUME NEW t \in Table, NEW f
    PROVE  /\ Drop(t, f) \in Table
           /\ DOMAIN Drop(t, f).open = DOMAIN t.open \ {f}
           /\ Drop(t, f).created = t.created
  <1>1. CASE f \notin DOMAIN t.open
    BY <1>1 DEF Drop
  <1>2. CASE f \in DOMAIN t.open
    <2> DEFINE S == DOMAIN t.open \ {f}
               g == [i \in S |-> t.open[i]]
               x == t.least.index
    <2>1. Drop(t, f) = [open |-> g, least |-> [index |-> x, ctr |-> 0],
                        created |-> t.created]
      BY <1>2 DEF Drop
    <2>2. g \in [S -> Counter] /\ DOMAIN g = S
      BY TableFacts
    <2>3. S \in SUBSET Iterations /\ x \in Iterations \union {0} /\ 0 \in Counter
      BY TableFacts, CounterFacts
    <2> HIDE DEF g, x, S
    <2>4. Drop(t, f) \in Table
      <3>1. t.created \in SUBSET Iterations
        BY TableFacts
      <3>2. QED
        BY <2>1, <2>2, <2>3, <3>1 DEF Table
    <2>5. QED
      BY <2>1, <2>2, <2>4 DEF S
  <1>3. QED
    BY <1>1, <1>2

LEMMA EnterFacts ==
    ASSUME NEW t \in Table, NEW i \in Iterations
    PROVE  /\ Enter(t, i) \in Table
           /\ DOMAIN Enter(t, i).open = DOMAIN t.open \union {i}
           /\ Enter(t, i).created = t.created
  <1> DEFINE S == DOMAIN t.open \union {i}
             g == [j \in S |-> IF j = i THEN 1 ELSE t.open[j]]
             new == t.least.ctr = 0 \/ 1 < t.least.ctr
             x == IF new THEN i ELSE t.least.index
             d == IF new THEN 1 ELSE t.least.ctr
  <1>1. Enter(t, i) = [open |-> g, least |-> [index |-> x, ctr |-> d],
                       created |-> t.created]
    BY TableFacts DEF Enter
  <1>2. g \in [S -> Counter] /\ DOMAIN g = S
    BY TableFacts, CounterFacts
  <1>3. S \in SUBSET Iterations /\ x \in Iterations \union {0} /\ d \in Counter
    BY TableFacts, CounterFacts
  <1> HIDE DEF g, x, d, S
  <1>4. Enter(t, i) \in Table
    <2>1. t.created \in SUBSET Iterations
      BY TableFacts
    <2>2. QED
      BY <1>1, <1>2, <1>3, <2>1 DEF Table
  <1>5. QED
    BY <1>1, <1>2, <1>4 DEF S

\* What a collective call does to the files and to what counts as created is the
\* same in tables that agree on these, whatever their counters.
LEMMA TableAfterFacts ==
    ASSUME NEW t \in Table, NEW op \in Ops
    PROVE  /\ TableAfter(t, op) \in Table
           /\ DOMAIN TableAfter(t, op).open =
                CASE op.do = "close" -> DOMAIN t.open \ {op.file}
                  [] op.do \in {"open", "create"} -> DOMAIN t.open \union {op.file}
                  [] OTHER -> DOMAIN t.open
           /\ TableAfter(t, op).created =
                IF op.do = "create" THEN t.created \union {op.file} ELSE t.created
  <1>1. op.file \in Iterations
    BY DEF Ops
  <1>2. CASE op.do = "close"
    BY <1>2, DropFacts DEF TableAfter
  <1>3. CASE op.do = "open"
    BY <1>1, <1>3, EnterFacts DEF TableAfter
  <1>4. CASE op.do = "create"
    <2> DEFINE e == Enter(t, op.file)
    <2>1. /\ e \in Table /\ DOMAIN e.open = DOMAIN t.open \union {op.file}
          /\ e.created = t.created
      BY <1>1, EnterFacts
    <2>2. TableAfter(t, op) = [e EXCEPT !.created = @ \union {op.file}]
      BY <1>4 DEF TableAfter
    <2> HIDE DEF e
    <2>3. TableAfter(t, op) =
            [open |-> e.open, least |-> [index |-> e.least.index, ctr |-> e.least.ctr],
             created |-> t.created \union {op.file}]
      BY <2>1, <2>2, TableFacts
    <2>4. t.created \union {op.file} \in SUBSET Iterations
      BY <1>1, TableFacts
    <2>5. TableAfter(t, op) \in Table
      BY <2>1, <2>3, <2>4, TableFacts, IsTable
    <2>6. QED
      BY <1>4, <2>1, <2>3, <2>5
  <1>5. CASE op.do \notin {"close", "open", "create"}
    <2>1. MoreGets(op.do) \in Nat
      BY DEF MoreGets
    <2>2. CASE op.file \in DOMAIN t.open
      BY <1>5, <2>1, <2>2, HitsFacts DEF TableAfter
    <2>3. CASE op.file \notin DOMAIN t.open
      BY <1>5, <2>3 DEF TableAfter
    <2>4. QED
      BY <2>2, <2>3
  <1>6. QED
    BY <1>2, <1>3, <1>4, <1>5


-----------------------------------------------------------------------------
(* The books of a process *)

\* A program that appends independently.
Appends == "append" \in program.used

\* A program that appends independently has a handle for every iteration. Without
\* it append() closes files in one process alone, and the processes part.
EnoughHandles ==
    \A p \in Programs : "append" \in p.used => Cardinality(p.ids) <= p.limit

Book(status, files, created, max, kept, waits, table) ==
    [status |-> status, files |-> files, created |-> created, max |-> max,
     reserved |-> kept, todo |-> waits, table |-> table]

\* All that decides which collective calls a process makes. Where processes
\* append independently, their counters differ, but decide nothing.
Books(r) ==
    Book(fileStatus[r], DOMAIN tables[r].open, tables[r].created, maxID[r], reserved[r],
         todo[r], IF Appends THEN EmptyTable ELSE tables[r])

\* ListedMaxID, the collective calls of an access to iteration i, and the books
\* when call c has begun, for a process with books v in a program p when d is on
\* disk: they follow from these alone.
Listed(d, old) == IF d = {} THEN old ELSE CHOOSE m \in d : \A i \in d : i <= m

AccessOps(p, v, i) ==
    IF i \in v.files THEN <<>>
    ELSE (IF "append" \notin p.used /\ Cardinality(DOMAIN v.table.open) + 1 > p.limit
          THEN <<Op("close", v.table.least.index)>> ELSE <<>>)
         \o <<Op(IF v.status = "TRUNC" /\ i \notin v.created THEN "create" ELSE "open", i)>>

After(p, d, c, v) ==
    CASE c.kind = "open" ->
           Book(c.mode, v.files, v.created,
                IF c.mode = "TRUNC" THEN -1 ELSE Listed(d, v.max),
                v.reserved, <<>>, v.table)
      [] c.kind = "close" ->
           Book("CLOSED", {}, {}, -1, {},
                [j \in 1..Cardinality(v.files) |-> Op("close", Sorted(v.files)[j])],
                EmptyTable)
      [] c.kind = "getMaxID" ->
           Book(v.status, v.files, v.created, Listed(d, v.max), v.reserved, <<>>, v.table)
      [] OTHER ->
           Book(v.status, v.files, v.created, v.max, v.reserved,
                AccessOps(p, v, c.id) \o <<Op(c.kind, c.id)>>,
                IF "append" \in p.used THEN v.table ELSE AfterGet(v.table, c.id))

\* Every call of the program is one of four things a process does to its books.
LEMMA BeginCases ==
    ASSUME NEW r \in Ranks, NEW c \in Calls, Begin(r, c)
    PROVE  /\ todo[r] = <<>> /\ UNCHANGED <<program, disk>>
           /\ \/ c.kind = "open" /\ OpenCall(r, c.mode) /\ c.mode \in Modes
              \/ c.kind = "close" /\ CloseCall(r)
              \/ c.kind = "getMaxID" /\ GetMaxIDCall(r)
              \/ /\ c.kind \in AllKinds /\ c.id \in Iterations
                 /\ Access(r, c.kind, c.id)
  <1>1. todo[r] = <<>> /\ UNCHANGED <<program, disk>>
    BY DEF Begin
  <1>2. CASE c.kind = "open"
    BY <1>1, <1>2 DEF Begin, Calls, AllKinds
  <1>3. CASE c.kind = "close"
    BY <1>1, <1>3 DEF Begin
  <1>4. CASE c.kind = "getMaxID"
    BY <1>1, <1>4 DEF Begin
  <1>5. CASE c.kind \notin {"open", "close", "getMaxID"}
    <2>1. c.kind \in AllKinds \ {"append"} /\ c.id \in Iterations
      BY <1>5 DEF Calls
    <2>2. CASE c.kind = "write"
      BY <1>1, <2>1, <2>2 DEF Begin, WriteCall
    <2>3. CASE c.kind = "reserve"
      BY <1>1, <2>1, <2>3 DEF Begin, ReserveCall
    <2>4. CASE c.kind = "remove"
      BY <1>1, <2>1, <2>4 DEF Begin, RemoveCall
    <2>5. CASE c.kind = "removeDataset"
      BY <1>1, <2>1, <2>5 DEF Begin, RemoveDatasetCall
    <2>6. CASE c.kind = "createReference"
      BY <1>1, <2>1, <2>6 DEF Begin, CreateReferenceCall
    <2>7. CASE c.kind \in {"writeAttribute", "writeNewAttribute"}
      BY <1>1, <2>1, <2>7 DEF Begin, WriteAttributeCall
    <2>8. CASE c.kind = "writeGlobalAttribute"
      BY <1>1, <2>1, <2>8 DEF Begin, WriteGlobalAttributeCall
    <2>9. CASE c.kind = "read"
      BY <1>1, <2>1, <2>9 DEF Begin, ReadCall
    <2>10. CASE c.kind = "readMeta"
      BY <1>1, <2>1, <2>10 DEF Begin, ReadMetaCall
    <2>11. CASE c.kind = "readAttribute"
      BY <1>1, <2>1, <2>11 DEF Begin, ReadAttributeCall
    <2>12. CASE c.kind = "readGlobalAttribute"
      BY <1>1, <2>1, <2>12 DEF Begin, ReadGlobalAttributeCall
    <2>13. CASE c.kind = "getEntries"
      BY <1>1, <2>1, <2>13 DEF Begin, GetEntriesCall
    <2>14. QED
      BY <2>1, <2>2, <2>3, <2>4, <2>5, <2>6, <2>7, <2>8, <2>9, <2>10, <2>11, <2>12,
         <2>13 DEF AllKinds
  <1>6. QED
    BY <1>2, <1>3, <1>4, <1>5


-----------------------------------------------------------------------------
(* Types *)

\* leastAccIndex names an iteration as soon as there is a file to close.
Tracks(t) ==
    t.least.ctr # 0 \/ DOMAIN t.open # {} => t.least.index \in Iterations

RankTypes ==
    /\ fileStatus \in [Ranks -> Modes \union {"CLOSED"}]
    /\ tables \in [Ranks -> Table]
    /\ \A r \in Ranks : Tracks(tables[r])
    /\ maxID \in [Ranks -> Iterations \union {-1}]
    /\ reserved \in [Ranks -> SUBSET Iterations]
    /\ todo \in [Ranks -> Seq(Ops)]

ProgramTypes == program \in Programs /\ disk \subseteq Iterations

ScriptTypes ==
    /\ script \in Seq(Calls) /\ Len(script) <= MaxAhead
    /\ \A k \in 1..Len(script) : Used(script[k])
    /\ begun \in [Ranks -> Nat]

LEMMA ProgramFacts ==
    ASSUME program \in Programs
    PROVE  /\ program.limit \in Nat \ {0}
           /\ program.used \in SUBSET AllKinds
           /\ program.ids \in SUBSET Iterations
  BY ParallelAssumption

LEMMA TracksFacts ==
    ASSUME NEW t \in Table, Tracks(t)
    PROVE  /\ \A i \in DOMAIN t.open, n \in Nat : Tracks(Hits(t, i, n))
           /\ \A op \in Ops : Tracks(TableAfter(t, op))
  <1>1. ASSUME NEW i \in DOMAIN t.open, NEW n \in Nat PROVE Tracks(Hits(t, i, n))
    <2>1. Hits(t, i, n).least.index = t.least.index
      BY DEF Hits
    <2>2. QED
      BY <2>1 DEF Tracks
  <1>2. ASSUME NEW op \in Ops PROVE Tracks(TableAfter(t, op))
    <2>1. op.file \in Iterations
      BY DEF Ops
    <2>2. CASE op.do = "close"
      <3>1. TableAfter(t, op) = Drop(t, op.file)
        BY <2>2 DEF TableAfter
      <3>2. Tracks(Drop(t, op.file))
        BY DropFacts DEF Drop, Tracks
      <3>3. QED
        BY <3>1, <3>2
    <2>3. Enter(t, op.file).least.index \in Iterations
      <3>1. CASE t.least.ctr = 0 \/ 1 < t.least.ctr
        BY <2>1, <3>1 DEF Enter
      <3>2. CASE ~(t.least.ctr = 0 \/ 1 < t.least.ctr)
        BY <3>2 DEF Enter, Tracks
      <3>3. QED
        BY <3>1, <3>2
    <2>4. CASE op.do = "open"
      BY <2>3, <2>4 DEF TableAfter, Tracks
    <2>5. CASE op.do = "create"
      <3> DEFINE e == Enter(t, op.file)
      <3>1. e \in Table
        BY <2>1, EnterFacts
      <3>2. TableAfter(t, op) = [e EXCEPT !.created = @ \union {op.file}]
        BY <2>5 DEF TableAfter
      <3> HIDE DEF e
      <3>3. TableAfter(t, op).least = e.least
        BY <3>1, <3>2, TableFacts
      <3>4. QED
        BY <2>3, <3>3 DEF Tracks, e
    <2>6. CASE op.do \notin {"close", "open", "create"}
      <3>1. MoreGets(op.do) \in Nat
        BY DEF MoreGets
      <3>2. QED
        BY <1>1, <2>6, <3>1 DEF TableAfter
    <2>7. QED
      BY <2>2, <2>4, <2>5, <2>6
  <1>3. QED
    BY <1>1, <1>2

LEMMA AfterGetFacts ==
    ASSUME NEW t \in Table, Tracks(t), NEW i \in Iterations
    PROVE  /\ AfterGet(t, i) \in Table /\ Tracks(AfterGet(t, i))
           /\ DOMAIN AfterGet(t, i).open = DOMAIN t.open
           /\ AfterGet(t, i).created = t.created
  <1>1. CASE i \in DOMAIN t.open
    BY <1>1, HitsFacts, TracksFacts DEF AfterGet
  <1>2. CASE i \notin DOMAIN t.open
    BY <1>2 DEF AfterGet
  <1>3. QED
    BY <1>1, <1>2

\* A full table holds a file.
LEMMA FullFacts ==
    ASSUME ProgramTypes, NEW t \in Table, Full(t), Tracks(t)
    PROVE  t.least.index \in Iterations
  <1>1. DOMAIN t.open \in SUBSET Iterations /\ program.limit \in Nat \ {0}
    BY TableFacts, ProgramFacts DEF ProgramTypes
  <1>2. CASE DOMAIN t.open = {}
    <2>1. Cardinality(DOMAIN t.open) = 0
      BY <1>2, FS_EmptySet
    <2>2. QED
      BY <1>1, <2>1 DEF Full
  <1>3. CASE DOMAIN t.open # {}
    BY <1>3 DEF Tracks
  <1>4. QED
    BY <1>2, <1>3

\* The highest iteration on disk is one.
LEMMA ListedFacts ==
    ASSUME ProgramTypes, NEW old \in Iterations \union {-1}
    PROVE  ListedMaxID(old) \in Iterations \union {-1}
  <1>1. CASE disk = {}
    BY <1>1 DEF ListedMaxID
  <1>2. CASE disk # {}
    <2>1. disk \in SUBSET Nat /\ IsFiniteSet(disk)
      BY ParallelAssumption, FS_Subset DEF ProgramTypes
    <2>2. PICK b \in Nat : \A k \in disk : k <= b
      BY <2>1, FiniteBounded
    <2>3. \E m \in disk : \A k \in disk : k <= m
      BY <1>2, <2>1, <2>2, GreatestNatural
    <2>4. ListedMaxID(old) \in disk
      BY <1>2, <2>3 DEF ListedMaxID
    <2>5. QED
      BY <2>4 DEF ProgramTypes
  <1>3. QED
    BY <1>1, <1>2

OpKinds == AllKinds \union {"close", "open", "create"}

LEMMA OpFacts ==
    /\ \A do \in OpKinds, i \in Iterations : Op(do, i) \in Ops
    /\ \A do, i : Op(do, i).do = do /\ Op(do, i).file = i
    /\ \A o \in Ops : <<o>> \in Seq(Ops) /\ Len(<<o>>) = 1 /\ <<o>>[1] = o
  <1>1. \A do \in OpKinds, i \in Iterations : Op(do, i) \in Ops
    BY DEF Op, Ops, OpKinds
  <1>2. QED
    BY <1>1 DEF Op

LEMMA GetOpsFacts ==
    ASSUME ProgramTypes, RankTypes, NEW r \in Ranks, NEW i \in Iterations
    PROVE  GetOps(r, i) \in Seq(Ops)
  <1> DEFINE t == tables[r]
             a == IF Full(t) THEN <<Op("close", t.least.index)>> ELSE <<>>
             b == <<Op(IF MustCreate(r, i) THEN "create" ELSE "open", i)>>
  <1>1. t \in Table /\ Tracks(t)
    BY DEF RankTypes
  <1>2. a \in Seq(Ops)
    <2>1. CASE Full(t)
      <3>1. t.least.index \in Iterations
        BY <1>1, <2>1, FullFacts
      <3>2. Op("close", t.least.index) \in Ops
        BY <3>1, OpFacts DEF OpKinds
      <3>3. QED
        BY <2>1, <3>2, OpFacts
    <2>2. CASE ~Full(t)
      BY <2>2, EmptySeq
    <2>3. QED
      BY <2>1, <2>2
  <1>3. b \in Seq(Ops)
    <2>1. Op(IF MustCreate(r, i) THEN "create" ELSE "open", i) \in Ops
      BY OpFacts DEF OpKinds
    <2>2. QED
      BY <2>1, OpFacts
  <1>4. GetOps(r, i) = IF i \in DOMAIN t.open THEN <<>> ELSE a \o b
    BY DEF GetOps
  <1> HIDE DEF a, b
  <1>5. a \o b \in Seq(Ops)
    BY <1>2, <1>3, ConcatProperties
  <1>6. QED
    BY <1>4, <1>5, EmptySeq


LEMMA InitTypes ==
    ASSUME Init
    PROVE  ProgramTypes /\ RankTypes /\ ScriptTypes
  <1>1. ProgramTypes
    BY ProgramFacts DEF Init, ProgramTypes
  <1>2. <<>> \in Seq(Ops) /\ <<>> \in Seq(Calls) /\ Len(<<>>) = 0
    BY EmptySeq
  <1>3. Tracks(EmptyTable)
    BY DEF Tracks, EmptyTable
  <1>4. RankTypes
    BY <1>2, <1>3, EmptyTableFacts DEF Init, RankTypes
  <1>5. ScriptTypes
    BY <1>2, ParallelAssumption DEF Init, ScriptTypes
  <1>6. QED
    BY <1>1, <1>4, <1>5

\* The files of a table in the order close() closes them.
LEMMA CloseFacts ==
    ASSUME RankTypes, NEW r \in Ranks, CloseCall(r)
    PROVE  LET S == DOMAIN tables[r].open IN
           /\ S \in SUBSET Iterations /\ IsFiniteSet(S) /\ Sorted(S) \in Increasing(S)
           /\ todo' = [todo EXCEPT ![r] =
                         [j \in 1..Cardinality(S) |-> Op("close", Sorted(S)[j])]]
  <1> DEFINE S == DOMAIN tables[r].open
  <1>1. S \in SUBSET Iterations
    BY TableFacts DEF RankTypes
  <1>2. S \in SUBSET Nat /\ IsFiniteSet(S)
    BY <1>1, ParallelAssumption, FS_Subset
  <1>3. PICK o \in [1..Cardinality(S) -> S] :
            /\ \A j, k \in DOMAIN o : j < k => o[j] < o[k]
            /\ todo' = [todo EXCEPT ![r] = [j \in DOMAIN o |-> Op("close", o[j])]]
    BY DEF CloseCall
  <1>4. o \in Increasing(S)
    BY <1>3 DEF Increasing
  <1> HIDE DEF S
  <1>5. o = Sorted(S)
    BY <1>2, <1>4, IncreasingUnique
  <1>6. DOMAIN o = 1..Cardinality(S)
    BY <1>3
  <1>7. QED
    BY <1>1, <1>2, <1>3, <1>4, <1>5, <1>6 DEF S

LEMMA BeginTypes ==
    ASSUME ProgramTypes, RankTypes, NEW r \in Ranks, NEW c \in Calls, Begin(r, c)
    PROVE  ProgramTypes' /\ RankTypes'
  <1>1. ProgramTypes'
    BY BeginCases DEF ProgramTypes
  <1>2. CASE c.kind = "open" /\ OpenCall(r, c.mode) /\ c.mode \in Modes
    <2>1. maxID[r] \in Iterations \union {-1}
      BY DEF RankTypes
    <2>2. maxID' \in [Ranks -> Iterations \union {-1}]
      <3>1. ListedMaxID(maxID[r]) \in Iterations \union {-1}
        BY <2>1, ListedFacts
      <3>2. \/ maxID' = [maxID EXCEPT ![r] = -1]
            \/ maxID' = [maxID EXCEPT ![r] = ListedMaxID(maxID[r])]
        BY <1>2 DEF OpenCall, OpenCreate, OpenRead, OpenWrite, Modes
      <3>3. QED
        BY <3>1, <3>2 DEF RankTypes
    <2>3. fileStatus' \in [Ranks -> Modes \union {"CLOSED"}]
      BY <1>2 DEF OpenCall, RankTypes
    <2>4. UNCHANGED <<tables, reserved, todo>>
      BY <1>2 DEF OpenCall
    <2>5. QED
      BY <1>1, <2>2, <2>3, <2>4 DEF RankTypes
  <1>3. CASE c.kind = "close" /\ CloseCall(r)
    <2> DEFINE S == DOMAIN tables[r].open
               w == [j \in 1..Cardinality(S) |-> Op("close", Sorted(S)[j])]
    <2>1. /\ S \in SUBSET Iterations /\ IsFiniteSet(S) /\ Sorted(S) \in Increasing(S)
          /\ todo' = [todo EXCEPT ![r] = w]
      BY <1>3, CloseFacts
    <2>2. Cardinality(S) \in Nat /\ Sorted(S) \in [1..Cardinality(S) -> S]
      BY <2>1, FS_CardinalityType DEF Increasing
    <2> HIDE DEF S
    <2>3. \A j \in 1..Cardinality(S) : Op("close", Sorted(S)[j]) \in Ops
      BY <2>1, <2>2, OpFacts DEF OpKinds
    <2>4. w \in [1..Cardinality(S) -> Ops]
      BY <2>3
    <2> HIDE DEF w
    <2>5. w \in Seq(Ops)
      BY <2>2, <2>4
    <2>6. todo' \in [Ranks -> Seq(Ops)]
      BY <2>1, <2>5 DEF RankTypes
    <2>7. Tracks(EmptyTable)
      BY DEF Tracks, EmptyTable
    <2>8. /\ tables' = [tables EXCEPT ![r] = EmptyTable]
          /\ fileStatus' = [fileStatus EXCEPT ![r] = "CLOSED"]
          /\ maxID' = [maxID EXCEPT ![r] = -1]
          /\ reserved' = [reserved EXCEPT ![r] = {}]
      BY <1>3 DEF CloseCall
    <2>9. QED
      BY <1>1, <2>6, <2>7, <2>8, EmptyTableFacts DEF RankTypes
  <1>4. CASE c.kind = "getMaxID" /\ GetMaxIDCall(r)
    <2>1. ListedMaxID(maxID[r]) \in Iterations \union {-1}
      BY ListedFacts DEF RankTypes
    <2>2. QED
      BY <1>1, <1>4, <2>1 DEF GetMaxIDCall, RankTypes
  <1>5. CASE c.kind \in AllKinds /\ c.id \in Iterations /\ Access(r, c.kind, c.id)
    <2>1. GetOps(r, c.id) \in Seq(Ops)
      BY <1>5, GetOpsFacts
    <2>2. Op(c.kind, c.id) \in Ops
      BY <1>5, OpFacts DEF OpKinds
    <2>3. GetOps(r, c.id) \o <<Op(c.kind, c.id)>> \in Seq(Ops)
      BY <2>1, <2>2, OpFacts, ConcatProperties
    <2>4. todo' \in [Ranks -> Seq(Ops)]
      BY <1>5, <2>3 DEF Access, RankTypes
    <2>5. AfterGet(tables[r], c.id) \in Table /\ Tracks(AfterGet(tables[r], c.id))
      BY <1>5, AfterGetFacts DEF RankTypes
    <2>6. /\ tables' = [tables EXCEPT ![r] = AfterGet(tables[r], c.id)]
          /\ UNCHANGED <<fileStatus, maxID, reserved>>
      BY <1>5 DEF Access
    <2>7. QED
      BY <1>1, <2>4, <2>5, <2>6 DEF RankTypes
  <1>6. QED
    BY <1>2, <1>3, <1>4, <1>5, BeginCases

LEMMA AppendTypes ==
    ASSUME ProgramTypes, RankTypes, NEW r \in Ranks, NEW i \in Iterations, AppendCall(r, i)
    PROVE  ProgramTypes' /\ RankTypes'
  <1>1. GetOps(r, i) \in Seq(Ops)
    BY GetOpsFacts
  <1>2. AfterGet(tables[r], i) \in Table /\ Tracks(AfterGet(tables[r], i))
    BY AfterGetFacts DEF RankTypes
  <1>3. /\ todo' = [todo EXCEPT ![r] = GetOps(r, i)]
        /\ tables' = [tables EXCEPT ![r] = AfterGet(tables[r], i)]
        /\ UNCHANGED <<fileStatus, maxID, reserved, program, disk>>
    BY DEF AppendCall
  <1>4. QED
    BY <1>1, <1>2, <1>3 DEF ProgramTypes, RankTypes

LEMMA MeetTypes ==
    ASSUME ProgramTypes, RankTypes, NEW op \in Ops, Meet(op) \/ MeetFails(op)
    PROVE  ProgramTypes' /\ RankTypes'
  <1>1. op.file \in Iterations /\ <<>> \in Seq(Ops)
    BY EmptySeq DEF Ops
  <1>2. CASE MeetFails(op)
    BY <1>1, <1>2 DEF MeetFails, ProgramTypes, RankTypes
  <1>3. CASE Meet(op)
    <2>1. ProgramTypes'
      BY <1>1, <1>3 DEF Meet, ProgramTypes
    <2>2. todo' \in [Ranks -> Seq(Ops)]
      <3>1. ASSUME NEW r \in Ranks PROVE Tail(todo[r]) \in Seq(Ops)
        <4>1. todo[r] \in Seq(Ops) /\ todo[r] # <<>>
          BY <1>3 DEF Meet, Meeting, RankTypes
        <4>2. QED
          BY <4>1, HeadTailProperties
      <3>2. QED
        BY <1>3, <3>1 DEF Meet
    <2>3. \A r \in Ranks : TableAfter(tables[r], op) \in Table
                           /\ Tracks(TableAfter(tables[r], op))
      BY TableAfterFacts, TracksFacts DEF RankTypes
    <2>4. tables' = [r \in Ranks |-> TableAfter(tables[r], op)]
      BY <1>3 DEF Meet
    <2>5. tables' \in [Ranks -> Table] /\ \A r \in Ranks : Tracks(tables'[r])
      BY <2>3, <2>4
    <2>6. maxID' \in [Ranks -> Iterations \union {-1}]
      <3>1. ASSUME NEW r \in Ranks PROVE MaxIDAfter(maxID[r], op) \in Iterations \union {-1}
        <4>1. maxID[r] \in Iterations \union {-1}
          BY DEF RankTypes
        <4>2. ListedMaxID(maxID[r]) \in Iterations \union {-1}
          BY <4>1, ListedFacts
        <4>3. QED
          BY <1>1, <4>1, <4>2 DEF MaxIDAfter
      <3>2. QED
        BY <1>3, <3>1 DEF Meet
    <2>7. reserved' \in [Ranks -> SUBSET Iterations]
      BY <1>1, <1>3 DEF Meet, RankTypes
    <2>8. fileStatus' = fileStatus
      BY <1>3 DEF Meet
    <2>9. QED
      BY <2>1, <2>2, <2>5, <2>6, <2>7, <2>8 DEF RankTypes
  <1>4. QED
    BY <1>2, <1>3


-----------------------------------------------------------------------------
(* Programs that append independently *)

\* What a call still has to do: nothing; the rest of a close, whose files have
\* left the table; or an access, perhaps after its file is opened.
TodoShape(r) ==
    \/ todo[r] = <<>>
    \/ DOMAIN tables[r].open = {} /\ \A j \in DOMAIN todo[r] : todo[r][j].do = "close"
    \/ \E i \in program.ids, kind \in AllKinds :
         \/ todo[r] = <<Op(kind, i)>> /\ i \in DOMAIN tables[r].open
         \/ \E do \in {"open", "create"} : todo[r] = <<Op(do, i), Op(kind, i)>>

\* No file is closed to make room, so the file of every dataset a process
\* reserved is open: append() makes no collective call.
AppendInv ==
    Appends => \A r \in Ranks :
        /\ DOMAIN tables[r].open \subseteq program.ids
        /\ reserved[r] \subseteq DOMAIN tables[r].open
        /\ TodoShape(r)

LEMMA RoomToAppend ==
    ASSUME EnoughHandles, ProgramTypes, AppendInv, Appends, NEW r \in Ranks,
           NEW i \in program.ids, i \notin DOMAIN tables[r].open
    PROVE  ~Full(tables[r])
  <1> DEFINE H == DOMAIN tables[r].open
             S == program.ids
  <1>1. /\ S \in SUBSET Iterations /\ program.limit \in Nat
        /\ Cardinality(S) <= program.limit
    BY ProgramFacts DEF ProgramTypes, EnoughHandles, Appends
  <1>2. IsFiniteSet(S) /\ H \subseteq S /\ H \union {i} \subseteq S
    BY <1>1, ParallelAssumption, FS_Subset DEF AppendInv
  <1>3. IsFiniteSet(H) /\ Cardinality(H \union {i}) <= Cardinality(S)
    BY <1>2, FS_Subset
  <1>4. Cardinality(H \union {i}) = Cardinality(H) + 1
    BY <1>3, FS_AddElement
  <1>5. Cardinality(H) \in Nat /\ Cardinality(S) \in Nat
    BY <1>2, <1>3, FS_CardinalityType
  <1>6. QED
    BY <1>1, <1>3, <1>4, <1>5 DEF Full

\* An independent program opens the file of an access, or has it open.
LEMMA AppendGetOps ==
    ASSUME EnoughHandles, ProgramTypes, AppendInv, Appends, NEW r \in Ranks,
           NEW i \in program.ids
    PROVE  GetOps(r, i) =
             IF i \in DOMAIN tables[r].open THEN <<>>
             ELSE <<Op(IF MustCreate(r, i) THEN "create" ELSE "open", i)>>
  <1>1. CASE i \in DOMAIN tables[r].open
    BY <1>1 DEF GetOps
  <1>2. CASE i \notin DOMAIN tables[r].open
    <2>1. ~Full(tables[r])
      BY <1>2, RoomToAppend
    <2> DEFINE b == <<Op(IF MustCreate(r, i) THEN "create" ELSE "open", i)>>
    <2>2. GetOps(r, i) = <<>> \o b
      BY <1>2, <2>1 DEF GetOps
    <2>3. b \in Seq({b[1]})
      OBVIOUS
    <2>4. <<>> \o b = b
      BY <2>3, ConcatEmptySeq
    <2>5. QED
      BY <1>2, <2>2, <2>4
  <1>3. QED
    BY <1>1, <1>2

\* The access itself, after what its handle needs.
LEMMA AccessShape ==
    ASSUME NEW a \in Ops, NEW b \in Ops
    PROVE  <<>> \o <<b>> = <<b>> /\ <<a>> \o <<b>> = <<a, b>>
  <1>1. <<a>> \in Seq(Ops) /\ <<b>> \in Seq(Ops)
    OBVIOUS
  <1>2. <<>> \o <<b>> = <<b>>
    BY <1>1, ConcatEmptySeq
  <1>3. <<a>> \o <<b>> = <<a, b>>
    <2> DEFINE s == <<a>> \o <<b>>
    <2>1. Len(<<a>>) = 1 /\ Len(<<b>>) = 1
      OBVIOUS
    <2>2. s \in Seq(Ops) /\ Len(s) = 2 /\ s[1] = a /\ s[2] = b
      BY <1>1, <2>1, ConcatProperties
    <2> HIDE DEF s
    <2>3. <<a, b>> \in Seq(Ops) /\ Len(<<a, b>>) = 2
      OBVIOUS
    <2>4. \A i \in 1..2 : s[i] = <<a, b>>[i]
      <3>1. \A i \in 1..2 : i = 1 \/ i = 2
        OBVIOUS
      <3>2. QED
        BY <2>2, <3>1
    <2>5. s = <<a, b>>
      BY <2>2, <2>3, <2>4, SeqEqual
    <2>6. QED
      BY <2>5 DEF s
  <1>4. QED
    BY <1>2, <1>3

LEMMA BeginAppendInv ==
    ASSUME EnoughHandles, ProgramTypes, RankTypes, AppendInv, NEW r \in Ranks,
           NEW c \in Calls, Begin(r, c), Used(c)
    PROVE  AppendInv'
  <1>1. UNCHANGED <<program, disk>> /\ todo[r] = <<>>
    BY BeginCases
  <1>2. SUFFICES ASSUME Appends, NEW q \in Ranks
                 PROVE  /\ DOMAIN tables'[q].open \subseteq program.ids
                        /\ reserved'[q] \subseteq DOMAIN tables'[q].open
                        /\ TodoShape(q)'
    BY <1>1 DEF AppendInv, Appends
  <1>3. /\ DOMAIN tables[q].open \subseteq program.ids
        /\ reserved[q] \subseteq DOMAIN tables[q].open
        /\ TodoShape(q)
    BY <1>2 DEF AppendInv
  <1>4. CASE c.kind = "open" /\ OpenCall(r, c.mode)
    BY <1>1, <1>3, <1>4 DEF OpenCall, TodoShape
  <1>5. CASE c.kind = "getMaxID" /\ GetMaxIDCall(r)
    BY <1>1, <1>3, <1>5 DEF GetMaxIDCall, TodoShape
  <1>6. CASE c.kind = "close" /\ CloseCall(r)
    <2> DEFINE S == DOMAIN tables[r].open
               w == [j \in 1..Cardinality(S) |-> Op("close", Sorted(S)[j])]
    <2>1. todo' = [todo EXCEPT ![r] = w]
      BY <1>6, CloseFacts
    <2>2. \A j \in DOMAIN w : w[j].do = "close"
      BY OpFacts
    <2> HIDE DEF w, S
    <2>3. /\ tables' = [tables EXCEPT ![r] = EmptyTable]
          /\ reserved' = [reserved EXCEPT ![r] = {}]
      BY <1>6 DEF CloseCall
    <2>4. CASE q = r
      <3>1. todo'[q] = w /\ tables'[q] = EmptyTable /\ reserved'[q] = {}
        BY <2>1, <2>3, <2>4 DEF RankTypes
      <3>2. QED
        BY <2>2, <3>1, EmptyTableFacts DEF TodoShape
    <2>5. CASE q # r
      <3>1. todo'[q] = todo[q] /\ tables'[q] = tables[q] /\ reserved'[q] = reserved[q]
        BY <2>1, <2>3, <2>5 DEF RankTypes
      <3>2. QED
        BY <1>1, <1>3, <3>1 DEF TodoShape
    <2>6. QED
      BY <2>4, <2>5
  <1>7. CASE c.kind \in AllKinds /\ c.id \in Iterations /\ Access(r, c.kind, c.id)
    <2>1. c.id \in program.ids
      BY <1>7 DEF Used, AllKinds
    <2>2. /\ todo' = [todo EXCEPT ![r] = GetOps(r, c.id) \o <<Op(c.kind, c.id)>>]
          /\ tables' = [tables EXCEPT ![r] = AfterGet(tables[r], c.id)]
          /\ reserved' = reserved
      BY <1>7 DEF Access
    <2>3. DOMAIN AfterGet(tables[r], c.id).open = DOMAIN tables[r].open
      BY <1>7, AfterGetFacts DEF RankTypes
    <2>4. DOMAIN tables'[q].open = DOMAIN tables[q].open
      BY <2>2, <2>3 DEF RankTypes
    <2>5. CASE q # r
      BY <1>1, <1>3, <2>2, <2>4, <2>5 DEF TodoShape, RankTypes
    <2>6. CASE q = r
      <3>1. Op(c.kind, c.id) \in Ops /\ \A do \in {"open", "create"} : Op(do, c.id) \in Ops
        BY <1>7, OpFacts DEF OpKinds
      <3>2. todo'[q] = GetOps(r, c.id) \o <<Op(c.kind, c.id)>>
        BY <2>2, <2>6 DEF RankTypes
      <3>3. CASE c.id \in DOMAIN tables[r].open
        <4>1. todo'[q] = <<Op(c.kind, c.id)>>
          BY <1>2, <2>1, <3>1, <3>2, <3>3, AppendGetOps, AccessShape
        <4>2. QED
          BY <1>1, <1>3, <1>7, <2>1, <2>2, <2>4, <2>6, <3>3, <4>1 DEF TodoShape
      <3>4. CASE c.id \notin DOMAIN tables[r].open
        <4>1. PICK do \in {"open", "create"} : GetOps(r, c.id) = <<Op(do, c.id)>>
          BY <1>2, <2>1, <3>4, AppendGetOps
        <4>2. todo'[q] = <<Op(do, c.id), Op(c.kind, c.id)>>
          BY <3>1, <3>2, <4>1, AccessShape
        <4>3. QED
          BY <1>1, <1>3, <1>7, <2>1, <2>2, <2>4, <4>2 DEF TodoShape
      <3>5. QED
        BY <3>3, <3>4
    <2>7. QED
      BY <2>5, <2>6
  <1>8. QED
    BY <1>4, <1>5, <1>6, <1>7, BeginCases


LEMMA AppendAppendInv ==
    ASSUME EnoughHandles, ProgramTypes, RankTypes, AppendInv, NEW r \in Ranks,
           NEW i \in Iterations, AppendCall(r, i)
    PROVE  AppendInv' /\ \A q \in Ranks : Books(q)' = Books(q)
  <1>1. /\ Appends /\ todo[r] = <<>> /\ i \in reserved[r]
        /\ todo' = [todo EXCEPT ![r] = GetOps(r, i)]
        /\ tables' = [tables EXCEPT ![r] = AfterGet(tables[r], i)]
        /\ UNCHANGED <<fileStatus, maxID, reserved, program, disk>>
    BY DEF AppendCall, Appends
  <1>2. i \in DOMAIN tables[r].open
    BY <1>1 DEF AppendInv
  <1>3. GetOps(r, i) = <<>>
    BY <1>2 DEF GetOps
  <1>4. todo' = todo
    BY <1>1, <1>3 DEF RankTypes
  <1>5. \A q \in Ranks : /\ DOMAIN tables'[q].open = DOMAIN tables[q].open
                         /\ tables'[q].created = tables[q].created
    BY <1>1, AfterGetFacts DEF RankTypes
  <1>6. AppendInv'
    <2>1. SUFFICES ASSUME NEW q \in Ranks
                   PROVE  /\ DOMAIN tables'[q].open \subseteq program.ids
                          /\ reserved'[q] \subseteq DOMAIN tables'[q].open
                          /\ TodoShape(q)'
      BY <1>1 DEF AppendInv, Appends
    <2>2. /\ DOMAIN tables[q].open \subseteq program.ids
          /\ reserved[q] \subseteq DOMAIN tables[q].open
          /\ TodoShape(q)
      BY <1>1 DEF AppendInv
    <2>3. QED
      BY <1>1, <1>4, <1>5, <2>2 DEF TodoShape
  <1>7. QED
    BY <1>1, <1>4, <1>5, <1>6 DEF Books, Appends

LEMMA MeetAppendInv ==
    ASSUME ProgramTypes, RankTypes, AppendInv, NEW op \in Ops, Meet(op)
    PROVE  AppendInv'
  <1>1. SUFFICES ASSUME Appends, NEW r \in Ranks
                 PROVE  /\ DOMAIN tables'[r].open \subseteq program.ids
                        /\ reserved'[r] \subseteq DOMAIN tables'[r].open
                        /\ TodoShape(r)'
    BY DEF AppendInv, Meet, Appends
  <1>2. /\ DOMAIN tables[r].open \subseteq program.ids
        /\ reserved[r] \subseteq DOMAIN tables[r].open
        /\ TodoShape(r)
    BY <1>1 DEF AppendInv
  <1>3. /\ todo[r] # <<>> /\ Head(todo[r]) = op /\ todo[r] \in Seq(Ops)
        /\ todo'[r] = Tail(todo[r]) /\ program' = program
        /\ tables'[r] = TableAfter(tables[r], op)
        /\ reserved'[r] = IF op.do = "reserve" THEN reserved[r] \union {op.file}
                          ELSE reserved[r]
    BY DEF Meet, Meeting, RankTypes
  <1>4. DOMAIN tables'[r].open =
          CASE op.do = "close" -> DOMAIN tables[r].open \ {op.file}
            [] op.do \in {"open", "create"} -> DOMAIN tables[r].open \union {op.file}
            [] OTHER -> DOMAIN tables[r].open
    <2> DEFINE t == tables[r]
    <2>1. t \in Table
      BY DEF RankTypes
    <2> HIDE DEF t
    <2>2. DOMAIN TableAfter(t, op).open =
            CASE op.do = "close" -> DOMAIN t.open \ {op.file}
              [] op.do \in {"open", "create"} -> DOMAIN t.open \union {op.file}
              [] OTHER -> DOMAIN t.open
      BY ONLY <2>1, op \in Ops, TableAfterFacts
    <2>3. QED
      BY ONLY <1>3, <2>2 DEF t
  <1>5. CASE DOMAIN tables[r].open = {} /\ \A j \in DOMAIN todo[r] : todo[r][j].do = "close"
    <2>1. /\ Len(todo[r]) \in Nat \ {0} /\ DOMAIN todo[r] = 1..Len(todo[r])
          /\ Head(todo[r]) = todo[r][1]
      BY <1>3, EmptySeq, LenProperties
    <2>2. op.do = "close"
      BY <1>3, <1>5, <2>1
    <2>3. DOMAIN tables'[r].open = {} /\ reserved'[r] = {}
      BY <1>2, <1>3, <1>4, <1>5, <2>2
    <2>4. /\ Tail(todo[r]) \in Seq(Ops) /\ Len(Tail(todo[r])) = Len(todo[r]) - 1
          /\ \A j \in 1..Len(Tail(todo[r])) : Tail(todo[r])[j] = todo[r][j + 1]
      BY <1>3, HeadTailProperties
    <2>5. DOMAIN Tail(todo[r]) = 1..Len(Tail(todo[r]))
      BY <2>4, LenProperties
    <2>6. \A j \in DOMAIN todo'[r] : todo'[r][j].do = "close"
      <3>1. SUFFICES ASSUME NEW j \in DOMAIN Tail(todo[r])
                     PROVE  Tail(todo[r])[j].do = "close"
        BY <1>3
      <3>2. j + 1 \in DOMAIN todo[r]
        BY <2>1, <2>4, <2>5
      <3>3. Tail(todo[r])[j] = todo[r][j + 1]
        BY <2>4, <2>5
      <3>4. QED
        BY <1>5, <3>2, <3>3
    <2>7. QED
      BY <2>3, <2>6 DEF TodoShape
  <1>6. ASSUME NEW i \in program.ids, NEW kind \in AllKinds,
               todo[r] = <<Op(kind, i)>>, i \in DOMAIN tables[r].open
        PROVE  /\ DOMAIN tables'[r].open \subseteq program.ids
               /\ reserved'[r] \subseteq DOMAIN tables'[r].open
               /\ TodoShape(r)'
    <2>1. op = Op(kind, i) /\ todo'[r] = <<>>
      BY <1>3, <1>6
    <2>2. op.do \in AllKinds /\ op.file = i
      BY <2>1, OpFacts
    <2>3. DOMAIN tables'[r].open = DOMAIN tables[r].open
      BY <1>4, <2>2 DEF AllKinds
    <2>4. QED
      BY <1>2, <1>3, <1>6, <2>1, <2>2, <2>3 DEF TodoShape
  <1>7. ASSUME NEW i \in program.ids, NEW kind \in AllKinds, NEW do \in {"open", "create"},
               todo[r] = <<Op(do, i), Op(kind, i)>>
        PROVE  /\ DOMAIN tables'[r].open \subseteq program.ids
               /\ reserved'[r] \subseteq DOMAIN tables'[r].open
               /\ TodoShape(r)'
    <2>1. op = Op(do, i) /\ todo'[r] = <<Op(kind, i)>>
      BY <1>3, <1>7
    <2>2. op.do = do /\ op.file = i
      BY <2>1, OpFacts
    <2>3. DOMAIN tables'[r].open = DOMAIN tables[r].open \union {i}
      BY <1>4, <2>2
    <2>4. reserved'[r] = reserved[r]
      BY <1>3, <2>2
    <2>5. TodoShape(r)'
      BY <1>3, <2>1, <2>3 DEF TodoShape
    <2>6. QED
      BY <1>2, <2>3, <2>4, <2>5
  <1>8. QED
    BY <1>2, <1>3, <1>5, <1>6, <1>7 DEF TodoShape

LEMMA MeetFailsAppendInv ==
    ASSUME RankTypes, AppendInv, NEW op \in Ops, MeetFails(op)
    PROVE  AppendInv'
  BY DEF AppendInv, Appends, MeetFails, TodoShape, RankTypes

-----------------------------------------------------------------------------
(* What a step does to the books *)

\* A process that begins a call does to its books what the call and the books
\* determine, and nothing to those of others.
LEMMA BeginBooks ==
    ASSUME EnoughHandles, ProgramTypes, RankTypes, AppendInv, NEW r \in Ranks,
           NEW c \in Calls, Begin(r, c), Used(c)
    PROVE  /\ Books(r)' = After(program, disk, c, Books(r))
           /\ \A q \in Ranks \ {r} : Books(q)' = Books(q)
  <1> DEFINE v == Books(r)
  <1>1. program' = program /\ disk' = disk /\ todo[r] = <<>>
    BY BeginCases
  <1>2. Appends' = Appends
    BY <1>1 DEF Appends
  <1>3. /\ v.status = fileStatus[r] /\ v.files = DOMAIN tables[r].open
        /\ v.created = tables[r].created /\ v.max = maxID[r] /\ v.reserved = reserved[r]
        /\ v.todo = todo[r] /\ v.table = IF Appends THEN EmptyTable ELSE tables[r]
    BY DEF Books, Book
  <1>4. Books(r)' = Book(fileStatus'[r], DOMAIN tables'[r].open, tables'[r].created,
                         maxID'[r], reserved'[r], todo'[r],
                         IF Appends THEN EmptyTable ELSE tables'[r])
    BY <1>2 DEF Books
  <1>5. ASSUME NEW q \in Ranks \ {r},
               fileStatus'[q] = fileStatus[q], tables'[q] = tables[q], maxID'[q] = maxID[q],
               reserved'[q] = reserved[q], todo'[q] = todo[q]
        PROVE  Books(q)' = Books(q)
    BY <1>2, <1>5 DEF Books
  <1> HIDE DEF v
  <1>11. \A old : Listed(disk, old) = ListedMaxID(old)
    BY DEF Listed, ListedMaxID
  <1>6. CASE c.kind = "open" /\ OpenCall(r, c.mode) /\ c.mode \in Modes
    <2>1. /\ fileStatus' = [fileStatus EXCEPT ![r] = c.mode]
          /\ UNCHANGED <<tables, reserved, todo>>
          /\ maxID' = [maxID EXCEPT ![r] =
                         IF c.mode = "TRUNC" THEN -1 ELSE ListedMaxID(maxID[r])]
      BY <1>6 DEF OpenCall, OpenCreate, OpenRead, OpenWrite, Modes
    <2>2. After(program, disk, c, v) =
            Book(c.mode, v.files, v.created,
                 IF c.mode = "TRUNC" THEN -1 ELSE Listed(disk, v.max),
                 v.reserved, <<>>, v.table)
      BY <1>6 DEF After
    <2>3. /\ fileStatus'[r] = c.mode
          /\ maxID'[r] = IF c.mode = "TRUNC" THEN -1 ELSE ListedMaxID(maxID[r])
      BY <2>1 DEF RankTypes
    <2>4. Books(r)' = After(program, disk, c, v)
      BY <1>1, <1>3, <1>4, <1>11, <2>1, <2>2, <2>3
    <2>5. QED
      BY <1>5, <2>1, <2>4 DEF v, RankTypes
  <1>7. CASE c.kind = "close" /\ CloseCall(r)
    <2> DEFINE S == DOMAIN tables[r].open
               w == [j \in 1..Cardinality(S) |-> Op("close", Sorted(S)[j])]
    <2>1. /\ tables' = [tables EXCEPT ![r] = EmptyTable]
          /\ fileStatus' = [fileStatus EXCEPT ![r] = "CLOSED"]
          /\ maxID' = [maxID EXCEPT ![r] = -1]
          /\ reserved' = [reserved EXCEPT ![r] = {}]
      BY <1>7 DEF CloseCall
    <2>2. todo' = [todo EXCEPT ![r] = w]
      BY <1>7, CloseFacts
    <2>3. After(program, disk, c, v) =
            Book("CLOSED", {}, {}, -1, {},
                 [j \in 1..Cardinality(v.files) |-> Op("close", Sorted(v.files)[j])],
                 EmptyTable)
      BY <1>7 DEF After
    <2>4. After(program, disk, c, v) = Book("CLOSED", {}, {}, -1, {}, w, EmptyTable)
      BY <1>3, <2>3
    <2> HIDE DEF w
    <2>5. /\ fileStatus'[r] = "CLOSED" /\ tables'[r] = EmptyTable /\ maxID'[r] = -1
          /\ reserved'[r] = {} /\ todo'[r] = w
      BY <2>1, <2>2 DEF RankTypes
    <2>6. DOMAIN EmptyTable.open = {} /\ EmptyTable.created = {}
      BY EmptyTableFacts DEF EmptyTable
    <2>7. Books(r)' = After(program, disk, c, v)
      BY <1>4, <2>4, <2>5, <2>6
    <2>8. QED
      BY <1>5, <2>1, <2>2, <2>7 DEF v, RankTypes
  <1>8. CASE c.kind = "getMaxID" /\ GetMaxIDCall(r)
    <2>1. /\ maxID' = [maxID EXCEPT ![r] = ListedMaxID(maxID[r])]
          /\ UNCHANGED <<fileStatus, tables, reserved, todo>>
      BY <1>8 DEF GetMaxIDCall
    <2>2. After(program, disk, c, v) = Book(v.status, v.files, v.created, Listed(disk, v.max), v.reserved,
                             <<>>, v.table)
      BY <1>8 DEF After
    <2>3. maxID'[r] = ListedMaxID(maxID[r])
      BY <2>1 DEF RankTypes
    <2>4. Books(r)' = After(program, disk, c, v)
      BY <1>1, <1>3, <1>4, <1>11, <2>1, <2>2, <2>3
    <2>5. QED
      BY <1>5, <2>1, <2>4 DEF v, RankTypes
  <1>9. CASE c.kind \in AllKinds /\ c.id \in Iterations /\ Access(r, c.kind, c.id)
    <2> DEFINE w == GetOps(r, c.id) \o <<Op(c.kind, c.id)>>
               t == AfterGet(tables[r], c.id)
    <2>1. /\ todo' = [todo EXCEPT ![r] = w]
          /\ tables' = [tables EXCEPT ![r] = t]
          /\ UNCHANGED <<fileStatus, maxID, reserved>>
      BY <1>9 DEF Access
    <2>2. After(program, disk, c, v) =
            Book(v.status, v.files, v.created, v.max, v.reserved,
                 AccessOps(program, v, c.id) \o <<Op(c.kind, c.id)>>,
                 IF Appends THEN v.table ELSE AfterGet(v.table, c.id))
      BY <1>9 DEF After, AllKinds, Appends
    <2>3. DOMAIN t.open = DOMAIN tables[r].open /\ t.created = tables[r].created
      BY <1>9, AfterGetFacts DEF RankTypes
    <2>4. AccessOps(program, v, c.id) = GetOps(r, c.id)
      <3>1. CASE ~Appends
        BY <1>3, <3>1 DEF AccessOps, GetOps, MustCreate, Full, Appends
      <3>2. CASE Appends
        <4>1. c.id \in program.ids
          BY <1>9 DEF Used, AllKinds
        <4>2. CASE c.id \in DOMAIN tables[r].open
          BY <1>3, <4>2 DEF AccessOps, GetOps
        <4>3. CASE c.id \notin DOMAIN tables[r].open
          <5>1. ~Full(tables[r])
            BY <3>2, <4>1, <4>3, RoomToAppend
          <5>2. QED
            BY <1>3, <3>2, <4>3, <5>1 DEF AccessOps, GetOps, MustCreate, Appends
        <4>4. QED
          BY <4>2, <4>3
      <3>3. QED
        BY <3>1, <3>2
    <2>5. (IF Appends THEN v.table ELSE AfterGet(v.table, c.id)) =
             IF Appends THEN EmptyTable ELSE t
      BY <1>3
    <2>6. After(program, disk, c, v) =
            Book(v.status, v.files, v.created, v.max, v.reserved, w,
                 IF Appends THEN EmptyTable ELSE t)
      BY <2>2, <2>4, <2>5
    <2> HIDE DEF w, t
    <2>7. todo'[r] = w /\ tables'[r] = t
      BY <2>1 DEF RankTypes
    <2>8. Books(r)' = After(program, disk, c, v)
      BY <1>3, <1>4, <2>1, <2>3, <2>6, <2>7
    <2>9. QED
      BY <1>5, <2>1, <2>8 DEF v, RankTypes
  <1>10. QED
    BY <1>6, <1>7, <1>8, <1>9, BeginCases


\* Tables with the same files hold the same files after a collective call.
LEMMA SameTableAfter ==
    ASSUME NEW t \in Table, NEW u \in Table, DOMAIN t.open = DOMAIN u.open,
           t.created = u.created, NEW op \in Ops
    PROVE  /\ DOMAIN TableAfter(t, op).open = DOMAIN TableAfter(u, op).open
           /\ TableAfter(t, op).created = TableAfter(u, op).created
  <1> DEFINE Files(x) == DOMAIN TableAfter(x, op).open =
                           CASE op.do = "close" -> DOMAIN x.open \ {op.file}
                             [] op.do \in {"open", "create"} -> DOMAIN x.open \union {op.file}
                             [] OTHER -> DOMAIN x.open
             Creates(x) == TableAfter(x, op).created =
                             IF op.do = "create" THEN x.created \union {op.file}
                             ELSE x.created
  <1>1. Files(t) /\ Creates(t)
    BY TableAfterFacts
  <1>2. Files(u) /\ Creates(u)
    BY TableAfterFacts
  <1>3. QED
    BY <1>1, <1>2

\* A collective call does the same to the books of all, and so does a failure.
LEMMA MeetBooks ==
    ASSUME ProgramTypes, RankTypes, NEW op \in Ops, Meet(op) \/ MeetFails(op),
           NEW r \in Ranks, NEW q \in Ranks, Books(r) = Books(q)
    PROVE  Books(r)' = Books(q)'
  <1>1. /\ fileStatus[r] = fileStatus[q] /\ DOMAIN tables[r].open = DOMAIN tables[q].open
        /\ tables[r].created = tables[q].created /\ maxID[r] = maxID[q]
        /\ reserved[r] = reserved[q] /\ todo[r] = todo[q]
        /\ ~Appends => tables[r] = tables[q]
    BY DEF Books, Book
  <1>2. CASE MeetFails(op)
    <2>1. /\ todo'[r] = <<>> /\ todo'[q] = <<>> /\ program' = program
          /\ UNCHANGED <<fileStatus, tables, maxID, reserved>>
      BY <1>2 DEF MeetFails
    <2>2. QED
      BY <1>1, <2>1 DEF Books, Appends
  <1>3. CASE Meet(op)
    <2>1. /\ todo'[r] = Tail(todo[r]) /\ todo'[q] = Tail(todo[q])
          /\ tables'[r] = TableAfter(tables[r], op)
          /\ tables'[q] = TableAfter(tables[q], op)
          /\ maxID'[r] = MaxIDAfter(maxID[r], op) /\ maxID'[q] = MaxIDAfter(maxID[q], op)
          /\ fileStatus' = fileStatus /\ program' = program
      BY <1>3 DEF Meet
    <2>2. reserved'[r] = reserved'[q]
      BY <1>1, <1>3 DEF Meet
    <2>3. /\ DOMAIN TableAfter(tables[r], op).open = DOMAIN TableAfter(tables[q], op).open
          /\ TableAfter(tables[r], op).created = TableAfter(tables[q], op).created
      <3>1. tables[r] \in Table /\ tables[q] \in Table
        BY DEF RankTypes
      <3>2. ASSUME NEW t \in Table, NEW u \in Table, DOMAIN t.open = DOMAIN u.open,
                   t.created = u.created
            PROVE  /\ DOMAIN TableAfter(t, op).open = DOMAIN TableAfter(u, op).open
                   /\ TableAfter(t, op).created = TableAfter(u, op).created
        BY <3>2, SameTableAfter
      <3>3. QED
        BY <1>1, <3>1, <3>2
    <2>4. ~Appends => tables'[r] = tables'[q]
      BY <1>1, <2>1
    <2>5. /\ DOMAIN tables'[r].open = DOMAIN tables'[q].open
          /\ tables'[r].created = tables'[q].created
      BY <2>1, <2>3
    <2>6. /\ fileStatus'[r] = fileStatus'[q] /\ maxID'[r] = maxID'[q]
          /\ todo'[r] = todo'[q]
      BY <1>1, <2>1
    <2>7. Appends' = Appends
      BY <2>1 DEF Appends
    <2>8. QED
      BY <2>2, <2>4, <2>5, <2>6, <2>7 DEF Books
  <1>4. QED
    BY <1>2, <1>3

-----------------------------------------------------------------------------
(* Agreement *)

\* h[k] are the books of a process that has begun k of the calls and done all of
\* the earlier ones.
Linked(p, d, calls, h) ==
    \A k \in 1..Len(calls) : h[k - 1].todo = <<>> /\ h[k] = After(p, d, calls[k], h[k - 1])

\* There is one sequence of books, one for every call, that all processes pass
\* through; what all of them have passed is forgotten.
Agreement ==
    /\ \E r \in Ranks : begun[r] = 0
    /\ \E h : /\ Linked(program, disk, script, h)
              /\ \A r \in Ranks : begun[r] \in 0..Len(script) /\ Books(r) = h[begun[r]]

\* Most of it is lost when every process has begun the oldest call.
LEMMA AdvanceKeeps ==
    ASSUME NEW calls \in Seq(Calls), NEW counts \in [Ranks -> Nat], NEW h,
           Advance(calls, counts), UNCHANGED <<program, disk>>,
           Len(calls) <= MaxAhead,
           \A k \in 1..Len(calls) : Used(calls[k]),
           Linked(program, disk, calls, h),
           \A r \in Ranks : counts[r] <= Len(calls) /\ Books(r)' = h[counts[r]],
           \E r \in Ranks : counts[r] <= 1
    PROVE  ScriptTypes' /\ Agreement'
  <1>1. Len(calls) \in Nat
    BY LenProperties
  <1>2. program' = program /\ disk' = disk
    OBVIOUS
  <1>3. \A r \in Ranks : Books(r)' = h[counts[r]]
    OBVIOUS
  <1>4. CASE \A r \in Ranks : counts[r] > 0
    <2> DEFINE g == [k \in 0..(Len(calls) - 1) |-> h[k + 1]]
    <2>1. script' = Tail(calls) /\ begun' = [r \in Ranks |-> counts[r] - 1]
      BY <1>4 DEF Advance
    <2>2. PICK q \in Ranks : counts[q] = 1
      BY <1>4
    <2>3. Len(calls) >= 1 /\ calls # <<>>
      BY <1>1, <2>2, EmptySeq
    <2>4. /\ script' \in Seq(Calls) /\ Len(script') = Len(calls) - 1
          /\ \A k \in 1..Len(script') : script'[k] = calls[k + 1]
      BY <2>1, <2>3, HeadTailProperties
    <2>5. \A k \in 1..Len(script') : k + 1 \in 1..Len(calls)
      BY <1>1, <2>4
    <2>6. \A r \in Ranks : counts[r] \in 1..Len(calls) /\ begun'[r] = counts[r] - 1
      BY <1>1, <1>4, <2>1
    <2>7. ScriptTypes'
      <3>1. begun' \in [Ranks -> Nat]
        BY <1>4, <2>1
      <3>2. Len(script') <= MaxAhead
        BY <1>1, <2>4, ParallelAssumption
      <3>3. \A k \in 1..Len(script') : Used(script[k])'
        BY <1>2, <2>4, <2>5 DEF Used
      <3>4. QED
        BY <2>4, <3>1, <3>2, <3>3 DEF ScriptTypes
    <2>8. Linked(program', disk', script', g)
      <3>1. SUFFICES ASSUME NEW k \in 1..Len(script')
                     PROVE  /\ g[k - 1].todo = <<>>
                            /\ g[k] = After(program, disk, script'[k], g[k - 1])
        BY <1>2 DEF Linked
      <3>2. k \in 0..(Len(calls) - 1) /\ k - 1 \in 0..(Len(calls) - 1)
            /\ k + 1 \in 1..Len(calls) /\ (k - 1) + 1 = k /\ (k + 1) - 1 = k
        BY <1>1, <2>4
      <3>3. g[k] = h[k + 1] /\ g[k - 1] = h[k]
        BY <3>2
      <3>4. h[k].todo = <<>> /\ h[k + 1] = After(program, disk, calls[k + 1], h[k])
        BY <3>2 DEF Linked
      <3>5. QED
        BY <2>4, <3>3, <3>4
    <2>9. ASSUME NEW r \in Ranks
          PROVE  begun'[r] \in 0..Len(script') /\ Books(r)' = g[begun'[r]]
      <3>1. begun'[r] \in 0..(Len(calls) - 1) /\ begun'[r] + 1 = counts[r]
        BY <1>1, <2>6
      <3>2. g[begun'[r]] = h[counts[r]]
        BY <3>1
      <3>3. QED
        BY <1>3, <2>4, <3>1, <3>2
    <2>10. begun'[q] = 0
      BY <2>1, <2>2
    <2> HIDE DEF g
    <2>11. QED
      BY <2>7, <2>8, <2>9, <2>10 DEF Agreement
  <1>5. CASE ~(\A r \in Ranks : counts[r] > 0)
    <2>1. script' = calls /\ begun' = counts
      BY <1>5 DEF Advance
    <2>2. ScriptTypes'
      <3>1. \A k \in 1..Len(script') : Used(script[k])'
        BY <1>2, <2>1 DEF Used
      <3>2. QED
        BY <2>1, <3>1 DEF ScriptTypes
    <2>3. Linked(program', disk', script', h)
      BY <1>2, <2>1
    <2>4. \E r \in Ranks : begun'[r] = 0
      BY <1>5, <2>1
    <2>5. \A r \in Ranks : begun'[r] \in 0..Len(script') /\ Books(r)' = h[begun'[r]]
      BY <1>1, <1>3, <2>1
    <2>6. QED
      BY <2>2, <2>3, <2>4, <2>5 DEF Agreement
  <1>6. QED
    BY <1>4, <1>5

IndInv ==
    ProgramTypes /\ RankTypes /\ ScriptTypes /\ AppendInv /\ Agreement

LEMMA FollowKeeps ==
    ASSUME EnoughHandles, IndInv, NEW r \in Ranks, Follow(r)
    PROVE  IndInv'
  <1> DEFINE c == script[begun[r] + 1]
             counts == [begun EXCEPT ![r] = @ + 1]
  <1>1. ProgramTypes /\ RankTypes /\ ScriptTypes /\ AppendInv /\ Agreement
    BY DEF IndInv
  <1>2. begun[r] < Len(script) /\ Begin(r, c) /\ Advance(script, counts)
    BY DEF Follow
  <1>3. PICK h : /\ Linked(program, disk, script, h)
                 /\ \A q \in Ranks : begun[q] \in 0..Len(script) /\ Books(q) = h[begun[q]]
    BY <1>1 DEF Agreement
  <1>4. begun \in [Ranks -> Nat] /\ Len(script) \in Nat /\ begun[r] \in Nat
    BY <1>1, LenProperties DEF ScriptTypes
  <1>5. begun[r] + 1 \in 1..Len(script) /\ (begun[r] + 1) - 1 = begun[r]
    BY <1>2, <1>4
  <1>6. c \in Calls /\ Used(c)
    BY <1>1, <1>5, ElementOfSeq DEF ScriptTypes
  <1>7. Books(r)' = After(program, disk, c, Books(r)) /\ \A q \in Ranks \ {r} : Books(q)' = Books(q)
    BY <1>1, <1>2, <1>6, BeginBooks
  <1>8. UNCHANGED <<program, disk>>
    BY <1>2, <1>6, BeginCases
  <1>9. ProgramTypes' /\ RankTypes' /\ AppendInv'
    BY <1>1, <1>2, <1>6, BeginTypes, BeginAppendInv
  <1>10. h[begun[r] + 1] = After(program, disk, c, h[begun[r]])
    BY <1>3, <1>5 DEF Linked
  <1>11. /\ counts \in [Ranks -> Nat] /\ counts[r] = begun[r] + 1
         /\ \A q \in Ranks \ {r} : counts[q] = begun[q]
    BY <1>4
  <1> HIDE DEF c, counts
  <1>12. \A q \in Ranks : counts[q] <= Len(script) /\ Books(q)' = h[counts[q]]
    <2>1. SUFFICES ASSUME NEW q \in Ranks
                   PROVE  counts[q] <= Len(script) /\ Books(q)' = h[counts[q]]
      OBVIOUS
    <2>2. CASE q = r
      BY <1>3, <1>4, <1>5, <1>7, <1>10, <1>11, <2>2
    <2>3. CASE q # r
      BY <1>3, <1>4, <1>7, <1>11, <2>3
    <2>4. QED
      BY <2>2, <2>3
  <1>13. \E q \in Ranks : counts[q] <= 1
    <2>1. PICK q \in Ranks : begun[q] = 0
      BY <1>1 DEF Agreement
    <2>2. counts[q] <= 1
      BY <1>11, <2>1
    <2>3. QED
      BY <2>2
  <1>14. script \in Seq(Calls) /\ Len(script) <= MaxAhead
         /\ \A k \in 1..Len(script) : Used(script[k])
    BY <1>1 DEF ScriptTypes
  <1>15. ScriptTypes' /\ Agreement'
    BY <1>2, <1>3, <1>8, <1>11, <1>12, <1>13, <1>14, AdvanceKeeps
  <1>16. QED
    BY <1>9, <1>15 DEF IndInv

LEMMA LeadKeeps ==
    ASSUME EnoughHandles, IndInv, NEW r \in Ranks, NEW c \in Calls, Lead(r, c)
    PROVE  IndInv'
  <1> DEFINE calls == Append(script, c)
             counts == [begun EXCEPT ![r] = @ + 1]
             n == Len(script)
  <1>1. ProgramTypes /\ RankTypes /\ ScriptTypes /\ AppendInv /\ Agreement
    BY DEF IndInv
  <1>2. Used(c) /\ begun[r] = n /\ n < MaxAhead /\ Begin(r, c) /\ Advance(calls, counts)
    BY DEF Lead
  <1>3. PICK h : /\ Linked(program, disk, script, h)
                 /\ \A q \in Ranks : begun[q] \in 0..n /\ Books(q) = h[begun[q]]
    BY <1>1 DEF Agreement
  <1>4. begun \in [Ranks -> Nat] /\ n \in Nat /\ script \in Seq(Calls)
    BY <1>1, LenProperties DEF ScriptTypes
  <1>5. /\ calls \in Seq(Calls) /\ Len(calls) = n + 1
        /\ \A k \in 1..n : calls[k] = script[k]
        /\ calls[n + 1] = c
    BY <1>4, AppendProperties
  <1>6. Books(r)' = After(program, disk, c, Books(r)) /\ \A q \in Ranks \ {r} : Books(q)' = Books(q)
    BY <1>1, <1>2, BeginBooks
  <1>7. UNCHANGED <<program, disk>> /\ Books(r).todo = <<>>
    BY <1>2, BeginCases DEF Books, Book
  <1>8. ProgramTypes' /\ RankTypes' /\ AppendInv'
    BY <1>1, <1>2, BeginTypes, BeginAppendInv
  <1>9. /\ counts \in [Ranks -> Nat] /\ counts[r] = n + 1
        /\ \A q \in Ranks \ {r} : counts[q] = begun[q]
    BY <1>2, <1>4
  <1> DEFINE g == [k \in 0..(n + 1) |-> IF k <= n THEN h[k] ELSE After(program, disk, c, h[n])]
  <1>10. g[n + 1] = After(program, disk, c, h[n]) /\ \A k \in 0..n : g[k] = h[k]
    BY <1>4
  <1>11. h[n] = Books(r)
    BY <1>2, <1>3
  <1> HIDE DEF calls, counts, g, n
  <1>12. Linked(program, disk, calls, g)
    <2>1. SUFFICES ASSUME NEW k \in 1..(n + 1)
                   PROVE  g[k - 1].todo = <<>> /\ g[k] = After(program, disk, calls[k], g[k - 1])
      BY <1>5 DEF Linked
    <2>2. CASE k = n + 1
      <3>1. k - 1 = n /\ n \in 0..n
        BY <1>4, <2>2
      <3>2. QED
        BY <1>5, <1>7, <1>10, <1>11, <2>2, <3>1
    <2>3. CASE k # n + 1
      <3>1. k \in 1..n /\ k \in 0..n /\ k - 1 \in 0..n
        BY <1>4, <2>3
      <3>2. h[k - 1].todo = <<>> /\ h[k] = After(program, disk, script[k], h[k - 1])
        BY <1>3, <3>1 DEF Linked, n
      <3>3. QED
        BY <1>5, <1>10, <3>1, <3>2
    <2>4. QED
      BY <2>2, <2>3
  <1>13. \A q \in Ranks : counts[q] <= Len(calls) /\ Books(q)' = g[counts[q]]
    <2>1. SUFFICES ASSUME NEW q \in Ranks
                   PROVE  counts[q] <= Len(calls) /\ Books(q)' = g[counts[q]]
      OBVIOUS
    <2>2. CASE q = r
      BY <1>4, <1>5, <1>6, <1>9, <1>10, <1>11, <2>2
    <2>3. CASE q # r
      BY <1>3, <1>4, <1>5, <1>6, <1>9, <1>10, <2>3
    <2>4. QED
      BY <2>2, <2>3
  <1>14. \E q \in Ranks : counts[q] <= 1
    <2>1. PICK q \in Ranks : begun[q] = 0
      BY <1>1 DEF Agreement
    <2>2. CASE q = r
      BY <1>2, <1>9, <2>1, <2>2
    <2>3. CASE q # r
      BY <1>9, <2>1, <2>3
    <2>4. QED
      BY <2>2, <2>3
  <1>15. \A k \in 1..Len(calls) : Used(calls[k])
    <2>1. SUFFICES ASSUME NEW k \in 1..(n + 1) PROVE Used(calls[k])
      BY <1>5
    <2>2. CASE k = n + 1
      BY <1>2, <1>5, <2>2
    <2>3. CASE k # n + 1
      <3>1. k \in 1..n
        BY <1>4, <2>3
      <3>2. QED
        BY <1>1, <1>5, <3>1 DEF ScriptTypes, n
    <2>4. QED
      BY <2>2, <2>3
  <1>16. Len(calls) <= MaxAhead
    BY <1>2, <1>4, <1>5, ParallelAssumption
  <1>17. ScriptTypes' /\ Agreement'
    BY <1>2, <1>5, <1>7, <1>9, <1>12, <1>13, <1>14, <1>15, <1>16, AdvanceKeeps
  <1>18. QED
    BY <1>8, <1>17 DEF IndInv


\* All processes are in a call, so all have begun the same calls.
LEMMA CollectiveKeeps ==
    ASSUME IndInv, NEW op \in Ops, Meet(op) \/ MeetFails(op)
    PROVE  IndInv'
  <1>1. ProgramTypes /\ RankTypes /\ ScriptTypes /\ AppendInv /\ Agreement
    BY DEF IndInv
  <1>2. ProgramTypes' /\ RankTypes'
    BY <1>1, MeetTypes
  <1>3. AppendInv'
    BY <1>1, MeetAppendInv, MeetFailsAppendInv
  <1>4. PICK h : /\ Linked(program, disk, script, h)
                 /\ \A r \in Ranks : begun[r] \in 0..Len(script) /\ Books(r) = h[begun[r]]
    BY <1>1 DEF Agreement
  <1>5. Len(script) \in Nat
    BY <1>1, LenProperties DEF ScriptTypes
  <1>6. \A r \in Ranks : todo[r] # <<>>
    BY DEF Meet, MeetFails, Meeting
  <1>7. \A r \in Ranks : begun[r] = Len(script)
    <2>1. SUFFICES ASSUME NEW r \in Ranks, begun[r] # Len(script) PROVE FALSE
      OBVIOUS
    <2>2. begun[r] + 1 \in 1..Len(script) /\ (begun[r] + 1) - 1 = begun[r]
      BY <1>4, <1>5, <2>1
    <2>3. h[begun[r]].todo = <<>>
      BY <1>4, <2>2 DEF Linked
    <2>4. Books(r).todo = todo[r]
      BY DEF Books, Book
    <2>5. QED
      BY <1>4, <1>6, <2>3, <2>4
  <1>8. PICK q \in Ranks : begun[q] = 0
    BY <1>1 DEF Agreement
  <1>9. Len(script) = 0
    BY <1>7, <1>8
  <1>10. \A r \in Ranks : Books(r) = Books(q) /\ begun[r] = 0
    BY <1>4, <1>7, <1>9
  <1>11. \A r \in Ranks : Books(r)' = Books(q)'
    BY <1>1, <1>10, MeetBooks
  <1>12. UNCHANGED <<program, script, begun>>
    BY DEF Meet, MeetFails, scriptVars
  <1>13. ScriptTypes'
    BY <1>1, <1>12 DEF ScriptTypes, Used
  <1> DEFINE g == [k \in {0} |-> Books(q)']
  <1>14. g[0] = Books(q)'
    OBVIOUS
  <1> HIDE DEF g
  <1>15. Linked(program', disk', script', g)
    BY <1>9, <1>12 DEF Linked
  <1>16. \A r \in Ranks : begun'[r] \in 0..Len(script') /\ Books(r)' = g[begun'[r]]
    BY <1>9, <1>10, <1>11, <1>12, <1>14
  <1>17. Agreement'
    BY <1>8, <1>12, <1>15, <1>16 DEF Agreement
  <1>18. QED
    BY <1>2, <1>3, <1>13, <1>17 DEF IndInv

LEMMA AppendKeeps ==
    ASSUME EnoughHandles, IndInv, NEW r \in Ranks, NEW i \in Iterations, AppendCall(r, i)
    PROVE  IndInv'
  <1>1. ProgramTypes /\ RankTypes /\ ScriptTypes /\ AppendInv /\ Agreement
    BY DEF IndInv
  <1>2. ProgramTypes' /\ RankTypes'
    BY <1>1, AppendTypes
  <1>3. AppendInv' /\ \A q \in Ranks : Books(q)' = Books(q)
    BY <1>1, AppendAppendInv
  <1>4. UNCHANGED <<program, disk, script, begun>>
    BY DEF AppendCall, scriptVars
  <1>5. ScriptTypes'
    BY <1>1, <1>4 DEF ScriptTypes, Used
  <1>6. Agreement'
    BY <1>1, <1>3, <1>4 DEF Agreement
  <1>7. QED
    BY <1>2, <1>3, <1>5, <1>6 DEF IndInv

LEMMA InitIndInv ==
    ASSUME Init
    PROVE  IndInv
  <1>1. ProgramTypes /\ RankTypes /\ ScriptTypes
    BY InitTypes
  <1>2. AppendInv
    BY EmptyTableFacts DEF Init, AppendInv, TodoShape
  <1>3. Agreement
    <2>1. PICK q \in Ranks : TRUE
      BY ParallelAssumption
    <2>2. begun = [r \in Ranks |-> 0] /\ Len(script) = 0
      BY EmptySeq DEF Init
    <2>3. \A r \in Ranks : Books(r) = Books(q)
      BY DEF Init, Books
    <2> DEFINE g == [k \in {0} |-> Books(q)]
    <2>4. g[0] = Books(q)
      OBVIOUS
    <2> HIDE DEF g
    <2>5. Linked(program, disk, script, g)
      BY <2>2 DEF Linked
    <2>6. \A r \in Ranks : begun[r] \in 0..Len(script) /\ Books(r) = g[begun[r]]
      BY <2>2, <2>3, <2>4
    <2>7. QED
      BY <2>1, <2>2, <2>5, <2>6 DEF Agreement
  <1>4. QED
    BY <1>1, <1>2, <1>3 DEF IndInv

LEMMA StutterKeeps ==
    ASSUME IndInv, UNCHANGED vars
    PROVE  IndInv'
  <1>1. UNCHANGED <<program, fileStatus, tables, maxID, reserved, todo, script, begun, disk>>
    BY DEF vars, rankVars, scriptVars
  <1>2. (ProgramTypes /\ RankTypes /\ ScriptTypes)'
    BY <1>1 DEF IndInv, ProgramTypes, RankTypes, ScriptTypes, Used
  <1>3. AppendInv'
    BY <1>1 DEF IndInv, AppendInv, Appends, TodoShape
  <1>4. \A r \in Ranks : Books(r)' = Books(r)
    BY <1>1 DEF Books, Appends
  <1>5. Agreement'
    BY <1>1, <1>4 DEF IndInv, Agreement
  <1>6. QED
    BY <1>2, <1>3, <1>5 DEF IndInv

LEMMA NextIndInv ==
    ASSUME EnoughHandles, IndInv, [Next]_vars
    PROVE  IndInv'
  <1>1. ASSUME NEW r \in Ranks, NEW c \in Calls, Lead(r, c) PROVE IndInv'
    BY <1>1, LeadKeeps
  <1>2. ASSUME NEW r \in Ranks, Follow(r) PROVE IndInv'
    BY <1>2, FollowKeeps
  <1>3. ASSUME NEW r \in Ranks, NEW i \in Iterations, AppendCall(r, i) PROVE IndInv'
    BY <1>3, AppendKeeps
  <1>4. ASSUME NEW op \in Ops, Meet(op) \/ MeetFails(op) PROVE IndInv'
    BY <1>4, CollectiveKeeps
  <1>5. CASE UNCHANGED vars
    BY <1>5, StutterKeeps
  <1>6. QED
    BY <1>1, <1>2, <1>3, <1>4, <1>5 DEF Next

\* The inductive invariant: all processes pass through one sequence of books.
THEOREM Invariance ==
    ASSUME EnoughHandles
    PROVE  Spec => []IndInv
  <1>1. Init => IndInv
    BY InitIndInv
  <1>2. IndInv /\ [Next]_vars => IndInv'
    BY NextIndInv
  <1>3. QED
    BY <1>1, <1>2, PTL DEF Spec

\* ParallelDataCollector.hpp:60-98: the members keep their ranges.
THEOREM TypeCorrect ==
    ASSUME EnoughHandles
    PROVE  Spec => []TypeOK
  <1>1. ASSUME IndInv PROVE TypeOK
    <2>1. ProgramTypes /\ RankTypes /\ ScriptTypes /\ Agreement
      BY <1>1 DEF IndInv
    <2>2. ASSUME NEW r \in Ranks
          PROVE  /\ DOMAIN tables[r].open \subseteq Iterations
                 /\ tables[r].open \in [DOMAIN tables[r].open -> 0..CtrMod - 1]
                 /\ tables[r].least \in [index : Iterations \union {0}, ctr : 0..CtrMod - 1]
                 /\ tables[r].created \subseteq Iterations
      <3>1. tables[r] \in Table
        BY <2>1 DEF RankTypes
      <3> DEFINE t == tables[r]
      <3> HIDE DEF t
      <3>2. /\ DOMAIN t.open \in SUBSET Iterations /\ t.open \in [DOMAIN t.open -> Counter]
            /\ t.created \in SUBSET Iterations
            /\ t.least = [index |-> t.least.index, ctr |-> t.least.ctr]
            /\ t.least.index \in Iterations \union {0} /\ t.least.ctr \in Counter
        BY <3>1, TableFacts DEF t
      <3>3. t.least \in [index : Iterations \union {0}, ctr : Counter]
        BY <3>2
      <3>4. QED
        BY <3>2, <3>3 DEF t, Counter
    <2>3. begun \in [Ranks -> 0..MaxAhead]
      <3>1. Len(script) \in Nat /\ Len(script) <= MaxAhead
        BY <2>1, LenProperties DEF ScriptTypes
      <3>2. \A r \in Ranks : begun[r] \in 0..Len(script)
        BY <2>1 DEF Agreement
      <3>3. QED
        BY <2>1, <3>1, <3>2, ParallelAssumption DEF ScriptTypes
    <2>4. QED
      BY <2>1, <2>2, <2>3 DEF TypeOK, ProgramTypes, RankTypes, ScriptTypes
  <1>2. IndInv => TypeOK
    BY <1>1
  <1>3. QED
    BY <1>2, Invariance, PTL

\* ParallelDataCollector.cpp: the collective HDF5 calls of HandleMgr::get(),
\* handles.close() and of every access. No two processes ever wait in different
\* ones, however far one is ahead of another.
THEOREM NoMixedCollectives ==
    ASSUME EnoughHandles
    PROVE  Spec => []CollectivesMatch
  <1>1. ASSUME IndInv PROVE CollectivesMatch
    <2>1. SUFFICES ASSUME NEW r \in Ranks, NEW s \in Ranks, todo[r] # <<>>, todo[s] # <<>>
                   PROVE  Head(todo[r]) = Head(todo[s])
      BY DEF CollectivesMatch
    <2>2. PICK h : /\ Linked(program, disk, script, h)
                   /\ \A q \in Ranks : begun[q] \in 0..Len(script) /\ Books(q) = h[begun[q]]
      BY <1>1 DEF IndInv, Agreement
    <2>3. Len(script) \in Nat
      BY <1>1, LenProperties DEF IndInv, ScriptTypes
    <2>4. \A q \in Ranks : Books(q).todo = todo[q]
      BY DEF Books, Book
    <2>5. ASSUME NEW q \in Ranks, todo[q] # <<>> PROVE begun[q] = Len(script)
      <3>1. SUFFICES ASSUME begun[q] # Len(script) PROVE FALSE
        OBVIOUS
      <3>2. begun[q] + 1 \in 1..Len(script) /\ (begun[q] + 1) - 1 = begun[q]
        BY <2>2, <2>3, <3>1
      <3>3. h[begun[q]].todo = <<>>
        BY <2>2, <3>2 DEF Linked
      <3>4. QED
        BY <2>2, <2>4, <2>5, <3>3
    <2>6. Books(r) = Books(s)
      BY <2>1, <2>2, <2>5
    <2>7. QED
      BY <2>4, <2>6
  <1>2. IndInv => CollectivesMatch
    BY <1>1
  <1>3. QED
    BY <1>2, Invariance, PTL

\* ParallelDataCollector.cpp: maxID, the handle table and createdFiles, kept by
\* every process for itself, are the same in all that have come equally far.
THEOREM SameViews ==
    ASSUME EnoughHandles
    PROVE  Spec => []ViewsAgree
  <1>1. ASSUME IndInv PROVE ViewsAgree
    <2>1. SUFFICES ASSUME NEW r \in Ranks, NEW s \in Ranks, begun[r] = begun[s]
                   PROVE  /\ fileStatus[r] = fileStatus[s]
                          /\ DOMAIN tables[r].open = DOMAIN tables[s].open
                          /\ tables[r].created = tables[s].created
                          /\ maxID[r] = maxID[s]
      BY DEF ViewsAgree
    <2>2. Books(r) = Books(s)
      BY <1>1, <2>1 DEF IndInv, Agreement
    <2>3. QED
      BY <2>2 DEF Books, Book
  <1>2. IndInv => ViewsAgree
    BY <1>1
  <1>3. QED
    BY <1>2, Invariance, PTL
=============================================================================
