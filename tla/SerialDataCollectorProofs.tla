--------------------- MODULE SerialDataCollectorProofs ----------------------
(***************************************************************************)
(* Proofs about SerialDataCollector for any programs: any iterations, any   *)
(* tree of names, any numbers of ranks, and any sequence of sessions, calls *)
(* that fail and crashes.                                                   *)
(***************************************************************************)
EXTENDS SerialDataCollector, SequenceTheorems, NumberLemmas

-----------------------------------------------------------------------------
(* Paths *)

\* Where objects lie: in the iteration's own group, or in a group in it.
Paths == Names \union {<<>>}

\* What a path is, and where its prefixes are.
LEMMA PathFacts ==
    ASSUME program \in Programs, NEW d \in Paths
    PROVE  /\ Len(d) \in Nat /\ \E S : d \in Seq(S)
           /\ Upto(d) \subseteq Names
           /\ d \in Names => d # <<>> /\ Len(d) > 0 /\ SubSeq(d, 1, Len(d)) = d
  <1>1. CASE d = <<>>
    <2>1. <<>> \notin Names
      BY SerialAssumption DEF Names
    <2>4. d \in Seq({}) /\ Len(d) = 0
      BY <1>1, EmptySeq
    <2>2. Upto(d) = {}
      BY <2>4 DEF Upto
    <2>3. QED
      BY <1>1, <2>1, <2>2, <2>4
  <1>2. CASE d \in Names
    <2> DEFINE S == {d[k] : k \in 1..Len(d)}
    <2>1. d # <<>> /\ d \in Seq(S) /\ \A k \in 1..Len(d) : SubSeq(d, 1, k) \in Names
      BY <1>2, SerialAssumption DEF Names
    <2> HIDE DEF S
    <2>2. Len(d) \in Nat /\ Len(d) > 0
      BY <2>1, EmptySeq, LenProperties
    <2>3. SubSeq(d, 1, Len(d)) = d
      BY <2>1, SubSeqFull
    <2>4. QED
      BY <2>1, <2>2, <2>3 DEF Upto
  <1>3. QED
    BY <1>1, <1>2 DEF Paths

\* A prefix of a path is a path, and so are its own prefixes.
LEMMA PrefixFacts ==
    ASSUME program \in Programs, NEW d \in Paths, NEW k \in 0..Len(d)
    PROVE  /\ SubSeq(d, 1, k) \in Paths
           /\ Len(SubSeq(d, 1, k)) = k
           /\ \A i \in 1..k : SubSeq(SubSeq(d, 1, k), 1, i) = SubSeq(d, 1, i)
           /\ Upto(SubSeq(d, 1, k)) = {SubSeq(d, 1, i) : i \in 1..k}
           /\ Upto(SubSeq(d, 1, k)) \subseteq Upto(d)
  <1>1. PICK S : d \in Seq(S)
    BY PathFacts
  <1>2. Len(d) \in Nat /\ \A i \in 1..Len(d) : d[i] \in S
    BY <1>1, LenProperties, ElementOfSeq
  <1>3. SubSeq(d, 1, k) \in Seq(S) /\ Len(SubSeq(d, 1, k)) = k
    BY <1>2, SubSeqProperties
  <1>4. \A i \in 1..k : SubSeq(SubSeq(d, 1, k), 1, i) = SubSeq(d, 1, i)
    <2>1. SUFFICES ASSUME NEW i \in 1..k
                   PROVE  SubSeq(SubSeq(d, 1, k), 1, i) = SubSeq(d, 1, i)
      OBVIOUS
    <2>2. k \in 1..Len(d) /\ 1 \in 1..Len(d) /\ 1 \in 1..(k - 1 + 1) /\ i \in 1..(k - 1 + 1)
      BY <1>2
    <2>3. SubSeq(SubSeq(d, 1, k), 1, i) = SubSeq(d, 1 + 1 - 1, 1 + i - 1)
      BY <1>1, <1>3, <2>2, SubSeqOfSubSeq
    <2>4. 1 + 1 - 1 = 1 /\ 1 + i - 1 = i
      BY <2>2
    <2>5. QED
      BY <2>3, <2>4
  <1>5. SubSeq(d, 1, k) \in Paths
    <2>1. CASE k = 0
      BY <2>1, <1>3, EmptySeq DEF Paths
    <2>2. CASE k > 0
      <3>1. SubSeq(d, 1, k) \in Upto(d)
        BY <2>2, <1>2 DEF Upto
      <3>2. QED
        BY <3>1, PathFacts DEF Paths
    <2>3. QED
      BY <2>1, <2>2, <1>2
  <1>6. Upto(SubSeq(d, 1, k)) = {SubSeq(d, 1, i) : i \in 1..k}
    BY <1>3, <1>4 DEF Upto
  <1>7. {SubSeq(d, 1, i) : i \in 1..k} \subseteq Upto(d)
    BY <1>2 DEF Upto
  <1>8. QED
    BY <1>3, <1>4, <1>5, <1>6, <1>7

\* The group a name lies in, and those above.
LEMMA DirFacts ==
    ASSUME program \in Programs, NEW n \in Names
    PROVE  /\ Dir(n) \in Paths
           /\ Upto(Dir(n)) = {SubSeq(n, 1, i) : i \in 1..(Len(n) - 1)}
           /\ Upto(Dir(n)) \subseteq Names
           /\ \A m \in Upto(Dir(n)) : Len(m) < Len(n)
  <1>1. n \in Paths /\ Len(n) \in Nat /\ Len(n) > 0
    BY PathFacts DEF Paths
  <1>2. Len(n) - 1 \in 0..Len(n)
    BY <1>1
  <1>3. Dir(n) \in Paths /\ Upto(Dir(n)) = {SubSeq(n, 1, i) : i \in 1..(Len(n) - 1)}
    BY <1>1, <1>2, PrefixFacts DEF Dir
  <1>4. \A i \in 1..(Len(n) - 1) : Len(SubSeq(n, 1, i)) = i
    BY <1>1, PrefixFacts
  <1>5. QED
    BY <1>1, <1>3, <1>4, PathFacts

\* The groups above a group of a path are groups of the path.
LEMMA DirOfPrefix ==
    ASSUME program \in Programs, NEW d \in Paths, NEW m \in Upto(d)
    PROVE  Upto(Dir(m)) \subseteq Upto(d)
  <1>1. PICK k \in 1..Len(d) : m = SubSeq(d, 1, k)
    BY DEF Upto
  <1>2. Len(d) \in Nat /\ m \in Names
    BY PathFacts
  <1>3. /\ Len(m) = k
        /\ \A i \in 1..k : SubSeq(m, 1, i) = SubSeq(d, 1, i)
    BY <1>1, <1>2, PrefixFacts
  <1>4. QED
    BY <1>2, <1>3, DirFacts DEF Upto

\* What lies above something below n, and not above n, is n or below n.
LEMMA DirOfBelow ==
    ASSUME program \in Programs, NEW n \in Names, NEW m \in Names,
           NEW k \in Upto(Dir(m)), k = n \/ k \in Below(n)
    PROVE  m \in Below(n)
  <1>1. /\ Len(n) \in Nat /\ Len(n) > 0 /\ SubSeq(n, 1, Len(n)) = n
        /\ Len(m) \in Nat /\ m \in Paths /\ n \in Paths
    BY PathFacts DEF Paths
  <1>2. PICK i \in Int : 1 <= i /\ i <= Len(m) - 1 /\ k = SubSeq(m, 1, i)
    BY DirFacts
  <1>3. i \in 0..Len(m) /\ i < Len(m)
    <2>1. Len(m) \in Nat
      BY <1>1
    <2>2. QED
      BY <1>2, <2>1
  <1>4. Len(k) = i /\ \A j \in 1..i : SubSeq(k, 1, j) = SubSeq(m, 1, j)
    BY <1>1, <1>2, <1>3, PrefixFacts
  <1>5. Len(n) \in 1..i /\ SubSeq(k, 1, Len(n)) = n
    BY <1>1, <1>3, <1>4 DEF Below
  <1>6. SubSeq(m, 1, Len(n)) = n /\ Len(m) > Len(n)
    BY <1>1, <1>3, <1>4, <1>5
  <1>7. QED
    BY <1>6 DEF Below

-----------------------------------------------------------------------------
(* Contents of a file *)

ContentOf(p) ==
    [header : BOOLEAN, size : p.sizes \union {0}, maxid : p.ids \union {-1, 0},
     groups : SUBSET p.ids, obj : [p.ids \X p.names -> Kinds], damaged : BOOLEAN]

\* Every object lies in groups of its iteration.
Tree(p, c) ==
    \A id \in p.ids, n \in p.names :
        Object(c, id, n) # "none" => IsGroup(c, id, Dir(n))

\* What is true of every file of a program. Iterations are numbers a file has
\* finitely many of.
Sound(p, c) ==
    /\ c \in ContentOf(p)
    /\ Tree(p, c)
    /\ \E b \in Nat : \A id \in c.groups : id <= b

DataIds(p, c) == {id \in p.ids : \E n \in p.names : Object(c, id, n) = "data"}

\* What the results of an operation have in common: d is a file again, with the
\* same header entry and no data but what was there and that of the iterations added.
Becomes(p, c, d, added) ==
    /\ Sound(p, d)
    /\ d.maxid = c.maxid
    /\ DataIds(p, d) \subseteq DataIds(p, c) \union added

\* An iteration with data is among the iterations that are listed.
LEMMA DataInGroups ==
    ASSUME NEW c, Sound(program, c)
    PROVE  DataIds(program, c) \subseteq c.groups
  <1>1. QED
    BY DEF Sound, Tree, DataIds, IsGroup

\* A new file has a sound tree and no data, with or without its header.
LEMMA EmptyFacts ==
    ASSUME program \in Programs
    PROVE  /\ Sound(program, EmptyFile)
           /\ \A size \in Sizes \union {0} : Sound(program, Header(EmptyFile, size))
           /\ DataIds(program, EmptyFile) = {}
           /\ \A size : DataIds(program, Header(EmptyFile, size)) = {}
           /\ EmptyFile.groups = {} /\ ~EmptyFile.header
  <1>1. EmptyFile \in ContentOf(program)
    BY DEF EmptyFile, ContentOf, Ids, Names, Kinds
  <1>2. \A size \in Sizes \union {0} : Header(EmptyFile, size) \in ContentOf(program)
    BY <1>1 DEF ContentOf, Header, Sizes
  <1>3. \A size : Header(EmptyFile, size).obj = EmptyFile.obj
    BY DEF Header, EmptyFile
  <1>4. \A size : Header(EmptyFile, size).groups = {} /\ EmptyFile.groups = {}
    BY DEF Header, EmptyFile
  <1>5. \A id \in program.ids, n \in program.names : EmptyFile.obj[<<id, n>>] = "none"
    BY DEF EmptyFile, Ids, Names
  <1>6. ASSUME NEW c, c.obj = EmptyFile.obj, c.groups = {}
        PROVE  /\ Tree(program, c) /\ DataIds(program, c) = {}
               /\ \E b \in Nat : \A id \in c.groups : id <= b
    BY <1>5, <1>6 DEF Tree, DataIds, Object
  <1>7. \A size : /\ Tree(program, Header(EmptyFile, size))
                  /\ DataIds(program, Header(EmptyFile, size)) = {}
                  /\ \E b \in Nat : \A id \in Header(EmptyFile, size).groups : id <= b
    BY <1>3, <1>4, <1>6
  <1>8. /\ Tree(program, EmptyFile) /\ DataIds(program, EmptyFile) = {}
        /\ \E b \in Nat : \A id \in EmptyFile.groups : id <= b
    BY <1>4, <1>6
  <1>9. ~EmptyFile.header
    BY DEF EmptyFile
  <1>10. QED
    BY <1>1, <1>2, <1>4, <1>7, <1>8, <1>9 DEF Sound

\* Making groups overwrites nothing but what is in the way.
LEMMA MakeGroupsFacts ==
    ASSUME program \in Programs, NEW c, Sound(program, c), NEW id \in Ids, NEW d \in Paths
    PROVE  /\ Becomes(program, c, MakeGroups(c, id, d), {})
           /\ \A i \in Ids, n \in Names :
                 Object(MakeGroups(c, id, d), i, n) =
                     IF i = id /\ n \in Upto(d) THEN "group" ELSE Object(c, i, n)
           /\ MakeGroups(c, id, d).groups = c.groups \union {id}
  <1> DEFINE g == MakeGroups(c, id, d)
  <1>1. c \in ContentOf(program) /\ Tree(program, c)
    BY DEF Sound
  <1>2. /\ c.obj \in [Ids \X Names -> Kinds] /\ c.groups \subseteq Ids
        /\ c.maxid \in Ids \union {-1, 0}
    BY <1>1 DEF ContentOf, Ids, Names
  <1>3. g = [c EXCEPT !.groups = c.groups \union {id},
                      !.obj = [x \in Ids \X Names |->
                                 IF x[1] = id /\ x[2] \in Upto(d) THEN "group"
                                 ELSE c.obj[x]]]
    BY <1>1, <1>2 DEF MakeGroups, IdGroup, ContentOf
  <1> HIDE DEF g
  <1>4. g \in ContentOf(program) /\ g.maxid = c.maxid /\ g.groups = c.groups \union {id}
    <2> DEFINE o == [x \in Ids \X Names |->
                       IF x[1] = id /\ x[2] \in Upto(d) THEN "group" ELSE c.obj[x]]
    <2>1. o \in [Ids \X Names -> Kinds]
      BY <1>2 DEF Kinds
    <2>2. g = [c EXCEPT !.groups = c.groups \union {id}, !.obj = o]
      BY <1>3
    <2> HIDE DEF o
    <2>3. c.groups \union {id} \in SUBSET Ids
      BY <1>2
    <2>4. QED
      BY <1>1, <2>1, <2>2, <2>3 DEF ContentOf, Ids, Names
  <1>5. g.obj = [x \in Ids \X Names |->
                   IF x[1] = id /\ x[2] \in Upto(d) THEN "group" ELSE c.obj[x]]
    BY <1>1, <1>3 DEF ContentOf
  <1>6. \A i \in Ids, n \in Names :
          Object(g, i, n) = IF i = id /\ n \in Upto(d) THEN "group" ELSE Object(c, i, n)
    BY <1>5 DEF Object
  <1>7. Tree(program, g)
    <2>1. SUFFICES ASSUME NEW i \in Ids, NEW n \in Names, Object(g, i, n) # "none",
                          NEW k \in Upto(Dir(n))
                   PROVE  i \in g.groups /\ Object(g, i, k) = "group"
      <3>1. ASSUME NEW i \in Ids, NEW n \in Names, Object(g, i, n) # "none"
            PROVE  i \in g.groups
        <4>1. CASE i = id
          BY <4>1, <1>4
        <4>2. CASE i # id
          BY <4>2, <1>1, <1>4, <1>6, <3>1 DEF Tree, IsGroup, Ids, Names
        <4>3. QED
          BY <4>1, <4>2
      <3>2. QED
        BY <3>1 DEF Tree, IsGroup, Ids, Names
    <2>2. k \in Names
      BY DirFacts
    <2>3. CASE i = id /\ n \in Upto(d)
      BY <1>4, <1>6, <2>2, <2>3, DirOfPrefix
    <2>4. CASE ~(i = id /\ n \in Upto(d))
      <3>1. Object(c, i, n) # "none"
        BY <2>1, <2>4, <1>6
      <3>2. i \in c.groups /\ Object(c, i, k) = "group"
        BY <3>1, <1>1 DEF Tree, IsGroup, Ids, Names
      <3>3. QED
        BY <3>2, <2>2, <1>4, <1>6
    <2>5. QED
      BY <2>3, <2>4
  <1>8. \E b \in Nat : \A i \in g.groups : i <= b
    <2>1. PICK b \in Nat : \A i \in c.groups : i <= b
      BY DEF Sound
    <2>2. id \in Nat /\ c.groups \subseteq Nat
      BY <1>2, SerialAssumption DEF Ids
    <2>3. CASE id <= b
      BY <2>1, <2>3, <1>4
    <2>4. CASE ~(id <= b)
      <3>1. \A i \in g.groups : i <= id
        BY <2>1, <2>2, <2>4, <1>4
      <3>2. QED
        BY <2>2, <3>1
    <2>5. QED
      BY <2>3, <2>4
  <1>9. DataIds(program, g) \subseteq DataIds(program, c)
    BY <1>6 DEF DataIds, Ids, Names
  <1>10. QED
    BY <1>4, <1>6, <1>7, <1>8, <1>9 DEF Sound, Becomes, g

\* Putting an object in a place keeps the tree: what lay below it goes.
LEMMA PutFacts ==
    ASSUME program \in Programs, NEW c, Sound(program, c), NEW id \in Ids, NEW n \in Names,
           NEW kind \in Kinds
    PROVE  Becomes(program, c, Put(c, id, n, kind), IF kind = "data" THEN {id} ELSE {})
  <1> DEFINE m == MakeGroups(c, id, Dir(n))
             g == Put(c, id, n, kind)
             o == [x \in Ids \X Names |->
                     IF x = <<id, n>> THEN kind
                     ELSE IF x[1] = id /\ x[2] \in Below(n) THEN "none"
                     ELSE m.obj[x]]
  <1>1. Dir(n) \in Paths /\ Upto(Dir(n)) \subseteq Names
    BY DirFacts
  <1>2. /\ Becomes(program, c, m, {}) /\ m.groups = c.groups \union {id}
        /\ \A i \in Ids, k \in Names :
              Object(m, i, k) = IF i = id /\ k \in Upto(Dir(n)) THEN "group"
                                ELSE Object(c, i, k)
    BY <1>1, MakeGroupsFacts
  <1>3. /\ m \in ContentOf(program) /\ Tree(program, m) /\ m.maxid = c.maxid
        /\ \E b \in Nat : \A i \in m.groups : i <= b
    BY <1>2 DEF Becomes, Sound
  <1>4. m.obj \in [Ids \X Names -> Kinds]
    BY <1>3 DEF ContentOf, Ids, Names
  <1>5. g = [m EXCEPT !.obj = o]
    BY <1>4 DEF Put
  <1> HIDE DEF m, g
  <1>6. o \in [Ids \X Names -> Kinds]
    BY <1>4 DEF Kinds
  <1>7. g.obj = o
    BY <1>3, <1>5 DEF ContentOf
  <1>8. \A i \in Ids, k \in Names :
          Object(g, i, k) = IF i = id /\ k = n THEN kind
                            ELSE IF i = id /\ k \in Below(n) THEN "none"
                            ELSE Object(m, i, k)
    BY <1>7 DEF Object
  <1> HIDE DEF o
  <1>9. g \in ContentOf(program) /\ g.maxid = c.maxid /\ g.groups = m.groups
    BY <1>3, <1>5, <1>6 DEF ContentOf, Ids, Names
  <1>10. ASSUME NEW i \in Ids, NEW k \in Names, Object(g, i, k) # "none"
         PROVE  /\ i \in g.groups
                /\ \A u \in Upto(Dir(k)) : Object(g, i, u) = "group"
    <2>1. Upto(Dir(k)) \subseteq Names
      BY DirFacts
    <2>2. CASE i # id
      <3>1. Object(m, i, k) # "none"
        BY <1>8, <1>10, <2>2
      <3>2. i \in m.groups /\ \A u \in Upto(Dir(k)) : Object(m, i, u) = "group"
        BY <3>1, <1>3 DEF Tree, IsGroup, Ids, Names
      <3>3. QED
        BY <3>2, <2>1, <2>2, <1>8, <1>9
    <2>3. CASE i = id /\ k = n
      <3>1. \A u \in Upto(Dir(n)) : u # n /\ u \notin Below(n)
        BY DirFacts, PathFacts DEF Below, Paths
      <3>2. \A u \in Upto(Dir(n)) : Object(m, id, u) = "group"
        BY <1>1, <1>2
      <3>3. QED
        BY <3>1, <3>2, <2>1, <2>3, <1>2, <1>8, <1>9
    <2>4. CASE i = id /\ k # n
      <3>1. k \notin Below(n) /\ Object(m, i, k) # "none"
        BY <1>8, <1>10, <2>4
      <3>2. i \in m.groups /\ \A u \in Upto(Dir(k)) : Object(m, i, u) = "group"
        BY <3>1, <1>3 DEF Tree, IsGroup, Ids, Names
      <3>3. \A u \in Upto(Dir(k)) : u # n /\ u \notin Below(n)
        BY <3>1, DirOfBelow
      <3>4. QED
        BY <3>2, <3>3, <2>1, <2>4, <1>8, <1>9
    <2>5. QED
      BY <2>2, <2>3, <2>4
  <1>11. Tree(program, g)
    BY <1>10 DEF Tree, IsGroup, Ids, Names
  <1>12. DataIds(program, g) \subseteq
           DataIds(program, c) \union IF kind = "data" THEN {id} ELSE {}
    <2>1. SUFFICES ASSUME NEW i \in Ids, NEW k \in Names, Object(g, i, k) = "data",
                          ~(kind = "data" /\ i = id)
                   PROVE  Object(c, i, k) = "data"
      BY DEF DataIds, Ids, Names
    <2>2. QED
      BY <2>1, <1>2, <1>8
  <1>13. QED
    BY <1>3, <1>9, <1>11, <1>12 DEF Sound, Becomes, g

\* Removing an iteration takes its group and all that lies in it.
LEMMA WithoutFacts ==
    ASSUME program \in Programs, NEW c, Sound(program, c), NEW id \in Ids
    PROVE  Becomes(program, c, Without(c, id), {})
  <1> DEFINE o == [x \in Ids \X Names |-> IF x[1] = id THEN "none" ELSE c.obj[x]]
             w == Without(c, id)
  <1>1. c \in ContentOf(program) /\ Tree(program, c) /\ \E b \in Nat : \A i \in c.groups : i <= b
    BY DEF Sound
  <1>2. c.obj \in [Ids \X Names -> Kinds] /\ c.groups \subseteq Ids
    BY <1>1 DEF ContentOf, Ids, Names
  <1>3. w = [c EXCEPT !.groups = c.groups \ {id}, !.obj = o]
    BY <1>1, <1>2 DEF Without, ContentOf
  <1> HIDE DEF w
  <1>4. o \in [Ids \X Names -> Kinds]
    BY <1>2 DEF Kinds
  <1>5. w.obj = o /\ w.groups = c.groups \ {id} /\ w.maxid = c.maxid
    BY <1>1, <1>3 DEF ContentOf
  <1>6. \A i \in Ids, n \in Names :
          Object(w, i, n) = IF i = id THEN "none" ELSE Object(c, i, n)
    BY <1>5 DEF Object
  <1> HIDE DEF o
  <1>7. w \in ContentOf(program)
    BY <1>1, <1>2, <1>3, <1>4 DEF ContentOf, Ids, Names
  <1>8. Tree(program, w)
    <2>1. SUFFICES ASSUME NEW i \in Ids, NEW n \in Names, Object(w, i, n) # "none"
                   PROVE  i \in w.groups /\ \A k \in Upto(Dir(n)) : Object(w, i, k) = "group"
      BY DEF Tree, IsGroup, Ids, Names
    <2>2. i # id /\ Object(c, i, n) # "none"
      BY <1>6, <2>1
    <2>3. i \in c.groups /\ \A k \in Upto(Dir(n)) : Object(c, i, k) = "group"
      BY <1>1, <2>2 DEF Tree, IsGroup, Ids, Names
    <2>4. QED
      BY <1>5, <1>6, <2>2, <2>3, DirFacts
  <1>9. DataIds(program, w) \subseteq DataIds(program, c)
    BY <1>6 DEF DataIds, Ids, Names
  <1>10. QED
    BY <1>1, <1>5, <1>7, <1>8, <1>9 DEF Sound, Becomes, w

\* remove(id) finds the highest iteration there is, or 0.
LEMMA HighestEntryFacts ==
    ASSUME program \in Programs, NEW c, Sound(program, c)
    PROVE  /\ HighestEntry(c) \in Ids
           /\ \A id \in c.groups : id <= HighestEntry(c)
  <1>1. /\ c.groups \subseteq Ids /\ Ids \subseteq Nat /\ 0 \in Ids
    BY SerialAssumption DEF Sound, ContentOf, Ids
  <1>2. PICK b \in Nat : \A id \in c.groups : id <= b
    BY DEF Sound
  <1>3. \E m \in c.groups \union {0} : \A id \in c.groups : id <= m
    <2>1. CASE c.groups = {}
      BY <2>1
    <2>2. CASE c.groups # {}
      <3>1. c.groups \in SUBSET Nat
        BY <1>1
      <3>2. QED
        BY <3>1, <1>2, <2>2, GreatestNatural
    <2>3. QED
      BY <2>1, <2>2
  <1>4. /\ HighestEntry(c) \in c.groups \union {0}
        /\ \A id \in c.groups : id <= HighestEntry(c)
    BY <1>3 DEF HighestEntry
  <1>5. QED
    BY <1>1, <1>4

-----------------------------------------------------------------------------
(* Results of operations *)

\* What a failing or a successful operation leaves is a file again, with data
\* only in the iterations added.
AllBecome(c, results, added) ==
    \A r \in results : Becomes(program, c, r[1], added) /\ r[2] \in BOOLEAN

\* A result that is written down is a pair of contents and a Boolean.
LEMMA PairFacts ==
    ASSUME NEW r, NEW x,
           \/ r = <<x, FALSE>> \/ r = <<x, TRUE>>
           \/ r \in {x} \X BOOLEAN \/ r \in {x} \X {FALSE}
    PROVE  r[1] = x /\ r[2] \in BOOLEAN
  <1>1. CASE r = <<x, FALSE>>
    BY <1>1
  <1>2. CASE r = <<x, TRUE>>
    BY <1>2
  <1>3. CASE r \in {x} \X BOOLEAN
    BY <1>3
  <1>4. CASE r \in {x} \X {FALSE}
    BY <1>4
  <1>5. QED
    BY <1>1, <1>2, <1>3, <1>4

LEMMA Unchanged ==
    ASSUME NEW c, Sound(program, c), NEW added
    PROVE  Becomes(program, c, c, added)
  BY DEF Becomes

LEMMA GroupFailsFacts ==
    ASSUME program \in Programs, NEW c, Sound(program, c), NEW id \in Ids, NEW d \in Paths
    PROVE  AllBecome(c, GroupFails(c, id, d), {})
  <1>1. \A k \in 0..Len(d) : Becomes(program, c, MakeGroups(c, id, SubSeq(d, 1, k)), {})
    BY PrefixFacts, MakeGroupsFacts
  <1>2. Becomes(program, c, c, {})
    BY Unchanged
  <1>3. \A r \in GroupFails(c, id, d) :
          /\ r[2] = FALSE
          /\ r[1] = c \/ \E k \in 0..Len(d) : r[1] = MakeGroups(c, id, SubSeq(d, 1, k))
    BY DEF GroupFails
  <1>4. QED
    BY <1>1, <1>2, <1>3 DEF AllBecome

LEMMA WriteResultsFacts ==
    ASSUME program \in Programs, NEW c, Sound(program, c), NEW id \in Ids, NEW n \in Names
    PROVE  /\ AllBecome(c, DataResults(c, id, n), {id})
           /\ AllBecome(c, WriteResults(c, id, n), {id})
           /\ AllBecome(c, AppendResults(c, id, n), {id})
  <1>1. /\ Becomes(program, c, Put(c, id, n, "data"), {id})
        /\ Becomes(program, c, Put(c, id, n, "none"), {})
        /\ Becomes(program, c, c, {id})
    BY PutFacts, Unchanged DEF Kinds
  <1>2. \A r \in DataResults(c, id, n) :
          r[2] \in BOOLEAN /\ r[1] \in {Put(c, id, n, "data"), Put(c, id, n, "none")}
    <2>1. SUFFICES ASSUME NEW r \in DataResults(c, id, n)
                   PROVE  /\ r[2] \in BOOLEAN
                          /\ r[1] \in {Put(c, id, n, "data"), Put(c, id, n, "none")}
      OBVIOUS
    <2>2. \E x \in {Put(c, id, n, "data"), Put(c, id, n, "none")} :
            r = <<x, FALSE>> \/ r \in {x} \X BOOLEAN
      BY Zenon DEF DataResults
    <2>3. QED
      BY <2>2, PairFacts, Zenon
  <1>3. AllBecome(c, DataResults(c, id, n), {id})
    BY <1>1, <1>2 DEF AllBecome, Becomes
  <1>4. AllBecome(c, GroupFails(c, id, Dir(n)), {id})
    BY DirFacts, GroupFailsFacts DEF AllBecome, Becomes
  <1>5. AllBecome(c, WriteResults(c, id, n), {id})
    BY <1>3, <1>4 DEF WriteResults, AllBecome
  <1>6. \A r \in AppendResults(c, id, n) :
          \/ r \in GroupFails(c, id, Dir(n)) \union DataResults(c, id, n)
          \/ r[1] = c /\ r[2] \in BOOLEAN
    BY DEF AppendResults
  <1>7. AllBecome(c, AppendResults(c, id, n), {id})
    BY <1>1, <1>3, <1>4, <1>6 DEF AllBecome
  <1>8. QED
    BY <1>3, <1>5, <1>7

LEMMA OtherResultsFacts ==
    ASSUME program \in Programs, NEW c, Sound(program, c), NEW id \in Ids, NEW n \in Names
    PROVE  /\ AllBecome(c, AttributeResults(c, id, n), {})
           /\ AllBecome(c, {<<Put(c, id, n, "none"), FALSE>>}, {})
           /\ \A r \in ReadResults(c, id, n) \union MetaResults(c, id, n) :
                 r[1] = c /\ r[2] \in BOOLEAN
  <1>1. Becomes(program, c, c, {}) /\ Becomes(program, c, Put(c, id, n, "none"), {})
    BY PutFacts, Unchanged DEF Kinds
  <1>3. AllBecome(c, GroupFails(c, id, n), {})
    BY GroupFailsFacts DEF Paths
  <1>4. AllBecome(c, AttributeResults(c, id, n), {})
    <2>1. \A r \in AttributeResults(c, id, n) :
            r = <<c, FALSE>> \/ r \in GroupFails(c, id, n)
      BY Zenon DEF AttributeResults
    <2>2. QED
      BY <1>1, <1>3, <2>1, PairFacts, Zenon DEF AllBecome
  <1>5. AllBecome(c, {<<Put(c, id, n, "none"), FALSE>>}, {})
    <2>1. \A r \in {<<Put(c, id, n, "none"), FALSE>>} :
            r[1] = Put(c, id, n, "none") /\ r[2] \in BOOLEAN
      BY PairFacts, Zenon
    <2>2. QED
      BY <1>1, <2>1, Zenon DEF AllBecome
  <1>6. \A r \in ReadResults(c, id, n) \union MetaResults(c, id, n) :
          r[1] = c /\ r[2] \in BOOLEAN
    <2>1. SUFFICES ASSUME NEW r \in ReadResults(c, id, n) \union MetaResults(c, id, n)
                   PROVE  r[1] = c /\ r[2] \in BOOLEAN
      OBVIOUS
    <2>2. r \in {c} \X BOOLEAN \/ r \in {c} \X {FALSE} \/ r = <<c, TRUE>>
      BY Zenon DEF ReadResults, MetaResults
    <2>3. QED
      BY <2>2, PairFacts, Zenon
  <1>7. QED
    BY <1>4, <1>5, <1>6

LEMMA ReferenceResultsFacts ==
    ASSUME program \in Programs, NEW c, Sound(program, c), NEW src \in Ids, NEW m \in Names,
           NEW dst \in Ids, NEW n \in Names
    PROVE  AllBecome(c, ReferenceResults(c, src, m, dst, n), {})
  <1>1. /\ Becomes(program, c, c, {})
        /\ Becomes(program, c, Put(c, dst, n, "ref"), {})
        /\ Becomes(program, c, MakeGroups(c, dst, Dir(n)), {})
    BY PutFacts, Unchanged, MakeGroupsFacts, DirFacts DEF Kinds
  <1>2. AllBecome(c, GroupFails(c, dst, Dir(n)), {})
    BY DirFacts, GroupFailsFacts
  <1>3. \A r \in ReferenceResults(c, src, m, dst, n) :
          \/ r \in GroupFails(c, dst, Dir(n))
          \/ /\ r[1] \in {c, Put(c, dst, n, "ref"), MakeGroups(c, dst, Dir(n))}
             /\ r[2] \in BOOLEAN
    <2> DEFINE g == MakeGroups(c, dst, Dir(n))
               u == Put(c, dst, n, "ref")
    <2>1. SUFFICES ASSUME NEW r \in ReferenceResults(c, src, m, dst, n)
                   PROVE  \/ r \in GroupFails(c, dst, Dir(n))
                          \/ r[1] \in {c, u, g} /\ r[2] \in BOOLEAN
      OBVIOUS
    <2>2. \/ r \in GroupFails(c, dst, Dir(n))
          \/ \E x \in {c, u, g} :
                r = <<x, FALSE>> \/ r = <<x, TRUE>> \/ r \in {x} \X BOOLEAN
      BY Zenon DEF ReferenceResults
    <2> HIDE DEF g, u
    <2>3. QED
      BY <2>2, PairFacts, Zenon
  <1>4. QED
    BY <1>1, <1>2, <1>3 DEF AllBecome


-----------------------------------------------------------------------------
(* The inductive invariant *)

\* A handle is that of the session's file, or that of a session that close() could
\* not end. A file is about to be truncated only in a session that creates it, and
\* any other file of a session exists.
HandleInv ==
    /\ handle # NoFile => handle \in DOMAIN store /\ filename \in {handle, NoFile}
    /\ created => handle # NoFile
    /\ fileFlags = "TRUNC" => fileStatus = "CREATING" /\ filename # NoFile
    /\ filename # NoFile /\ fileFlags # "TRUNC" => filename \in DOMAIN store

\* While a file is written, the highest iteration covers what is in it, except for
\* what a failure lost count of. It is unknown only when the count is lost altogether.
MaxIDInv ==
    Writable /\ Target # NoFile =>
        /\ ~Truncates =>
              \A id \in DataIds(program, store[Target]) \ uncounted : id <= maxID
        /\ maxID < 0 => uncounted = Ids

\* The header of a file covers the data in it, except for what it has not recorded.
HeaderCovers(f) ==
    \A id \in DataIds(program, store[f]) :
        <<f, id>> \notin unrecorded => id <= store[f].maxid

HeadersCover == \A f \in DOMAIN store : HeaderCovers(f)

FilesSound == \A f \in DOMAIN store : Sound(program, store[f])

IndInv ==
    TypeOK /\ FilesSound /\ ClosedIsReset /\ HandleInv /\ MaxIDInv /\ HeadersCover

\* The invariant after a step, in terms of the program that does not change.
LEMMA Assemble ==
    ASSUME program' = program, program \in Programs,
           fileStatus' \in {"CLOSED", "CREATING", "WRITING", "READING", "MERGING"},
           maxID' \in Ids \union {-1}, mpiTopology' \in Sizes \union {0},
           filename' \in Files \union {NoFile}, fileFlags' \in {"RDONLY", "RDWR", "TRUNC"},
           created' \in BOOLEAN, handle' \in Files \union {NoFile},
           DOMAIN store' \subseteq Files, \A f \in DOMAIN store' : Sound(program, store'[f]),
           leakedRead' \subseteq Files, leakedWrite' \subseteq Files,
           uncounted' \subseteq Ids, unrecorded' \subseteq Files \X Ids,
           ClosedIsReset', HandleInv',
           Writable' /\ Target' # NoFile =>
               /\ ~Truncates' =>
                     \A id \in DataIds(program, store'[Target']) \ uncounted' : id <= maxID'
               /\ maxID' < 0 => uncounted' = Ids,
           \A f \in DOMAIN store' : \A id \in DataIds(program, store'[f]) :
               <<f, id>> \notin unrecorded' => id <= store'[f].maxid
    PROVE  IndInv'
  <1>1. Files' = Files /\ Ids' = Ids /\ Sizes' = Sizes /\ Names' = Names
    BY DEF Files, Ids, Sizes, Names
  <1>2. FilesSound'
    BY DEF FilesSound
  <1>3. HeadersCover' /\ MaxIDInv'
    BY <1>1 DEF HeadersCover, HeaderCovers, MaxIDInv
  <1>4. \A f \in DOMAIN store' : store'[f] \in Content'
    BY <1>1 DEF Content, Sound, ContentOf, Ids, Names, Sizes
  <1>5. TypeOK'
    BY <1>1, <1>4 DEF TypeOK
  <1>6. QED
    BY <1>2, <1>3, <1>5 DEF IndInv

\* Files have names, which a closed HandleMgr has not.
LEMMA FileNames ==
    ASSUME program \in Programs
    PROVE  /\ NoFile \notin Files
           /\ \A size \in Sizes : \A pos \in 0..(size - 1) : FullFilename(pos) \in Files
           /\ FullFilename(0) \in Files
  <1>1. Sizes \subseteq Nat \ {0} /\ 1 \in Sizes
    BY SerialAssumption DEF Sizes
  <1>2. UNION {0..(n - 1) : n \in Sizes} \subseteq Nat
    BY <1>1
  <1>3. NoFile \notin Files
    BY <1>2, SerialAssumption DEF Files
  <1>4. ASSUME NEW size \in Sizes, NEW pos \in 0..(size - 1)
        PROVE  FullFilename(pos) \in Files
    <2>1. size \in Nat \ {0}
      BY <1>1
    <2>2. pos \in UNION {0..(n - 1) : n \in Sizes} /\ 0 \in 0..(size - 1)
      BY <2>1
    <2>3. 0 \in UNION {0..(n - 1) : n \in Sizes}
      BY <2>2
    <2>4. QED
      BY <2>2, <2>3 DEF FullFilename, Files
  <1>5. 0 \in 0..(1 - 1)
    OBVIOUS
  <1>6. QED
    BY <1>1, <1>3, <1>4, <1>5

LEMMA SoundFacts ==
    ASSUME program \in Programs, NEW c, Sound(program, c)
    PROVE  /\ c.maxid \in Int /\ c.maxid \in Ids \union {-1, 0}
           /\ c.groups \subseteq Ids /\ DataIds(program, c) \subseteq Ids
           /\ Ids \subseteq Nat
  BY SerialAssumption DEF Sound, ContentOf, DataIds, Ids

\* What get(0) opens, and what is in it.
LEMMA TargetFacts ==
    ASSUME IndInv, CanGet
    PROVE  /\ program \in Programs
           /\ Target \in Files /\ Target # NoFile
           /\ filename \in {Target, NoFile} /\ handle \in {Target, NoFile}
           /\ fileStatus # "CLOSED"
           /\ Truncates => Writable /\ handle = NoFile /\ filename = Target /\ Contents = EmptyFile
           /\ ~Truncates => Target \in DOMAIN store /\ Contents = store[Target]
           /\ Sound(program, Contents)
  <1>1. /\ program \in Programs /\ handle \in Files \union {NoFile}
        /\ filename \in Files \union {NoFile}
    BY DEF IndInv, TypeOK
  <1>2. Target \in Files /\ Target # NoFile
    BY <1>1, FileNames DEF CanGet, Target
  <1>3. filename \in {Target, NoFile} /\ handle \in {Target, NoFile}
    BY DEF IndInv, HandleInv, CanGet, Target
  <1>4. fileStatus # "CLOSED"
    BY DEF IndInv, ClosedIsReset, CanGet
  <1>5. Truncates => Writable /\ handle = NoFile /\ filename = Target /\ Contents = EmptyFile
    BY <1>3 DEF IndInv, HandleInv, Truncates, Contents, Target, Writable
  <1>6. ~Truncates => Target \in DOMAIN store /\ Contents = store[Target]
    BY DEF IndInv, HandleInv, Truncates, Contents, CanGet, Target
  <1>7. Sound(program, Contents)
    BY <1>1, <1>5, <1>6, EmptyFacts DEF IndInv, FilesSound
  <1>8. QED
    BY <1>1, <1>2, <1>3, <1>4, <1>5, <1>6, <1>7

\* The highest iteration covers what get(0) opens to write.
LEMMA ContentsCovered ==
    ASSUME IndInv, CanGet, Writable, NEW id \in DataIds(program, Contents) \ uncounted
    PROVE  id <= maxID
  <1>1. ~Truncates
    BY TargetFacts, EmptyFacts
  <1>2. Contents = store[Target] /\ Target # NoFile
    BY <1>1, TargetFacts
  <1>3. QED
    BY <1>1, <1>2 DEF IndInv, MaxIDInv

\* After an operation on the file get(0) opens, the headers cover as before, except
\* for the iterations it puts the first data in.
LEMMA TrackFacts ==
    ASSUME IndInv, CanGet, NEW c, Sound(program, c), store' = Storing(Target, c),
           NEW ids \in SUBSET Ids, Track(ids),
           DataIds(program, c) \subseteq DataIds(program, Contents) \union ids
    PROVE  /\ unrecorded' \subseteq Files \X Ids
           /\ \A f \in Files \ {Target} : \A id \in Ids :
                 <<f, id>> \in unrecorded => <<f, id>> \in unrecorded'
           /\ \A id \in DataIds(program, c) : <<Target, id>> \notin unrecorded' =>
                 id \in DataIds(program, Contents) /\ <<Target, id>> \notin unrecorded
  <1> DEFINE fresh == {id \in ids : ~HasData(Contents, id)}
  <1>1. unrecorded \subseteq Files \X Ids /\ Target \in Files /\ program \in Programs
    BY TargetFacts DEF IndInv, TypeOK
  <1>2. unrecorded' = {p \in unrecorded \union Of(Target, fresh) :
                         p[1] = Target => HasData(store'[Target], p[2])}
    BY DEF Track
  <1>3. store'[Target] = c
    BY DEF Storing
  <1>4. fresh \subseteq Ids /\ Of(Target, fresh) \subseteq Files \X Ids
    BY <1>1 DEF Of
  <1>5. unrecorded' \subseteq Files \X Ids
    BY <1>1, <1>2, <1>4
  <1>6. \A f \in Files \ {Target} : \A id \in Ids :
          <<f, id>> \in unrecorded => <<f, id>> \in unrecorded'
    BY <1>2
  <1>7. ASSUME NEW id \in DataIds(program, c), <<Target, id>> \notin unrecorded'
        PROVE  id \in DataIds(program, Contents) /\ <<Target, id>> \notin unrecorded
    <2>1. id \in Ids /\ HasData(c, id)
      BY DEF DataIds, HasData, Ids, Names
    <2>2. <<Target, id>> \notin unrecorded \union Of(Target, fresh)
      BY <1>2, <1>3, <1>7, <2>1
    <2>3. <<Target, id>> \notin unrecorded /\ id \notin fresh
      BY <2>2 DEF Of
    <2>4. HasData(Contents, id) => id \in DataIds(program, Contents)
      BY <2>1 DEF DataIds, HasData, Ids, Names
    <2>5. QED
      BY <2>3, <2>4
  <1>8. QED
    BY <1>5, <1>6, <1>7


-----------------------------------------------------------------------------
(* Operations through the handle *)

\* No step changes a file but that of a session for writing, or leaves it damaged.
OnlySession ==
    \A f \in DOMAIN store :
        store'[f] # store[f] =>
            \/ /\ Writable \/ fileStatus' = "CREATING"
               /\ f \in {handle, filename, handle'}
            \/ store'[f] = [store[f] EXCEPT !.damaged = TRUE]

\* An operation through the handle keeps the invariant, when it only adds data the
\* header has not recorded, and the highest iteration covers the file it leaves.
LEMMA LeaveKeeps ==
    ASSUME IndInv, CanGet, NEW c, Leave(c),
           Sound(program, c), c.maxid = Contents.maxid,
           NEW ids \in SUBSET Ids, Track(ids),
           DataIds(program, c) \subseteq DataIds(program, Contents) \union ids,
           UNCHANGED <<program, fileStatus, mpiTopology>>,
           maxID' \in Ids \union {-1}, uncounted' \subseteq Ids,
           leakedRead' \subseteq Files, leakedWrite' \subseteq Files,
           Writable => \A id \in DataIds(program, c) \ uncounted' : id <= maxID',
           Writable /\ maxID' < 0 => uncounted' = Ids
    PROVE  IndInv'
  <1>1. /\ program \in Programs /\ Target \in Files /\ Target # NoFile
        /\ filename \in {Target, NoFile} /\ handle \in {Target, NoFile}
        /\ fileStatus # "CLOSED"
    BY TargetFacts
  <1>2. /\ DOMAIN store \subseteq Files /\ fileFlags \in {"RDONLY", "RDWR", "TRUNC"}
        /\ fileStatus \in {"CLOSED", "CREATING", "WRITING", "READING", "MERGING"}
        /\ mpiTopology \in Sizes \union {0} /\ created \in BOOLEAN
    BY DEF IndInv, TypeOK
  <1>3. /\ handle' = Target /\ created' = (created \/ Truncates)
        /\ filename' = filename /\ fileFlags' = fileFlags
        /\ program' = program /\ fileStatus' = fileStatus /\ mpiTopology' = mpiTopology
        /\ store' = Storing(Target, c)
    BY DEF Leave
  <1>4. /\ DOMAIN store' = {Target} \union DOMAIN store
        /\ \A g \in DOMAIN store' : store'[g] = IF g = Target THEN c ELSE store[g]
    BY <1>3 DEF Storing
  <1>5. (Writable' <=> Writable) /\ Target' = Target /\ ~Truncates'
    BY <1>1, <1>3 DEF Writable, Target, Truncates
  <1>6. FilesSound'
    BY <1>3, <1>4 DEF IndInv, FilesSound
  <1>7. HandleInv'
    <2>1. HandleInv
      BY DEF IndInv
    <2>2. filename # NoFile => filename \in DOMAIN store'
      BY <1>1, <1>4
    <2>3. QED
      BY <1>1, <1>3, <1>4, <2>1, <2>2 DEF HandleInv
  <1>8. /\ unrecorded' \subseteq Files \X Ids
        /\ \A f \in Files \ {Target} : \A id \in Ids :
              <<f, id>> \in unrecorded => <<f, id>> \in unrecorded'
        /\ \A id \in DataIds(program, c) : <<Target, id>> \notin unrecorded' =>
              id \in DataIds(program, Contents) /\ <<Target, id>> \notin unrecorded
    BY <1>3, TrackFacts
  <1>9. ASSUME NEW f \in DOMAIN store', NEW id \in DataIds(program, store'[f]),
               <<f, id>> \notin unrecorded'
        PROVE  id <= store'[f].maxid
    <2>1. CASE f = Target
      <3>1. id \in DataIds(program, Contents) /\ <<Target, id>> \notin unrecorded
        BY <1>4, <1>8, <1>9, <2>1
      <3>2. ~Truncates
        BY <3>1, TargetFacts, EmptyFacts
      <3>3. Target \in DOMAIN store /\ Contents = store[Target]
        BY <3>2, TargetFacts
      <3>4. QED
        BY <1>4, <2>1, <3>1, <3>3 DEF IndInv, HeadersCover, HeaderCovers
    <2>2. CASE f # Target
      <3>1. f \in DOMAIN store /\ store'[f] = store[f] /\ f \in Files /\ id \in Ids
        BY <1>2, <1>4, <1>9, <2>2 DEF DataIds, Ids
      <3>2. <<f, id>> \notin unrecorded
        BY <1>8, <1>9, <2>2, <3>1
      <3>3. QED
        BY <1>9, <3>1, <3>2 DEF IndInv, HeadersCover, HeaderCovers
    <2>3. QED
      BY <2>1, <2>2
  <1>10. ClosedIsReset'
    BY <1>1, <1>3 DEF ClosedIsReset
  <1>11. DOMAIN store' \subseteq Files /\ \A f \in DOMAIN store' : Sound(program, store'[f])
    BY <1>1, <1>2, <1>3, <1>4, <1>6 DEF FilesSound
  <1>12. store'[Target'] = c
    BY <1>4, <1>5
  <1>13. QED
    BY <1>1, <1>2, <1>3, <1>5, <1>7, <1>8, <1>9, <1>10, <1>11, <1>12, Assemble

LEMMA LeaveOnlySession ==
    ASSUME IndInv, CanGet, NEW c, Leave(c), Writable \/ c = Contents
    PROVE  OnlySession
  <1>1. /\ DOMAIN store' = {Target} \union DOMAIN store
        /\ \A g \in DOMAIN store' : store'[g] = IF g = Target THEN c ELSE store[g]
    BY DEF Leave, Storing
  <1>2. Target \in {handle, filename}
    BY DEF Target
  <1>3. Truncates => Writable
    BY TargetFacts
  <1>4. ~Truncates => Contents = store[Target]
    BY TargetFacts
  <1>5. QED
    BY <1>1, <1>2, <1>3, <1>4 DEF OnlySession

LEMMA LeakFacts ==
    ASSUME IndInv, CanGet, NEW lost \in BOOLEAN, Leak(lost)
    PROVE  leakedRead' \subseteq Files /\ leakedWrite' \subseteq Files
  <1>1. leakedRead \subseteq Files /\ leakedWrite \subseteq Files /\ Target \in Files
    BY TargetFacts DEF IndInv, TypeOK
  <1>2. QED
    BY <1>1 DEF Leak, leaks

\* A call that gets no handle changes nothing but, when it writes, what is counted.
LEMMA NothingKeeps ==
    ASSUME IndInv, UNCHANGED <<session, store, unrecorded>>,
           UNCHANGED <<program, fileStatus, mpiTopology>>,
           leakedRead' \subseteq Files, leakedWrite' \subseteq Files,
           maxID' \in Ids \union {-1}, maxID' >= maxID, fileStatus = "CLOSED" => maxID' = maxID,
           uncounted' \subseteq uncounted, \A id \in uncounted \ uncounted' : id <= maxID',
           maxID' < 0 => uncounted' = uncounted
    PROVE  IndInv' /\ OnlySession
  <1>1. /\ filename' = filename /\ fileFlags' = fileFlags /\ created' = created
        /\ handle' = handle /\ store' = store /\ unrecorded' = unrecorded
        /\ program' = program /\ fileStatus' = fileStatus /\ mpiTopology' = mpiTopology
    BY DEF session
  <1>2. TypeOK /\ FilesSound /\ ClosedIsReset /\ HandleInv /\ MaxIDInv /\ HeadersCover
    BY DEF IndInv
  <1>3. /\ program \in Programs /\ Ids \subseteq Nat /\ maxID \in Int /\ maxID' \in Int
        /\ uncounted \subseteq Ids /\ uncounted' \subseteq Ids
    BY <1>2, SerialAssumption DEF TypeOK, Ids
  <1>4. /\ Target' = Target
        /\ Writable' <=> Writable
        /\ Truncates' <=> Truncates
    BY <1>1 DEF Target, Writable, Truncates
  <1>5. ASSUME Writable, Target # NoFile, ~Truncates,
               NEW id \in DataIds(program, store[Target]) \ uncounted'
        PROVE  id <= maxID'
    <2>1. CASE id \in uncounted
      BY <1>5, <2>1
    <2>2. CASE id \notin uncounted
      <3>1. id <= maxID
        BY <1>2, <1>5, <2>2 DEF MaxIDInv
      <3>2. id \in Int
        BY <1>3 DEF DataIds, Ids
      <3>3. QED
        BY <1>3, <3>1, <3>2
    <2>3. QED
      BY <2>1, <2>2
  <1>6. ASSUME Writable, Target # NoFile, maxID' < 0
        PROVE  uncounted' = Ids
    BY <1>2, <1>3, <1>6 DEF MaxIDInv
  <1>7. \A f \in DOMAIN store : \A id \in DataIds(program, store[f]) :
           <<f, id>> \notin unrecorded => id <= store[f].maxid
    BY <1>2 DEF HeadersCover, HeaderCovers
  <1>8. ClosedIsReset' /\ HandleInv'
    BY <1>1, <1>2 DEF ClosedIsReset, HandleInv
  <1>9. IndInv'
    BY <1>1, <1>2, <1>3, <1>4, <1>5, <1>6, <1>7, <1>8, Assemble DEF TypeOK, FilesSound
  <1>10. OnlySession
    BY <1>1 DEF OnlySession
  <1>11. QED
    BY <1>9, <1>10

\* A call whose results are files again, with new data only in iterations that the
\* highest one covers, keeps the invariant, whatever of it fails.
LEMMA PassesKeeps ==
    ASSUME IndInv, NEW results, NEW added \in SUBSET Ids, Passes(results, added),
           CanGet => AllBecome(Contents, results, added),
           \A id \in added : Writable /\ id <= maxID',
           uncounted' = uncounted \ added,
           maxID' \in Ids \union {-1}, maxID' >= maxID, fileStatus = "CLOSED" => maxID' = maxID,
           UNCHANGED <<program, fileStatus, mpiTopology>>,
           Writable \/ \A r \in results : r[1] = Contents
    PROVE  IndInv' /\ OnlySession
  <1>1. /\ Ids \subseteq Nat /\ maxID \in Int /\ maxID' \in Int
        /\ uncounted \subseteq Ids
        /\ leakedRead \subseteq Files /\ leakedWrite \subseteq Files
    BY SerialAssumption DEF Ids, IndInv, TypeOK
  <1>2. uncounted' \subseteq uncounted /\ \A id \in uncounted \ uncounted' : id <= maxID'
    OBVIOUS
  <1>3. maxID' < 0 => uncounted' = uncounted
    <2>1. SUFFICES ASSUME maxID' < 0 PROVE added = {}
      BY <1>1
    <2>2. SUFFICES ASSUME NEW id \in added PROVE FALSE
      OBVIOUS
    <2>3. id \in Nat /\ id <= maxID'
      BY <1>1
    <2>4. QED
      BY <1>1, <2>1, <2>3
  <1>4. CASE UNCHANGED <<session, store, leaks, unrecorded>>
    <2>1. leakedRead' \subseteq Files /\ leakedWrite' \subseteq Files
      BY <1>1, <1>4 DEF leaks
    <2>2. UNCHANGED <<session, store, unrecorded>>
      BY <1>4
    <2>3. QED
      BY <1>2, <1>3, <2>1, <2>2, NothingKeeps
  <1>5. ASSUME CanGet, NEW r \in results, Leave(r[1]), Leak(r[2]), Track(added)
        PROVE  IndInv' /\ OnlySession
    <2> DEFINE c == r[1]
    <2>1. Becomes(program, Contents, c, added) /\ r[2] \in BOOLEAN
      BY <1>5 DEF AllBecome
    <2>2. /\ Sound(program, c) /\ c.maxid = Contents.maxid
          /\ DataIds(program, c) \subseteq DataIds(program, Contents) \union added
      BY <2>1 DEF Becomes
    <2>3. leakedRead' \subseteq Files /\ leakedWrite' \subseteq Files
      BY <1>5, <2>1, LeakFacts
    <2>4. ASSUME Writable, NEW id \in DataIds(program, c) \ uncounted'
          PROVE  id <= maxID'
      <3>1. CASE id \in added
        BY <3>1
      <3>2. CASE id \notin added
        <4>1. id \in DataIds(program, Contents) \ uncounted
          BY <2>2, <2>4, <3>2
        <4>2. id <= maxID /\ id \in Int
          BY <1>1, <1>5, <2>4, <4>1, ContentsCovered DEF DataIds, Ids
        <4>3. QED
          BY <1>1, <4>2
      <3>3. QED
        BY <3>1, <3>2
    <2>5. ASSUME Writable, maxID' < 0
          PROVE  uncounted' = Ids
      <3>1. Target # NoFile
        BY <1>5, TargetFacts
      <3>2. uncounted = Ids
        BY <1>1, <2>5, <3>1 DEF IndInv, MaxIDInv
      <3>3. QED
        BY <1>3, <2>5, <3>2
    <2> HIDE DEF c
    <2>6. Leave(c)
      BY <1>5 DEF c
    <2>7. IndInv'
      BY <1>1, <1>2, <1>5, <2>2, <2>3, <2>4, <2>5, <2>6, LeaveKeeps
    <2>8. OnlySession
      BY <1>5, <2>6, LeaveOnlySession DEF c
    <2>9. QED
      BY <2>7, <2>8
  <1>6. QED
    BY <1>4, <1>5 DEF Passes


LEMMA CountIDFacts ==
    ASSUME IndInv, NEW id \in Ids, CountID(id)
    PROVE  maxID' \in Ids \union {-1} /\ maxID' >= maxID /\ id <= maxID'
  <1>1. Ids \subseteq Nat /\ maxID \in Ids \union {-1}
    BY SerialAssumption DEF IndInv, TypeOK, Ids
  <1>2. QED
    BY <1>1 DEF CountID

LEMMA SameMaxID ==
    ASSUME IndInv, maxID' = maxID
    PROVE  maxID' \in Ids \union {-1} /\ maxID' >= maxID
  <1>1. Ids \subseteq Nat /\ maxID \in Ids \union {-1}
    BY SerialAssumption DEF IndInv, TypeOK, Ids
  <1>2. QED
    BY <1>1

LEMMA WriteKeeps ==
    ASSUME IndInv, program' = program, NEW id \in Ids, NEW n \in Names,
           Write(id, n) \/ AppendData(id, n)
    PROVE  IndInv' /\ OnlySession
  <1>1. /\ Writable /\ CountID(id) /\ UNCHANGED <<program, fileStatus, mpiTopology>>
        /\ uncounted' = uncounted \ {id}
        /\ \/ Passes(WriteResults(Contents, id, n), {id})
           \/ Passes(AppendResults(Contents, id, n), {id})
    BY DEF Write, AppendData
  <1>2. maxID' \in Ids \union {-1} /\ maxID' >= maxID /\ id <= maxID'
    BY <1>1, CountIDFacts
  <1>3. fileStatus # "CLOSED" /\ {id} \in SUBSET Ids
    BY <1>1 DEF Writable
  <1>4. CanGet => /\ AllBecome(Contents, WriteResults(Contents, id, n), {id})
                  /\ AllBecome(Contents, AppendResults(Contents, id, n), {id})
    BY TargetFacts, WriteResultsFacts
  <1>5. CASE Passes(WriteResults(Contents, id, n), {id})
    <2> DEFINE results == WriteResults(Contents, id, n)
    <2>1. Passes(results, {id}) /\ (CanGet => AllBecome(Contents, results, {id}))
      BY <1>4, <1>5
    <2> HIDE DEF results
    <2>2. QED
      BY <1>1, <1>2, <1>3, <2>1, PassesKeeps
  <1>6. CASE Passes(AppendResults(Contents, id, n), {id})
    <2> DEFINE results == AppendResults(Contents, id, n)
    <2>1. Passes(results, {id}) /\ (CanGet => AllBecome(Contents, results, {id}))
      BY <1>4, <1>6
    <2> HIDE DEF results
    <2>2. QED
      BY <1>1, <1>2, <1>3, <2>1, PassesKeeps
  <1>7. QED
    BY <1>1, <1>5, <1>6

\* An operation that stores no data.
LEMMA OtherKeeps ==
    ASSUME IndInv, program' = program, NEW results, Through(results),
           CanGet => AllBecome(Contents, results, {}),
           Writable \/ \A r \in results : r[1] = Contents,
           UNCHANGED <<fileStatus, maxID, mpiTopology>>
    PROVE  IndInv' /\ OnlySession
  <1>1. maxID' \in Ids \union {-1} /\ maxID' >= maxID
    BY SameMaxID
  <1> DEFINE added == {}
  <1>2. /\ CanGet => AllBecome(Contents, results, added)
        /\ \A id \in added : Writable /\ id <= maxID'
        /\ Passes(results, added) /\ uncounted' = uncounted \ added
        /\ added \in SUBSET Ids
    BY DEF Through
  <1>3. UNCHANGED <<program, fileStatus, mpiTopology>>
    OBVIOUS
  <1> HIDE DEF added
  <1>4. QED
    BY <1>1, <1>2, <1>3, PassesKeeps

LEMMA ModifyKeeps ==
    ASSUME IndInv, program' = program, NEW id \in Ids, NEW n \in Names,
           \/ WriteAttribute(id, n) \/ RemoveDataset(id, n)
           \/ \E dst \in Ids, m \in Names : CreateReference(id, n, dst, m)
    PROVE  IndInv' /\ OnlySession
  <1>1. CanGet => program \in Programs /\ Sound(program, Contents)
    BY TargetFacts
  <1>2. CASE WriteAttribute(id, n)
    <2> DEFINE results == AttributeResults(Contents, id, n)
    <2>1. /\ Writable /\ Through(results) /\ UNCHANGED <<fileStatus, maxID, mpiTopology>>
          /\ CanGet => AllBecome(Contents, results, {})
      BY <1>1, <1>2, OtherResultsFacts DEF WriteAttribute
    <2> HIDE DEF results
    <2>2. QED
      BY <2>1, OtherKeeps
  <1>4. CASE RemoveDataset(id, n)
    <2> DEFINE results == {<<Put(Contents, id, n, "none"), FALSE>>}
    <2>1. /\ Writable /\ Through(results) /\ UNCHANGED <<fileStatus, maxID, mpiTopology>>
          /\ CanGet => AllBecome(Contents, results, {})
      BY <1>1, <1>4, OtherResultsFacts DEF RemoveDataset
    <2> HIDE DEF results
    <2>2. QED
      BY <2>1, OtherKeeps
  <1>5. ASSUME NEW dst \in Ids, NEW m \in Names, CreateReference(id, n, dst, m)
        PROVE  IndInv' /\ OnlySession
    <2> DEFINE results == ReferenceResults(Contents, id, n, dst, m)
    <2>1. /\ Writable /\ Through(results) /\ UNCHANGED <<fileStatus, maxID, mpiTopology>>
          /\ CanGet => AllBecome(Contents, results, {})
      BY <1>1, <1>5, ReferenceResultsFacts DEF CreateReference
    <2> HIDE DEF results
    <2>2. QED
      BY <2>1, OtherKeeps
  <1>6. QED
    BY <1>2, <1>4, <1>5

\* Readers leave what they find.
LEMMA ReadKeeps ==
    ASSUME IndInv, program' = program,
           \/ \E id \in Ids, n \in Names :
                 Read(id, n) \/ ReadMeta(id, n) \/ ReadMetaOfRank(id, n)
           \/ Look
    PROVE  IndInv' /\ OnlySession
  <1>1. ASSUME NEW results, CanGet, Through(results),
               \A r \in results : r[1] = Contents /\ r[2] \in BOOLEAN,
               UNCHANGED <<fileStatus, maxID, mpiTopology>>
        PROVE  IndInv' /\ OnlySession
    <2>1. Becomes(program, Contents, Contents, {})
      BY <1>1, TargetFacts, Unchanged
    <2>2. AllBecome(Contents, results, {})
      BY <1>1, <2>1 DEF AllBecome
    <2>3. QED
      BY <1>1, <2>2, OtherKeeps
  <1>2. ASSUME NEW id \in Ids, NEW n \in Names, Read(id, n)
        PROVE  IndInv' /\ OnlySession
    <2>1. CanGet /\ Through(ReadResults(Contents, id, n))
      BY <1>2 DEF Read
    <2>2. \A r \in ReadResults(Contents, id, n) : r[1] = Contents /\ r[2] \in BOOLEAN
      BY <2>1, TargetFacts, OtherResultsFacts
    <2>3. QED
      BY <1>1, <1>2, <2>1, <2>2 DEF Read
  <1>3. ASSUME NEW id \in Ids, NEW n \in Names, ReadMeta(id, n)
        PROVE  IndInv' /\ OnlySession
    <2>1. CanGet /\ Through(MetaResults(Contents, id, n))
      BY <1>3 DEF ReadMeta
    <2>2. \A r \in MetaResults(Contents, id, n) : r[1] = Contents /\ r[2] \in BOOLEAN
      BY <2>1, TargetFacts, OtherResultsFacts
    <2>3. QED
      BY <1>1, <1>3, <2>1, <2>2 DEF ReadMeta
  <1>4. CASE Look
    <2>1. \A r \in {<<Contents, FALSE>>} : r[1] = Contents /\ r[2] \in BOOLEAN
      BY PairFacts
    <2>2. QED
      BY <1>1, <1>4, <2>1 DEF Look
  <1>5. ASSUME NEW id \in Ids, NEW n \in Names, ReadMetaOfRank(id, n)
        PROVE  IndInv' /\ OnlySession
    <2>1. /\ UNCHANGED <<session, store, unrecorded>> /\ uncounted' = uncounted
          /\ UNCHANGED <<program, fileStatus, mpiTopology>>
          /\ maxID' = maxID /\ leakedWrite' = leakedWrite
          /\ MetaFile(id) \in DOMAIN store
          /\ leakedRead' = leakedRead \/ leakedRead' = leakedRead \union {MetaFile(id)}
      BY <1>5 DEF ReadMetaOfRank, covers
    <2>2. /\ leakedRead \subseteq Files /\ leakedWrite \subseteq Files
          /\ DOMAIN store \subseteq Files
      BY DEF IndInv, TypeOK
    <2>3. maxID' \in Ids \union {-1} /\ maxID' >= maxID
      BY <2>1, SameMaxID
    <2>4. QED
      BY <2>1, <2>2, <2>3, NothingKeeps
  <1>6. QED
    BY <1>2, <1>3, <1>4, <1>5

\* remove() of an iteration finds the highest iteration of those that stay, or
\* loses track of it.
LEMMA RemoveKeeps ==
    ASSUME IndInv, program' = program, NEW id \in Ids,
           RemoveIteration(id) \/ RemoveIterationUnlisted(id)
    PROVE  IndInv' /\ OnlySession
  <1> DEFINE c == Without(Contents, id)
  <1>1. /\ Writable /\ CanGet /\ Leave(c) /\ UNCHANGED <<program, fileStatus, mpiTopology>>
        /\ leakedRead' = leakedRead /\ leakedWrite' = leakedWrite
    BY DEF RemoveIteration, RemoveIterationUnlisted, leaks
  <1>2. program \in Programs /\ Sound(program, Contents) /\ Target \in Files
    BY <1>1, TargetFacts
  <1>3. Sound(program, c) /\ c.maxid = Contents.maxid
    BY <1>2, WithoutFacts DEF Becomes
  <1>4. leakedRead \subseteq Files /\ leakedWrite \subseteq Files
    BY DEF IndInv, TypeOK
  <1>5. Ids \subseteq Nat /\ 0 \in Ids
    BY <1>2, SerialAssumption DEF Ids
  <1>6. {} \in SUBSET Ids /\ Track({}) /\ Ids \subseteq Ids
        /\ DataIds(program, c) \subseteq DataIds(program, Contents) \union {}
    BY <1>2, WithoutFacts DEF Becomes, RemoveIteration, RemoveIterationUnlisted
  <1>7. CASE RemoveIteration(id)
    <2>1. maxID' = HighestEntry(c) /\ uncounted' = {}
      BY <1>7 DEF RemoveIteration
    <2> HIDE DEF c
    <2>2. maxID' \in Ids /\ \A i \in c.groups : i <= maxID'
      BY <1>2, <1>3, <2>1, HighestEntryFacts
    <2>3. \A i \in DataIds(program, c) \ uncounted' : i <= maxID'
      BY <1>3, <2>2, DataInGroups
    <2>4. ~(maxID' < 0) /\ uncounted' \subseteq Ids
      BY <1>5, <2>1, <2>2
    <2>5. IndInv'
      BY <1>1, <1>3, <1>4, <1>6, <2>2, <2>3, <2>4, LeaveKeeps
    <2>6. QED
      BY <1>1, <2>5, LeaveOnlySession
  <1>8. CASE RemoveIterationUnlisted(id)
    <2>1. maxID' = 0 /\ uncounted' = Ids
      BY <1>8 DEF RemoveIterationUnlisted
    <2>2. \A i \in DataIds(program, c) \ uncounted' : i <= maxID'
      BY <2>1 DEF DataIds, Ids
    <2> HIDE DEF c
    <2>3. IndInv'
      BY <1>1, <1>3, <1>4, <1>5, <1>6, <2>1, <2>2, LeaveKeeps
    <2>4. QED
      BY <1>1, <2>3, LeaveOnlySession
  <1>9. QED
    BY <1>7, <1>8


-----------------------------------------------------------------------------
(* open() *)

LEMMA CreateResultsFacts ==
    ASSUME program \in Programs, NEW size \in Sizes, NEW r \in CreateResults(size)
    PROVE  Sound(program, r[1]) /\ DataIds(program, r[1]) = {} /\ r[2] \in BOOLEAN
  <1> DEFINE some == {EmptyFile, Header(EmptyFile, 0), Header(EmptyFile, size)}
  <1>1. \E x \in some : r = <<x, FALSE>> \/ r = <<x, TRUE>> \/ r \in {x} \X BOOLEAN
    BY Zenon DEF CreateResults
  <1>2. \A x \in some : Sound(program, x) /\ DataIds(program, x) = {}
    BY EmptyFacts
  <1> HIDE DEF some
  <1>3. QED
    BY <1>1, <1>2, PairFacts, Zenon

\* A closed collector writes no file.
LEMMA ClosedFacts ==
    ASSUME IndInv, fileStatus = "CLOSED"
    PROVE  /\ program \in Programs /\ ~Writable /\ maxID = -1 /\ mpiTopology = 1
           /\ filename = NoFile /\ handle = NoFile /\ fileFlags = "RDONLY" /\ ~created
           /\ created = FALSE
  BY DEF IndInv, TypeOK, ClosedIsReset, Writable

\* What the types say of a program's numbers.
LEMMA ProgramFacts ==
    ASSUME IndInv
    PROVE  /\ program \in Programs
           /\ Ids \subseteq Nat /\ 0 \in Ids /\ Sizes \subseteq Nat \ {0} /\ 1 \in Sizes
           /\ maxID \in Int /\ NoFile \notin Files
           /\ DOMAIN store \subseteq Files
           /\ leakedRead \subseteq Files /\ leakedWrite \subseteq Files
           /\ uncounted \subseteq Ids /\ unrecorded \subseteq Files \X Ids
           /\ \A f \in DOMAIN store : Sound(program, store[f])
           /\ \A f \in DOMAIN store : \A id \in DataIds(program, store[f]) :
                 <<f, id>> \notin unrecorded => id <= store[f].maxid
  <1>1. TypeOK /\ FilesSound /\ HeadersCover
    BY DEF IndInv
  <1>2. program \in Programs
    BY <1>1 DEF TypeOK
  <1>3. Ids \subseteq Nat /\ 0 \in Ids /\ Sizes \subseteq Nat \ {0} /\ 1 \in Sizes
    BY <1>2, SerialAssumption DEF Ids, Sizes
  <1>4. \A f \in DOMAIN store : \A id \in DataIds(program, store[f]) :
           <<f, id>> \notin unrecorded => id <= store[f].maxid
    BY <1>1 DEF HeadersCover, HeaderCovers
  <1>5. QED
    BY <1>1, <1>2, <1>3, <1>4, FileNames DEF TypeOK, FilesSound

LEMMA CreateKeeps ==
    ASSUME IndInv, program' = program, fileStatus = "CLOSED", fileStatus' = "CREATING",
           NEW f \in Files, NEW size \in Sizes, CreateFile(f, size)
    PROVE  IndInv' /\ OnlySession
  <1>1. /\ filename' = f /\ fileFlags' = "TRUNC" /\ maxID' = 0 /\ mpiTopology' = size
        /\ uncounted' = uncounted
    BY DEF CreateFile, OpenSession
  <1>2. /\ f # NoFile /\ maxID' \in Ids \union {-1} /\ ~(maxID' < 0)
        /\ mpiTopology' \in Sizes \union {0}
    BY <1>1, ProgramFacts
  <1>3. ClosedIsReset'
    BY DEF ClosedIsReset
  <1>4. CASE UNCHANGED <<created, handle, store, leaks, unrecorded>>
    <2>1. /\ created' = FALSE /\ handle' = NoFile /\ store' = store
          /\ unrecorded' = unrecorded
          /\ leakedRead' = leakedRead /\ leakedWrite' = leakedWrite
      BY <1>4, ClosedFacts DEF leaks
    <2>2. HandleInv' /\ Truncates'
      BY <1>1, <1>2, <2>1 DEF HandleInv, Truncates
    <2>3. IndInv'
      BY <1>1, <1>2, <1>3, <2>1, <2>2, ProgramFacts, Assemble
    <2>4. QED
      BY <2>1, <2>3 DEF OnlySession
  <1>5. ASSUME created' = TRUE, handle' = f, unrecorded' = unrecorded \ Of(f, Ids),
               NEW r \in CreateResults(size), store' = Storing(f, r[1]),
               leakedWrite' = IF r[2] THEN leakedWrite \union {f} ELSE leakedWrite,
               leakedRead' = leakedRead
        PROVE  IndInv' /\ OnlySession
    <2>1. Sound(program, r[1]) /\ DataIds(program, r[1]) = {}
      BY ProgramFacts, CreateResultsFacts
    <2>2. /\ DOMAIN store' = {f} \union DOMAIN store
          /\ \A g \in DOMAIN store' : store'[g] = IF g = f THEN r[1] ELSE store[g]
      BY <1>5 DEF Storing
    <2>3. HandleInv' /\ Target' = f
      BY <1>1, <1>2, <1>5, <2>2 DEF HandleInv, Target
    <2>4. DataIds(program, store'[Target']) = {}
      BY <2>1, <2>2, <2>3
    <2>5. ASSUME NEW g \in DOMAIN store', NEW id \in DataIds(program, store'[g]),
                 <<g, id>> \notin unrecorded'
          PROVE  id <= store'[g].maxid
      <3>1. g # f
        BY <2>1, <2>2, <2>5
      <3>2. g \in DOMAIN store /\ store'[g] = store[g] /\ <<g, id>> \notin unrecorded
        BY <1>5, <2>2, <2>5, <3>1 DEF Of
      <3>3. QED
        BY <2>5, <3>2, ProgramFacts
    <2>6. DOMAIN store' \subseteq Files /\ \A g \in DOMAIN store' : Sound(program, store'[g])
      BY <2>1, <2>2, ProgramFacts
    <2>7. /\ leakedRead' \subseteq Files /\ leakedWrite' \subseteq Files
          /\ unrecorded' \subseteq Files \X Ids /\ uncounted' \subseteq Ids
      BY <1>1, <1>5, ProgramFacts
    <2>8. IndInv'
      BY <1>1, <1>2, <1>3, <1>5, <2>3, <2>4, <2>5, <2>6, <2>7, ProgramFacts, Assemble
    <2>9. OnlySession
      BY <1>5, <2>2 DEF OnlySession
    <2>10. QED
      BY <2>8, <2>9
  <1>6. \/ UNCHANGED <<created, handle, store, leaks, unrecorded>>
        \/ /\ created' = TRUE /\ handle' = f /\ unrecorded' = unrecorded \ Of(f, Ids)
           /\ leakedRead' = leakedRead
           /\ \E r \in CreateResults(size) :
                /\ store' = Storing(f, r[1])
                /\ leakedWrite' = IF r[2] THEN leakedWrite \union {f} ELSE leakedWrite
    BY DEF CreateFile
  <1>7. QED
    BY <1>4, <1>5, <1>6

\* A refused or failed open() leaves a collector without a session.
LEMMA NoSessionKeeps ==
    ASSUME IndInv, program' = program, fileStatus = "CLOSED",
           fileStatus' \in {"CREATING", "WRITING", "READING", "MERGING"},
           maxID' \in Ids \union {-1}, mpiTopology' \in Sizes \union {0},
           UNCHANGED <<session, store, covers>>,
           leakedRead' \subseteq Files, leakedWrite' \subseteq Files
    PROVE  IndInv' /\ OnlySession
  <1>1. /\ filename' = NoFile /\ fileFlags' = "RDONLY" /\ created' = FALSE
        /\ handle' = NoFile /\ store' = store
        /\ uncounted' = uncounted /\ unrecorded' = unrecorded
    BY ClosedFacts DEF session, covers
  <1>2. ClosedIsReset' /\ HandleInv' /\ Target' = NoFile
    BY <1>1 DEF ClosedIsReset, HandleInv, Target
  <1>3. IndInv'
    BY <1>1, <1>2, ProgramFacts, Assemble
  <1>4. QED
    BY <1>1, <1>3 DEF OnlySession

LEMMA RefuseKeeps ==
    ASSUME IndInv, program' = program, fileStatus = "CLOSED", RefuseFullName,
           fileStatus' \in {"CREATING", "WRITING", "READING", "MERGING"}
    PROVE  IndInv' /\ OnlySession
  <1>1. /\ maxID' \in Ids \union {-1} /\ mpiTopology' \in Sizes \union {0}
        /\ UNCHANGED <<session, store, covers>>
        /\ leakedRead' \subseteq Files /\ leakedWrite' \subseteq Files
    BY ProgramFacts DEF RefuseFullName, leaks, IndInv, TypeOK
  <1>2. QED
    BY <1>1, NoSessionKeeps

LEMMA OpenExistingKeeps ==
    ASSUME IndInv, program' = program, fileStatus = "CLOSED",
           fileStatus' \in {"WRITING", "READING", "MERGING"},
           NEW f \in DOMAIN store, NEW flags \in {"RDONLY", "RDWR"}, OpenExisting(f, flags)
    PROVE  IndInv' /\ OnlySession
  <1>1. /\ f \in Files /\ f # NoFile /\ Sound(program, store[f]) /\ program \in Programs
    BY ProgramFacts
  <1>2. /\ store[f].maxid \in Ids \union {-1, 0} /\ store[f].maxid \in Int
        /\ store[f].size \in Sizes \union {0}
    BY <1>1, SoundFacts DEF Sound, ContentOf, Sizes
  <1>3. CASE ReferenceData(f) /\ OpenSession(f, flags)
    <2>1. /\ maxID' = store[f].maxid /\ mpiTopology' = store[f].size
          /\ store[f].maxid >= 0
          /\ filename' = f /\ fileFlags' = flags
          /\ created' = FALSE /\ handle' = NoFile /\ store' = store
          /\ uncounted' = {id \in Ids : <<f, id>> \in unrecorded}
          /\ unrecorded' = unrecorded
          /\ leakedRead' = leakedRead /\ leakedWrite' = leakedWrite
      BY <1>3, ClosedFacts DEF ReferenceData, ReferenceComplete, OpenSession, leaks
    <2>2. /\ maxID' \in Ids \union {-1} /\ mpiTopology' \in Sizes \union {0}
          /\ ~(maxID' < 0) /\ uncounted' \subseteq Ids
      BY <1>2, <2>1, ProgramFacts
    <2>3. ClosedIsReset' /\ HandleInv' /\ Target' = f
      BY <1>1, <2>1 DEF ClosedIsReset, HandleInv, Target
    <2>4. \A id \in DataIds(program, store'[Target']) \ uncounted' : id <= maxID'
      <3>1. ASSUME NEW id \in DataIds(program, store[f]) \ uncounted' PROVE id <= maxID'
        <4>1. id \in Ids /\ <<f, id>> \notin unrecorded
          BY <2>1, <3>1 DEF DataIds, Ids
        <4>2. QED
          BY <2>1, <3>1, <4>1, ProgramFacts
      <3>2. QED
        BY <2>1, <2>3, <3>1
    <2>5. IndInv'
      BY <1>1, <2>1, <2>2, <2>3, <2>4, ProgramFacts, Assemble
    <2>6. QED
      BY <2>1, <2>5 DEF OnlySession
  <1>4. CASE ReferenceDataFails(f)
    <2>1. maxID' \in {maxID, store[f].maxid} /\ (maxID' = maxID \/ store[f].maxid >= 0)
      BY <1>4 DEF ReferenceDataFails
    <2>2. maxID' \in Ids \union {-1}
      BY <1>2, <2>1, ProgramFacts DEF IndInv, TypeOK
    <2>3. /\ mpiTopology' \in Sizes \union {0} /\ UNCHANGED <<session, store, covers>>
          /\ leakedRead' \subseteq Files /\ leakedWrite' \subseteq Files
      BY <1>1, <1>4, ProgramFacts DEF ReferenceDataFails, IndInv, TypeOK
    <2>4. QED
      BY <2>2, <2>3, NoSessionKeeps
  <1>5. QED
    BY <1>3, <1>4 DEF OpenExisting

LEMMA OpenKeeps ==
    ASSUME IndInv, program' = program,
           \/ \E size \in Sizes : \E pos \in 0..(size - 1) :
                 OpenCreate(pos, size) \/ OpenWrite(pos, size) \/ OpenRead(pos)
           \/ OpenMerge
    PROVE  IndInv' /\ OnlySession
  <1>1. ASSUME NEW size \in Sizes, NEW pos \in 0..(size - 1), OpenCreate(pos, size)
        PROVE  IndInv' /\ OnlySession
    <2>1. FullFilename(pos) \in Files
      BY ProgramFacts, FileNames
    <2>2. QED
      BY <1>1, <2>1, CreateKeeps, RefuseKeeps DEF OpenCreate
  <1>2. ASSUME NEW size \in Sizes, NEW pos \in 0..(size - 1), OpenWrite(pos, size)
        PROVE  IndInv' /\ OnlySession
    <2>1. FullFilename(pos) \in Files
      BY ProgramFacts, FileNames
    <2>2. QED
      BY <1>2, <2>1, CreateKeeps, RefuseKeeps, OpenExistingKeeps DEF OpenWrite
  <1>3. ASSUME NEW pos, OpenRead(pos)
        PROVE  IndInv' /\ OnlySession
    BY <1>3, OpenExistingKeeps DEF OpenRead
  <1>4. CASE OpenMerge
    BY <1>4, OpenExistingKeeps DEF OpenMerge
  <1>5. QED
    BY <1>1, <1>2, <1>3, <1>4


-----------------------------------------------------------------------------
(* close() and crashes *)

\* The header and the damage of a file are no matter of its tree.
LEMMA RecordFacts ==
    ASSUME program \in Programs, NEW c, Sound(program, c),
           NEW m \in Ids \union {-1, 0}, NEW b \in BOOLEAN
    PROVE  /\ Sound(program, [c EXCEPT !.maxid = m])
           /\ Sound(program, [c EXCEPT !.damaged = b])
           /\ [c EXCEPT !.maxid = m].maxid = m /\ [c EXCEPT !.damaged = b].maxid = c.maxid
           /\ DataIds(program, [c EXCEPT !.maxid = m]) = DataIds(program, c)
           /\ DataIds(program, [c EXCEPT !.damaged = b]) = DataIds(program, c)
           /\ [c EXCEPT !.damaged = c.damaged] = c /\ c.damaged \in BOOLEAN
  <1>1. c \in ContentOf(program) /\ Tree(program, c) /\ \E k \in Nat : \A id \in c.groups : id <= k
    BY DEF Sound
  <1>2. /\ [c EXCEPT !.maxid = m] \in ContentOf(program)
        /\ [c EXCEPT !.damaged = b] \in ContentOf(program)
        /\ [c EXCEPT !.maxid = m].maxid = m /\ [c EXCEPT !.damaged = b].maxid = c.maxid
        /\ [c EXCEPT !.damaged = c.damaged] = c /\ c.damaged \in BOOLEAN
    BY <1>1 DEF ContentOf, Ids
  <1>3. ASSUME NEW d, d.obj = c.obj, d.groups = c.groups
        PROVE  /\ Tree(program, d) /\ DataIds(program, d) = DataIds(program, c)
               /\ \E k \in Nat : \A id \in d.groups : id <= k
    BY <1>1, <1>3 DEF Tree, IsGroup, DataIds, Object
  <1>4. /\ [c EXCEPT !.maxid = m].obj = c.obj /\ [c EXCEPT !.maxid = m].groups = c.groups
        /\ [c EXCEPT !.damaged = b].obj = c.obj /\ [c EXCEPT !.damaged = b].groups = c.groups
    BY <1>1 DEF ContentOf
  <1>5. QED
    BY <1>2, <1>3, <1>4 DEF Sound

\* What RecordMaxID and CloseFails leave of the files.
LEMMA TargetStored ==
    ASSUME IndInv, CanGet, NEW c, Sound(program, c), store' = Storing(Target, c)
    PROVE  /\ DOMAIN store' = {Target} \union DOMAIN store
           /\ DOMAIN store' \subseteq Files
           /\ \A f \in DOMAIN store' : store'[f] = IF f = Target THEN c ELSE store[f]
           /\ \A f \in DOMAIN store' : Sound(program, store'[f])
  <1>1. /\ DOMAIN store' = {Target} \union DOMAIN store
        /\ \A f \in DOMAIN store' : store'[f] = IF f = Target THEN c ELSE store[f]
    BY DEF Storing
  <1>2. Target \in Files
    BY TargetFacts
  <1>3. QED
    BY <1>1, <1>2, ProgramFacts

\* What close() writes into the header, or leaves there, covers the file as before.
LEMMA WriteMaxIDFacts ==
    ASSUME IndInv, RecordsMaxID, WriteMaxID
    PROVE  /\ CanGet /\ Writable
           /\ DOMAIN store' = {Target} \union DOMAIN store /\ DOMAIN store' \subseteq Files
           /\ \A f \in DOMAIN store' : Sound(program, store'[f])
           /\ \A f \in DOMAIN store \ {Target} : store'[f] = store[f]
           /\ unrecorded' \subseteq Files \X Ids
           /\ \A f \in DOMAIN store' : \A id \in DataIds(program, store'[f]) :
                 <<f, id>> \notin unrecorded' => id <= store'[f].maxid
  <1>1. CanGet /\ Writable
    BY DEF WriteMaxID, RecordsMaxID
  <1>2. /\ program \in Programs /\ Sound(program, Contents) /\ Target \in Files
        /\ Contents.maxid \in Ids \union {-1, 0} /\ maxID \in Ids \union {-1, 0}
    BY <1>1, TargetFacts, SoundFacts DEF IndInv, TypeOK
  <1>3. ASSUME NEW m \in Ids \union {-1, 0}, NEW c,
               c = [Contents EXCEPT !.maxid = m] \/ (c = Contents /\ m = Contents.maxid)
        PROVE  /\ Sound(program, c) /\ c.maxid = m
               /\ DataIds(program, c) = DataIds(program, Contents)
    <2>1. CASE c = [Contents EXCEPT !.maxid = m]
      <3>1. TRUE \in BOOLEAN
        OBVIOUS
      <3>2. /\ Sound(program, [Contents EXCEPT !.maxid = m])
            /\ [Contents EXCEPT !.maxid = m].maxid = m
            /\ DataIds(program, [Contents EXCEPT !.maxid = m]) = DataIds(program, Contents)
        BY ONLY <1>2, <1>3, <3>1, RecordFacts
      <3>3. QED
        BY ONLY <2>1, <3>2
    <2>2. CASE c = Contents /\ m = Contents.maxid
      BY ONLY <1>2, <2>2
    <2>3. QED
      BY <1>3, <2>1, <2>2
  <1>4. ASSUME NEW c, Sound(program, c), store' = Storing(Target, c),
               unrecorded' \subseteq Files \X Ids,
               \A f \in Files \ {Target} : \A id \in Ids :
                  <<f, id>> \in unrecorded => <<f, id>> \in unrecorded',
               \A id \in DataIds(program, c) : <<Target, id>> \notin unrecorded' => id <= c.maxid
        PROVE  /\ DOMAIN store' = {Target} \union DOMAIN store /\ DOMAIN store' \subseteq Files
               /\ \A f \in DOMAIN store' : Sound(program, store'[f])
               /\ \A f \in DOMAIN store \ {Target} : store'[f] = store[f]
               /\ \A f \in DOMAIN store' : \A id \in DataIds(program, store'[f]) :
                     <<f, id>> \notin unrecorded' => id <= store'[f].maxid
    <2>1. /\ DOMAIN store' = {Target} \union DOMAIN store /\ DOMAIN store' \subseteq Files
          /\ \A f \in DOMAIN store' : store'[f] = IF f = Target THEN c ELSE store[f]
          /\ \A f \in DOMAIN store' : Sound(program, store'[f])
      BY <1>1, <1>4, TargetStored
    <2>2. ASSUME NEW f \in DOMAIN store', NEW id \in DataIds(program, store'[f]),
                 <<f, id>> \notin unrecorded'
          PROVE  id <= store'[f].maxid
      <3>1. CASE f = Target
        BY <1>4, <2>1, <2>2, <3>1
      <3>2. CASE f # Target
        <4>1. f \in DOMAIN store /\ store'[f] = store[f] /\ f \in Files /\ id \in Ids
          BY <2>1, <2>2, <3>2 DEF DataIds, Ids
        <4>2. <<f, id>> \notin unrecorded
          BY <1>4, <2>2, <3>2, <4>1
        <4>3. QED
          BY <2>2, <4>1, <4>2, ProgramFacts
      <3>3. QED
        BY <3>1, <3>2
    <2>3. QED
      BY <2>1, <2>2
  <1>5. CASE /\ store' = Storing(Target, [Contents EXCEPT !.maxid = maxID])
             /\ unrecorded' = (unrecorded \ Of(Target, Ids)) \union Of(Target, uncounted)
    <2> DEFINE c == [Contents EXCEPT !.maxid = maxID]
    <2>1. /\ Sound(program, c) /\ c.maxid = maxID
          /\ DataIds(program, c) = DataIds(program, Contents)
      BY <1>2, <1>3
    <2>2. store' = Storing(Target, c)
      BY <1>5
    <2> HIDE DEF c
    <2>3. unrecorded' \subseteq Files \X Ids
      BY <1>2, <1>5, ProgramFacts DEF Of
    <2>4. \A f \in Files \ {Target} : \A id \in Ids :
            <<f, id>> \in unrecorded => <<f, id>> \in unrecorded'
      BY <1>5 DEF Of
    <2>5. ASSUME NEW id \in DataIds(program, c), <<Target, id>> \notin unrecorded'
          PROVE  id <= c.maxid
      <3>1. id \in DataIds(program, Contents) \ uncounted
        BY <1>5, <2>1, <2>5 DEF Of
      <3>2. QED
        BY <1>1, <2>1, <3>1, ContentsCovered
    <2>6. QED
      BY <1>1, <1>4, <2>1, <2>2, <2>3, <2>4, <2>5
  <1>6. ASSUME NEW m \in Ids \union {-1, 0}, NEW c, store' = Storing(Target, c), Track({}),
               c = [Contents EXCEPT !.maxid = m] \/ (c = Contents /\ m = Contents.maxid),
               m = Contents.maxid \/ Contents.maxid = -1
        PROVE  /\ DOMAIN store' = {Target} \union DOMAIN store /\ DOMAIN store' \subseteq Files
               /\ \A f \in DOMAIN store' : Sound(program, store'[f])
               /\ \A f \in DOMAIN store \ {Target} : store'[f] = store[f]
               /\ unrecorded' \subseteq Files \X Ids
               /\ \A f \in DOMAIN store' : \A id \in DataIds(program, store'[f]) :
                     <<f, id>> \notin unrecorded' => id <= store'[f].maxid
    <2>1. /\ Sound(program, c) /\ c.maxid = m
          /\ DataIds(program, c) = DataIds(program, Contents)
      BY <1>3, <1>6
    <2>2. {} \in SUBSET Ids /\ DataIds(program, c) \subseteq DataIds(program, Contents) \union {}
      BY <2>1
    <2>3. /\ unrecorded' \subseteq Files \X Ids
          /\ \A f \in Files \ {Target} : \A id \in Ids :
                <<f, id>> \in unrecorded => <<f, id>> \in unrecorded'
          /\ \A id \in DataIds(program, c) : <<Target, id>> \notin unrecorded' =>
                id \in DataIds(program, Contents) /\ <<Target, id>> \notin unrecorded
      BY <1>1, <1>6, <2>1, <2>2, TrackFacts
    <2>4. ASSUME NEW id \in DataIds(program, c), <<Target, id>> \notin unrecorded'
          PROVE  id <= c.maxid
      <3>1. id \in DataIds(program, Contents) /\ <<Target, id>> \notin unrecorded
        BY <2>3, <2>4
      <3>2. ~Truncates
        BY <1>1, <3>1, TargetFacts, EmptyFacts
      <3>3. Target \in DOMAIN store /\ Contents = store[Target]
        BY <1>1, <3>2, TargetFacts
      <3>4. id <= Contents.maxid /\ id \in Nat
        BY <3>1, <3>3, ProgramFacts DEF DataIds, Ids
      <3>5. QED
        BY <1>6, <2>1, <3>4
    <2>5. QED
      BY <1>4, <1>6, <2>1, <2>3, <2>4
  <1>7. \/ /\ store' = Storing(Target, [Contents EXCEPT !.maxid = maxID])
           /\ unrecorded' = (unrecorded \ Of(Target, Ids)) \union Of(Target, uncounted)
        \/ /\ store' = Storing(Target, [Contents EXCEPT !.maxid = 0]) /\ Track({})
           /\ Contents.maxid = -1
        \/ store' = Storing(Target, Contents) /\ Track({})
    BY DEF WriteMaxID
  <1>8. CASE /\ store' = Storing(Target, [Contents EXCEPT !.maxid = 0]) /\ Track({})
             /\ Contents.maxid = -1
    BY <1>1, <1>6, <1>8
  <1>9. CASE store' = Storing(Target, Contents) /\ Track({})
    BY <1>1, <1>2, <1>6, <1>9
  <1>10. QED
    BY <1>1, <1>5, <1>7, <1>8, <1>9

\* What RecordMaxID leaves is sound, and every file is covered by its header.
LEMMA RecordMaxIDFacts ==
    ASSUME IndInv, RecordMaxID
    PROVE  /\ DOMAIN store' \subseteq Files /\ unrecorded' \subseteq Files \X Ids
           /\ \A f \in DOMAIN store' : Sound(program, store'[f])
           /\ \A f \in DOMAIN store' : \A id \in DataIds(program, store'[f]) :
                 <<f, id>> \notin unrecorded' => id <= store'[f].maxid
           /\ \A f \in DOMAIN store : store'[f] # store[f] =>
                 Writable /\ f \in {handle, filename}
  <1>1. CASE UNCHANGED <<store, unrecorded>>
    BY <1>1, ProgramFacts
  <1>2. CASE RecordsMaxID /\ WriteMaxID
    BY <1>2, WriteMaxIDFacts DEF Target
  <1>3. CASE /\ ~RecordsMaxID /\ Writable /\ store' = store
             /\ unrecorded' = unrecorded \ Of(Target, Ids \ uncounted)
    <2>1. maxID < 0
      BY <1>3, ProgramFacts DEF RecordsMaxID
    <2>2. Target = NoFile \/ Ids \ uncounted = {}
      BY <1>3, <2>1 DEF IndInv, MaxIDInv
    <2>3. \A f \in DOMAIN store : \A id :
            <<f, id>> \notin unrecorded' => <<f, id>> \notin unrecorded
      BY <1>3, <2>2, ProgramFacts DEF Of
    <2>4. QED
      BY <1>3, <2>3, ProgramFacts
  <1>4. QED
    BY <1>1, <1>2, <1>3 DEF RecordMaxID

LEMMA CloseKeeps ==
    ASSUME IndInv, program' = program, Close
    PROVE  IndInv' /\ OnlySession
  <1>1. /\ RecordMaxID /\ fileStatus' = "CLOSED"
        /\ maxID' = -1 /\ mpiTopology' = 1 /\ uncounted' = {}
        /\ filename' = NoFile /\ fileFlags' = "RDONLY" /\ created' = FALSE /\ handle' = NoFile
        /\ leakedRead' = leakedRead /\ leakedWrite' = leakedWrite
    BY DEF Close, ResetSession, leaks
  <1>2. /\ DOMAIN store' \subseteq Files /\ unrecorded' \subseteq Files \X Ids
        /\ \A f \in DOMAIN store' : Sound(program, store'[f])
        /\ \A f \in DOMAIN store' : \A id \in DataIds(program, store'[f]) :
              <<f, id>> \notin unrecorded' => id <= store'[f].maxid
        /\ \A f \in DOMAIN store : store'[f] # store[f] =>
              Writable /\ f \in {handle, filename}
    BY <1>1, RecordMaxIDFacts
  <1>3. ClosedIsReset' /\ HandleInv' /\ ~Writable'
    BY <1>1 DEF ClosedIsReset, HandleInv, Writable
  <1>4. IndInv'
    BY <1>1, <1>2, <1>3, ProgramFacts, Assemble
  <1>5. OnlySession
    BY <1>2 DEF OnlySession
  <1>6. QED
    BY <1>4, <1>5

LEMMA CloseFailsKeeps ==
    ASSUME IndInv, program' = program, CloseFails
    PROVE  IndInv' /\ OnlySession
  <1>1. /\ fileStatus # "CLOSED" /\ fileStatus' = fileStatus
        /\ maxID' = -1 /\ mpiTopology' = 1
        /\ filename' = NoFile /\ fileFlags' = "RDONLY" /\ created' = FALSE
        /\ leakedRead' = leakedRead /\ leakedWrite' = leakedWrite
        /\ uncounted' = IF Writable THEN Ids ELSE {}
    BY DEF CloseFails, ResetSession, leaks
  <1>2. /\ CanGet /\ handle' = Target
        /\ Target \in DOMAIN store' /\ DOMAIN store' \subseteq Files
        /\ DOMAIN store \subseteq DOMAIN store'
        /\ \A f \in DOMAIN store' : Sound(program, store'[f])
        /\ \A f \in DOMAIN store \ {Target} : store'[f] = store[f]
        /\ ~Writable => store' = store
        /\ unrecorded' \subseteq Files \X Ids
        /\ \A f \in DOMAIN store' : \A id \in DataIds(program, store'[f]) :
              <<f, id>> \notin unrecorded' => id <= store'[f].maxid
    <2>1. CASE RecordsMaxID
      <3>1. WriteMaxID /\ handle' = Target
        BY <2>1 DEF CloseFails
      <3>2. QED
        BY <2>1, <3>1, WriteMaxIDFacts
    <2>2. CASE ~RecordsMaxID
      <3>1. handle # NoFile /\ handle' = handle /\ store' = store /\ unrecorded' = unrecorded
        BY <2>2 DEF CloseFails
      <3>2. CanGet /\ Target = handle /\ handle \in DOMAIN store
        BY <3>1 DEF CanGet, Target, IndInv, HandleInv
      <3>3. QED
        BY <3>1, <3>2, ProgramFacts
    <2>3. QED
      BY <2>1, <2>2
  <1>3. Target \in Files /\ Target # NoFile /\ Target \in {handle, filename}
    BY <1>2, TargetFacts DEF Target
  <1>4. (Writable' <=> Writable) /\ HandleInv' /\ ClosedIsReset'
    BY <1>1, <1>2, <1>3 DEF Writable, HandleInv, ClosedIsReset
  <1>5. Target' = Target
    BY <1>2, <1>3 DEF Target
  <1>6. Writable => \A id \in DataIds(program, store'[Target']) \ uncounted' : id <= maxID'
    BY <1>1 DEF DataIds, Ids
  <1>7. /\ maxID' \in Ids \union {-1} /\ mpiTopology' \in Sizes \union {0}
        /\ fileStatus' \in {"CLOSED", "CREATING", "WRITING", "READING", "MERGING"}
        /\ uncounted' \subseteq Ids
    BY <1>1, ProgramFacts DEF IndInv, TypeOK
  <1>8. IndInv'
    BY <1>1, <1>2, <1>3, <1>4, <1>6, <1>7, ProgramFacts, Assemble
  <1>9. OnlySession
    BY <1>2, <1>3 DEF OnlySession
  <1>10. QED
    BY <1>8, <1>9

LEMMA CrashKeeps ==
    ASSUME IndInv, program' = program, Crash
    PROVE  IndInv' /\ OnlySession
  <1> DEFINE held == IF Writable THEN {handle} \ {NoFile} ELSE {}
             stayed == leakedWrite \union IF filename = NoFile THEN held ELSE {}
  <1>1. /\ fileStatus' = "CLOSED" /\ maxID' = -1 /\ mpiTopology' = 1
        /\ filename' = NoFile /\ fileFlags' = "RDONLY" /\ created' = FALSE /\ handle' = NoFile
        /\ leakedRead' = {} /\ leakedWrite' = {} /\ uncounted' = {}
        /\ unrecorded' = unrecorded \union
                            {p \in stayed \X Ids : HasData(store[p[1]], p[2])}
    BY DEF Crash
  <1>2. PICK bad \in SUBSET (leakedWrite \union held) :
          store' = [f \in DOMAIN store |-> [store[f] EXCEPT !.damaged = @ \/ f \in bad]]
    BY DEF Crash
  <1>3. /\ DOMAIN store' = DOMAIN store
        /\ \A f \in DOMAIN store :
              store'[f] = [store[f] EXCEPT !.damaged = store[f].damaged \/ f \in bad]
    BY <1>2
  <1>4. unrecorded \subseteq unrecorded' /\ unrecorded' \subseteq Files \X Ids
    <2>1. held \subseteq Files /\ stayed \subseteq Files
      BY ProgramFacts DEF IndInv, TypeOK
    <2>2. QED
      BY <1>1, <2>1, ProgramFacts
  <1> HIDE DEF held, stayed
  <1>5. ASSUME NEW f \in DOMAIN store
        PROVE  /\ Sound(program, store'[f]) /\ store'[f].maxid = store[f].maxid
               /\ DataIds(program, store'[f]) = DataIds(program, store[f])
               /\ store'[f] = store[f] \/ store'[f] = [store[f] EXCEPT !.damaged = TRUE]
    <2>1. program \in Programs /\ Sound(program, store[f]) /\ 0 \in Ids \union {-1, 0}
      BY ProgramFacts
    <2>2. CASE store[f].damaged \/ f \in bad
      <3>1. (store[f].damaged \/ f \in bad) = TRUE
        BY <2>2
      <3>2. store'[f] = [store[f] EXCEPT !.damaged = TRUE]
        BY <1>3, <3>1
      <3>3. QED
        BY <2>1, <3>2, RecordFacts
    <2>3. CASE ~(store[f].damaged \/ f \in bad)
      <3>1. store[f].damaged \in BOOLEAN
        BY <2>1, RecordFacts
      <3>2. (store[f].damaged \/ f \in bad) = store[f].damaged
        BY <2>3, <3>1
      <3>3. [store[f] EXCEPT !.damaged = store[f].damaged] = store[f]
        BY <2>1, RecordFacts
      <3>4. store'[f] = [store[f] EXCEPT !.damaged = store[f].damaged]
        BY <1>3, <3>2
      <3>5. QED
        BY <2>1, <3>3, <3>4
    <2>4. QED
      BY <2>2, <2>3
  <1>6. ClosedIsReset' /\ HandleInv' /\ ~Writable'
    BY <1>1 DEF ClosedIsReset, HandleInv, Writable
  <1>7. \A f \in DOMAIN store' : \A id \in DataIds(program, store'[f]) :
          <<f, id>> \notin unrecorded' => id <= store'[f].maxid
    BY <1>3, <1>4, <1>5, ProgramFacts
  <1>8. IndInv'
    BY <1>1, <1>3, <1>4, <1>5, <1>6, <1>7, ProgramFacts, Assemble
  <1>9. OnlySession
    BY <1>5 DEF OnlySession
  <1>10. QED
    BY <1>8, <1>9


-----------------------------------------------------------------------------
(* Theorems *)

LEMMA InitIndInv ==
    ASSUME Init
    PROVE  IndInv
  <1>1. /\ program \in Programs /\ store = << >> /\ fileStatus = "CLOSED"
        /\ maxID = -1 /\ mpiTopology = 1
        /\ filename = NoFile /\ fileFlags = "RDONLY" /\ created = FALSE /\ handle = NoFile
        /\ leakedRead = {} /\ leakedWrite = {} /\ uncounted = {} /\ unrecorded = {}
    BY DEF Init
  <1>2. DOMAIN store = {}
    BY <1>1
  <1>3. 1 \in Sizes
    BY <1>1, SerialAssumption DEF Sizes
  <1>4. TypeOK
    BY <1>1, <1>2, <1>3 DEF TypeOK
  <1>5. FilesSound /\ HeadersCover
    BY <1>2 DEF FilesSound, HeadersCover
  <1>6. ClosedIsReset /\ HandleInv /\ MaxIDInv
    BY <1>1 DEF ClosedIsReset, HandleInv, MaxIDInv, Writable
  <1>7. QED
    BY <1>4, <1>5, <1>6 DEF IndInv

LEMMA NextKeeps ==
    ASSUME IndInv, Next
    PROVE  IndInv' /\ OnlySession
  <1>1. program' = program
    BY DEF Next
  <1>2. CASE \/ \E size \in Sizes : \E pos \in 0..(size - 1) :
                  OpenCreate(pos, size) \/ OpenWrite(pos, size) \/ OpenRead(pos)
             \/ OpenMerge
    BY <1>1, <1>2, OpenKeeps
  <1>3. CASE Close
    BY <1>1, <1>3, CloseKeeps
  <1>4. CASE CloseFails
    BY <1>1, <1>4, CloseFailsKeeps
  <1>5. ASSUME NEW id \in Ids, NEW n \in Names, Write(id, n) \/ AppendData(id, n)
        PROVE  IndInv' /\ OnlySession
    BY <1>1, <1>5, WriteKeeps
  <1>6. ASSUME NEW id \in Ids, NEW n \in Names,
               \/ WriteAttribute(id, n) \/ RemoveDataset(id, n)
               \/ \E dst \in Ids, m \in Names : CreateReference(id, n, dst, m)
        PROVE  IndInv' /\ OnlySession
    BY <1>1, <1>6, ModifyKeeps
  <1>7. CASE \/ \E id \in Ids, n \in Names :
                  Read(id, n) \/ ReadMeta(id, n) \/ ReadMetaOfRank(id, n)
             \/ Look
    BY <1>1, <1>7, ReadKeeps
  <1>8. ASSUME NEW id \in Ids, WriteGroupAttribute(id)
        PROVE  IndInv' /\ OnlySession
    <2> DEFINE results == GroupFails(Contents, id, <<>>)
    <2>1. /\ Writable /\ Through(results) /\ UNCHANGED <<fileStatus, maxID, mpiTopology>>
      BY <1>8 DEF WriteGroupAttribute
    <2>2. CanGet => AllBecome(Contents, results, {})
      BY TargetFacts, GroupFailsFacts DEF Paths
    <2> HIDE DEF results
    <2>3. QED
      BY <1>1, <2>1, <2>2, OtherKeeps
  <1>9. ASSUME NEW id \in Ids, RemoveIteration(id) \/ RemoveIterationUnlisted(id)
        PROVE  IndInv' /\ OnlySession
    BY <1>1, <1>9, RemoveKeeps
  <1>10. CASE Crash
    BY <1>1, <1>10, CrashKeeps
  <1>11. QED
    BY <1>2, <1>3, <1>4, <1>5, <1>6, <1>7, <1>8, <1>9, <1>10 DEF Next

LEMMA StutterKeeps ==
    ASSUME IndInv, UNCHANGED vars
    PROVE  IndInv' /\ OnlySession
  <1>1. /\ UNCHANGED <<session, store, unrecorded>> /\ uncounted' = uncounted
        /\ UNCHANGED <<program, fileStatus, mpiTopology>> /\ maxID' = maxID
        /\ leakedRead' = leakedRead /\ leakedWrite' = leakedWrite
    BY DEF vars, leaks, covers
  <1>2. /\ maxID' \in Ids \union {-1} /\ maxID' >= maxID
        /\ leakedRead' \subseteq Files /\ leakedWrite' \subseteq Files
    BY <1>1, SameMaxID DEF IndInv, TypeOK
  <1>3. QED
    BY <1>1, <1>2, NothingKeeps

\* The invariant holds of every sequence of sessions, whatever calls fail and
\* whenever the process crashes.
THEOREM Invariance == Spec => []IndInv
  <1>1. Init => IndInv
    BY InitIndInv
  <1>2. IndInv /\ [Next]_vars => IndInv'
    BY NextKeeps, StutterKeeps
  <1>3. QED
    BY <1>1, <1>2, PTL DEF Spec

\* Every variable keeps its type, and every file its format.
THEOREM TypeCorrect == Spec => []TypeOK
  <1>1. IndInv => TypeOK
    BY DEF IndInv
  <1>2. QED
    BY <1>1, Invariance, PTL

\* The highest iteration is never below one with data: in the header, apart from what
\* has not been recorded yet, and in getMaxID() while the file is written, apart
\* from what a failure lost count of. What crashes, removals that cannot list the
\* rest and failed calls of close() may hide is only that.
THEOREM HighestCovers == Spec => []MaxIDCovers
  <1>1. IndInv => MaxIDCovers
    <2>1. SUFFICES ASSUME IndInv, NEW f \in DOMAIN store, NEW id \in Ids,
                          HasData(store[f], id)
                   PROVE  /\ <<f, id>> \notin unrecorded => id <= store[f].maxid
                          /\ Writable /\ f = handle /\ id \notin uncounted => id <= maxID
      BY DEF MaxIDCovers
    <2>2. id \in DataIds(program, store[f])
      BY <2>1 DEF DataIds, HasData, Ids, Names
    <2>3. <<f, id>> \notin unrecorded => id <= store[f].maxid
      BY <2>1, <2>2, ProgramFacts
    <2>4. ASSUME Writable, f = handle, id \notin uncounted
          PROVE  id <= maxID
      <3>1. f # NoFile
        BY <2>1, ProgramFacts
      <3>2. Target = f /\ Target # NoFile /\ ~Truncates
        BY <2>4, <3>1 DEF Target, Truncates
      <3>3. QED
        BY <2>1, <2>2, <2>4, <3>2 DEF IndInv, MaxIDInv
    <2>5. QED
      BY <2>3, <2>4
  <1>2. QED
    BY <1>1, Invariance, PTL

\* Every stored dataset and reference is among the entries of its iteration.
THEOREM StoredListed == Spec => []StoredIsListed
  <1>1. IndInv => StoredIsListed
    <2>1. SUFFICES ASSUME IndInv, NEW f \in DOMAIN store, NEW id \in Ids, NEW n \in Names,
                          IsDataset(store[f], id, n)
                   PROVE  n \in Entries(store[f], id)
      BY DEF StoredIsListed
    <2>2. Tree(program, store[f])
      BY <2>1 DEF IndInv, FilesSound, Sound
    <2>3. IsGroup(store[f], id, Dir(n))
      BY <2>1, <2>2 DEF Tree, IsDataset, Ids, Names
    <2>4. QED
      BY <2>1, <2>3 DEF Entries, IsDataset
  <1>2. QED
    BY <1>1, Invariance, PTL

\* A closed collector holds nothing of an earlier session.
THEOREM ClosedReset == Spec => []ClosedIsReset
  <1>1. IndInv => ClosedIsReset
    BY DEF IndInv
  <1>2. QED
    BY <1>1, Invariance, PTL

\* Only the file of a session for writing is changed, also by calls that fail.
THEOREM OnlySessionFile == Spec => OnlySessionFileChanges
  <1>1. IndInv /\ [Next]_vars => OnlySession
    BY NextKeeps, StutterKeeps
  <1>2. IndInv /\ [Next]_vars =>
          [\A f \in DOMAIN store :
             store'[f] # store[f] =>
                 \/ /\ Writable \/ fileStatus' = "CREATING"
                    /\ f \in {handle, filename, handle'}
                 \/ store'[f] = [store[f] EXCEPT !.damaged = TRUE]]_vars
    BY <1>1 DEF OnlySession
  <1>3. QED
    BY <1>2, Invariance, PTL DEF Spec, OnlySessionFileChanges
=============================================================================
