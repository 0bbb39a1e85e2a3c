------------------------ MODULE AttributeInfoProofs -------------------------
(***************************************************************************)
(* Proofs about AttributeInfo: the reference counts of the attribute ids    *)
(* are right, the file is released in time, and what an object has loaded   *)
(* is about the attribute it is on, for any number of objects, ids and      *)
(* attributes.                                                              *)
(***************************************************************************)
EXTENDS AttributeInfo, FiniteSetTheorems, SequenceTheorems, TLAPS

-----------------------------------------------------------------------------
(* Which variables hold an id, in a state f of the program's variables *)

States == [Infos -> Object \union {None}]

\* None for an object without an id and for no object.
HeldIn(f, s) == IF f[s] = None THEN None ELSE f[s].attr

HoldersIn(f, id) == {s \in Infos : HeldIn(f, s) = id}

One(a, b) == IF a = b THEN 1 ELSE 0

\* The members of an object are of their types, and no object is None.
LEMMA ObjectFacts ==
    ASSUME NEW o \in Object
    PROVE  /\ o # None
           /\ o.attr \in AttrIds \union {None}
           /\ o.type \in Attributes \union {None}
           /\ o.space \in Attributes \union {None}
           /\ o.nDims \in (0..MaxDims) \union {None}
  BY NoneAssumption DEF Object

\* The constructors of AttributeInfo make objects that have loaded nothing.
LEMMA NewInfoFacts ==
    ASSUME NEW id \in AttrIds \union {None}
    PROVE  /\ NewInfo(id) \in Object
           /\ NewInfo(id).attr = id
           /\ NewInfo(id).type = None /\ NewInfo(id).space = None
  BY DEF NewInfo, Object

\* HoldersIn is Holders of the module, and what is held is an id or None.
LEMMA HoldersFacts ==
    ASSUME info \in States, NEW id \in AttrIds
    PROVE  Holders(id) = HoldersIn(info, id)
  BY ConstantsAssumption DEF Holders, HoldersIn, HeldIn, Objects

LEMMA HeldType ==
    ASSUME NEW f \in States, NEW s \in Infos
    PROVE  HeldIn(f, s) \in AttrIds \union {None}
  BY ObjectFacts DEF States, HeldIn

LEMMA HoldersFinite ==
    ASSUME NEW f, NEW id
    PROVE  IsFiniteSet(HoldersIn(f, id)) /\ Cardinality(HoldersIn(f, id)) \in Nat
  <1>1. HoldersIn(f, id) \in SUBSET Infos
    BY DEF HoldersIn
  <1>2. IsFiniteSet(HoldersIn(f, id))
    BY <1>1, FS_Subset, ConstantsAssumption
  <1>3. QED
    BY <1>2, FS_CardinalityType

\* When one variable changes, the holders of an id change by that variable.
LEMMA HoldersChange ==
    ASSUME NEW f \in States, NEW g \in States, NEW t \in Infos, NEW id \in AttrIds,
           \A s \in Infos \ {t} : g[s] = f[s]
    PROVE  /\ Cardinality(HoldersIn(g, id)) =
                Cardinality(HoldersIn(f, id)) + One(HeldIn(g, t), id)
                                              - One(HeldIn(f, t), id)
           /\ HoldersIn(f, id) \ {t} = HoldersIn(g, id) \ {t}
  <1>1. \A s \in Infos \ {t} : HeldIn(g, s) = HeldIn(f, s)
    BY DEF HeldIn
  <1>2. HoldersIn(f, id) \ {t} = HoldersIn(g, id) \ {t}
    BY <1>1 DEF HoldersIn
  <1>3. /\ IsFiniteSet(HoldersIn(f, id)) /\ Cardinality(HoldersIn(f, id)) \in Nat
        /\ IsFiniteSet(HoldersIn(g, id)) /\ Cardinality(HoldersIn(g, id)) \in Nat
    BY HoldersFinite
  <1>4. /\ t \in HoldersIn(f, id) <=> HeldIn(f, t) = id
        /\ t \in HoldersIn(g, id) <=> HeldIn(g, t) = id
    BY DEF HoldersIn
  <1>5. Cardinality(HoldersIn(f, id) \ {t}) =
          IF t \in HoldersIn(f, id) THEN Cardinality(HoldersIn(f, id)) - 1
          ELSE Cardinality(HoldersIn(f, id))
    BY <1>3, FS_RemoveElement
  <1>6. Cardinality(HoldersIn(g, id) \ {t}) =
          IF t \in HoldersIn(g, id) THEN Cardinality(HoldersIn(g, id)) - 1
          ELSE Cardinality(HoldersIn(g, id))
    BY <1>3, FS_RemoveElement
  <1>7. Cardinality(HoldersIn(f, id) \ {t}) = Cardinality(HoldersIn(g, id) \ {t})
    BY <1>2
  <1>8. Cardinality(HoldersIn(g, id)) =
          Cardinality(HoldersIn(f, id)) + One(HeldIn(g, t), id) - One(HeldIn(f, t), id)
    BY <1>3, <1>4, <1>5, <1>6, <1>7 DEF One
  <1>9. QED
    BY <1>2, <1>8

\* What RefCounted::copy() and release() do to the counts.
LEMMA SharedDropped ==
    ASSUME NEW ct \in [AttrIds -> Int], NEW x \in AttrIds \union {None}
    PROVE  /\ Shared(ct, x) \in [AttrIds -> Int]
           /\ \A id \in AttrIds : Shared(ct, x)[id] = ct[id] + One(x, id)
           /\ Dropped(ct, x) \in [AttrIds -> Int]
           /\ \A id \in AttrIds : Dropped(ct, x)[id] = ct[id] - One(x, id)
  <1>1. CASE x = None
    BY <1>1, ConstantsAssumption DEF Shared, Dropped, One
  <1>2. CASE x # None
    BY <1>2 DEF Shared, Dropped, One
  <1>3. QED
    BY <1>1, <1>2

-----------------------------------------------------------------------------
(* Dataspaces *)

Spaces == {NullSpace} \union {Dataspace(g) : g \in Given}

\* A dataspace has at most DSP_DIM_MAX dimensions; one a collector made is not
\* H5S_NULL, and has the number of dimensions given, or is the scalar one.
LEMMA DataspaceFacts ==
    ASSUME NEW g \in Given
    PROVE  /\ g.ndims \in 1..3 /\ g.dims \in [1..3 -> Nat]
           /\ LET n == Len(Dataspace(g).extents) IN
                \/ /\ Dataspace(g).class = "SCALAR" /\ n = 0
                   /\ g.ndims = 1 /\ g.dims[1] * g.dims[2] * g.dims[3] = 1
                \/ /\ Dataspace(g).class = "SIMPLE" /\ n = g.ndims
                   /\ \A k \in 1..n : Dataspace(g).extents[k] =
                                         SwapDims(g.dims, g.ndims)[k]
  <1>1. g.ndims \in 1..3 /\ g.dims \in [1..3 -> Nat]
    BY ConstantsAssumption DEF MaxDims
  <1>2. SwapDims(g.dims, g.ndims) \in [1..3 -> Nat]
    BY <1>1 DEF SwapDims
  <1>3. g.ndims = 1 => SwapDims(g.dims, g.ndims) = g.dims
    BY <1>1 DEF SwapDims
  <1>4. CASE /\ g.ndims = 1
             /\ LET d == SwapDims(g.dims, g.ndims) IN d[1] * d[2] * d[3] = 1
    <2>1. Dataspace(g) = [class |-> "SCALAR", extents |-> <<>>]
      BY <1>4 DEF Dataspace
    <2>2. QED
      BY <1>1, <1>3, <1>4, <2>1
  <1>5. CASE ~(/\ g.ndims = 1
               /\ LET d == SwapDims(g.dims, g.ndims) IN d[1] * d[2] * d[3] = 1)
    <2> DEFINE d == SwapDims(g.dims, g.ndims)
    <2>1. Dataspace(g) = [class |-> "SIMPLE", extents |-> SubSeq(d, 1, g.ndims)]
      BY <1>5 DEF Dataspace
    <2>2. /\ Len(SubSeq(d, 1, g.ndims)) = g.ndims
          /\ \A k \in 1..g.ndims : SubSeq(d, 1, g.ndims)[k] = d[k]
      <3>1. \A k \in 1..g.ndims : d[k] \in Nat
        BY <1>1, <1>2
      <3>2. QED
        BY <1>1, <3>1, SubSeqProperties
    <2>3. QED
      BY <1>1, <2>1, <2>2
  <1>6. QED
    BY <1>1, <1>4, <1>5

\* The size of one value is 1 in the first dimension too.
LEMMA ProductOne ==
    ASSUME NEW a \in Nat, NEW b \in Nat, NEW c \in Nat, a * b * c = 1
    PROVE  a = 1
  OBVIOUS
-----------------------------------------------------------------------------
(* The inductive invariant *)

BasicTypes ==
    /\ fileStatus \in {"FST_CLOSED", "FST_CREATING", "FST_WRITING", "FST_READING"}
    /\ library \in {"NONE", "RDONLY", "RDWR"}
    /\ attrs \in [AttrIds -> Attributes \union {None}]
    /\ refCt \in [AttrIds -> Nat]
    /\ info \in States

\* The file has what was given to writeAttribute(), or what another program wrote.
StoredAsGiven ==
    /\ stored \in [Attributes -> Spaces \union {None}]
    /\ given \in [Attributes -> Given \union {None}]
    /\ \A a \in Attributes :
          given[a] # None => stored[a] = Dataspace(given[a])
    /\ \A id \in AttrIds : attrs[id] # None => stored[attrs[id]] # None

\* An object that has loaded the dataspace of an attribute of a collector knows
\* its number of dimensions.
SpaceKnown ==
    \A s \in Objects :
        info[s].space # None /\ given[info[s].space] # None =>
            info[s].nDims = Len(Dataspace(given[info[s].space]).extents)

IndInv ==
    /\ BasicTypes /\ StoredAsGiven
    /\ CountedAndOpen /\ FileReleased /\ LoadedBelongs /\ SpaceKnown

\* Nothing is held without an open attribute.
LEMMA HeldIsOpen ==
    ASSUME BasicTypes, CountedAndOpen
    PROVE  /\ \A id \in AttrIds : attrs[id] # None <=> HoldersIn(info, id) # {}
           /\ \A id \in AttrIds : refCt[id] = Cardinality(HoldersIn(info, id))
           /\ \A id \in AttrIds : refCt[id] = 0 <=> attrs[id] = None
  <1>1. /\ \A id \in AttrIds : attrs[id] # None <=> HoldersIn(info, id) # {}
        /\ \A id \in AttrIds : refCt[id] = Cardinality(HoldersIn(info, id))
    BY HoldersFacts DEF BasicTypes, CountedAndOpen
  <1>2. \A id \in AttrIds : Cardinality(HoldersIn(info, id)) = 0
                               <=> HoldersIn(info, id) = {}
    BY HoldersFinite, FS_EmptySet
  <1>3. QED
    BY <1>1, <1>2

\* CountedAndOpen and FileReleased, in terms of HoldersIn.
Counted ==
    \A id \in AttrIds :
        /\ refCt[id] = Cardinality(HoldersIn(info, id))
        /\ attrs[id] # None <=> HoldersIn(info, id) # {}

Released ==
    library = "NONE" <=>
        /\ fileStatus = "FST_CLOSED"
        /\ \A id \in AttrIds : HoldersIn(info, id) = {}

LEMMA CountedFacts == BasicTypes => (CountedAndOpen <=> Counted)
  BY HoldersFacts DEF BasicTypes, CountedAndOpen, Counted

LEMMA ReleasedFacts == BasicTypes => (FileReleased <=> Released)
  <1> SUFFICES ASSUME BasicTypes PROVE FileReleased <=> Released
    OBVIOUS
  <1>1. (\A s \in Objects : info[s].attr = None)
          <=> \A id \in AttrIds : HoldersIn(info, id) = {}
    <2>1. \A s \in Infos : HeldIn(info, s) \in AttrIds \union {None}
      BY HeldType DEF BasicTypes
    <2>2. (\A s \in Objects : info[s].attr = None)
            <=> \A s \in Infos : HeldIn(info, s) = None
      BY DEF Objects, HeldIn
    <2>3. QED
      BY <2>1, <2>2, ConstantsAssumption DEF HoldersIn
  <1>2. QED
    BY <1>1 DEF FileReleased, Released

LEMMA FactsPrimed ==
    BasicTypes' => (CountedAndOpen' <=> Counted') /\ (FileReleased' <=> Released')
  BY CountedFacts, ReleasedFacts, PTL

LEMMA InitIndInv == Init => IndInv
  <1> SUFFICES ASSUME Init PROVE IndInv
    OBVIOUS
  <1>1. BasicTypes
    BY DEF Init, BasicTypes, States
  <1>2. Objects = {}
    BY DEF Init, Objects
  <1>3. StoredAsGiven
    BY DEF Init, StoredAsGiven, Spaces
  <1>4. \A id \in AttrIds : Holders(id) = {}
    BY <1>2 DEF Holders
  <1>5. CountedAndOpen
    BY <1>4, FS_EmptySet DEF Init, CountedAndOpen
  <1>6. FileReleased /\ LoadedBelongs /\ SpaceKnown
    BY <1>2 DEF Init, FileReleased, LoadedBelongs, SpaceKnown
  <1>7. QED
    BY <1>1, <1>3, <1>5, <1>6 DEF IndInv

-----------------------------------------------------------------------------
(* Steps *)

\* An assignment, a copy, a close or a destruction: one variable t changes, the
\* count follows it, and what t holds afterwards somebody held before.
LEMMA SettleStep ==
    ASSUME IndInv, NEW t \in Infos, NEW ct \in [AttrIds -> Int], Settle(ct),
           info' \in States,
           \A s \in Infos \ {t} : info'[s] = info[s],
           info'[t] # None => info'[t].type = None /\ info'[t].space = None,
           \A id \in AttrIds : HeldIn(info', t) = id => HoldersIn(info, id) # {},
           \A id \in AttrIds :
              ct[id] = refCt[id] + One(HeldIn(info', t), id) - One(HeldIn(info, t), id)
    PROVE  IndInv'
  <1>1. /\ refCt' = ct
        /\ attrs' = [id \in AttrIds |->
                      IF refCt[id] > 0 /\ ct[id] = 0 THEN None ELSE attrs[id]]
        /\ library' = IF fileStatus = "FST_CLOSED"
                         /\ \A id \in AttrIds : attrs'[id] = None
                      THEN "NONE" ELSE library
        /\ UNCHANGED <<fileStatus, stored, given>>
    BY DEF Settle, fileVars
  <1>2. info \in States /\ BasicTypes /\ CountedAndOpen
    BY DEF IndInv, BasicTypes
  <1>3. \A id \in AttrIds :
          /\ Cardinality(HoldersIn(info', id)) = ct[id]
          /\ Cardinality(HoldersIn(info', id)) \in Nat
          /\ ct[id] = 0 <=> HoldersIn(info', id) = {}
    <2> SUFFICES ASSUME NEW id \in AttrIds
                 PROVE  /\ Cardinality(HoldersIn(info', id)) = ct[id]
                        /\ Cardinality(HoldersIn(info', id)) \in Nat
                        /\ ct[id] = 0 <=> HoldersIn(info', id) = {}
      OBVIOUS
    <2>1. Cardinality(HoldersIn(info', id)) = ct[id]
      BY <1>2, HoldersChange, HeldIsOpen
    <2>2. QED
      BY <2>1, HoldersFinite, FS_EmptySet
  <1>4. \A id \in AttrIds : HoldersIn(info', id) # {} => HoldersIn(info, id) # {}
    <2>1. \A id \in AttrIds : HoldersIn(info, id) \ {t} = HoldersIn(info', id) \ {t}
      BY <1>2, HoldersChange
    <2>2. QED
      BY <2>1 DEF HoldersIn
  <1>5. \A id \in AttrIds : attrs'[id] # None <=> HoldersIn(info', id) # {}
    <2> SUFFICES ASSUME NEW id \in AttrIds
                 PROVE  attrs'[id] # None <=> HoldersIn(info', id) # {}
      OBVIOUS
    <2>1. /\ refCt[id] \in Nat /\ (refCt[id] = 0 <=> attrs[id] = None)
          /\ attrs[id] # None <=> HoldersIn(info, id) # {}
      BY <1>2, HeldIsOpen DEF BasicTypes
    <2>2. CASE ct[id] = 0
      BY <1>1, <1>3, <2>1, <2>2
    <2>3. CASE ct[id] # 0
      BY <1>1, <1>3, <1>4, <2>1, <2>3
    <2>4. QED
      BY <2>2, <2>3
  <1>6. BasicTypes'
    <2>1. refCt' \in [AttrIds -> Nat]
      BY <1>1, <1>3
    <2>2. attrs' \in [AttrIds -> Attributes \union {None}]
      BY <1>1, <1>2 DEF BasicTypes
    <2>3. QED
      BY <1>1, <1>2, <2>1, <2>2 DEF BasicTypes
  <1>7. CountedAndOpen'
    BY <1>1, <1>3, <1>5, <1>6, FactsPrimed DEF Counted
  <1>8. \A id \in AttrIds : HoldersIn(info', id) # {} => attrs'[id] = attrs[id]
    BY <1>1, <1>3
  <1>9. FileReleased'
    <2>1. library = "NONE" <=>
            /\ fileStatus = "FST_CLOSED"
            /\ \A id \in AttrIds : HoldersIn(info, id) = {}
      BY <1>2, ReleasedFacts DEF IndInv, Released
    <2>2. library' = "NONE" <=>
            /\ fileStatus' = "FST_CLOSED"
            /\ \A id \in AttrIds : HoldersIn(info', id) = {}
      BY <1>1, <1>4, <1>5, <2>1
    <2>3. QED
      BY <1>6, <2>2, FactsPrimed DEF Released
  <1>10. StoredAsGiven'
    <2>1. \A id \in AttrIds : attrs'[id] # None => attrs'[id] = attrs[id]
      BY <1>1
    <2>2. QED
      BY <1>1, <2>1 DEF IndInv, StoredAsGiven
  <1>11. LoadedBelongs'
    <2> SUFFICES ASSUME NEW s \in Infos, info'[s] # None,
                        NEW a \in {info'[s].type, info'[s].space}, a # None
                 PROVE  info'[s].attr # None /\ attrs'[info'[s].attr] = a
      BY DEF LoadedBelongs, Objects
    <2>1. s # t /\ info'[s] = info[s]
      OBVIOUS
    <2>2. info[s].attr # None /\ attrs[info[s].attr] = a
      BY <2>1 DEF IndInv, LoadedBelongs, Objects
    <2>3. info[s].attr \in AttrIds
      BY <1>2, <2>1, <2>2, ObjectFacts DEF States
    <2>4. s \in HoldersIn(info', info[s].attr)
      BY <2>1 DEF HoldersIn, HeldIn
    <2>5. QED
      BY <1>8, <2>1, <2>2, <2>3, <2>4
  <1>12. SpaceKnown'
    BY <1>1 DEF IndInv, SpaceKnown, Objects
  <1>13. QED
    BY <1>6, <1>7, <1>9, <1>10, <1>11, <1>12 DEF IndInv

\* Copying an object to a free variable, assigning, closing and destroying.
LEMMA CopyStep ==
    ASSUME IndInv, NEW s \in Objects, NEW t \in Free, Copy(s, t)
    PROVE  IndInv'
  <1> DEFINE y == info[s].attr
  <1>1. /\ info \in States /\ refCt \in [AttrIds -> Nat]
        /\ s \in Infos /\ info[s] \in Object
        /\ t \in Infos /\ info[t] = None
    BY DEF IndInv, BasicTypes, States, Objects, Free
  <1>2. y \in AttrIds \union {None}
    BY <1>1, ObjectFacts
  <1>3. info' = [info EXCEPT ![t] = NewInfo(y)] /\ Settle(Shared(refCt, y))
    BY DEF Copy
  <1>4. info'[t] = NewInfo(y) /\ info' \in States
    BY <1>1, <1>2, <1>3, NewInfoFacts DEF States
  <1>5. HeldIn(info', t) = y /\ HeldIn(info, t) = None
    BY <1>1, <1>2, <1>4, NewInfoFacts, ObjectFacts DEF HeldIn
  <1>6. /\ Shared(refCt, y) \in [AttrIds -> Int]
        /\ \A id \in AttrIds : Shared(refCt, y)[id] = refCt[id] + One(y, id)
    <2>1. refCt \in [AttrIds -> Int]
      BY <1>1
    <2>2. QED
      BY <1>2, <2>1, SharedDropped
  <1>7. \A id \in AttrIds : One(None, id) = 0 /\ One(y, id) \in Nat
    BY ConstantsAssumption DEF One
  <1>8. \A id \in AttrIds : y = id => HoldersIn(info, id) # {}
    BY <1>1, ObjectFacts DEF HoldersIn, HeldIn
  <1>9. \A id \in AttrIds : Shared(refCt, y)[id] =
          refCt[id] + One(HeldIn(info', t), id) - One(HeldIn(info, t), id)
    BY <1>1, <1>5, <1>6, <1>7
  <1>10. \A k \in Infos \ {t} : info'[k] = info[k]
    BY <1>1, <1>3 DEF States
  <1>11. info'[t].type = None /\ info'[t].space = None
    BY <1>2, <1>4, NewInfoFacts
  <1>12. QED
    BY <1>1, <1>3, <1>4, <1>5, <1>6, <1>8, <1>9, <1>10, <1>11, SettleStep

LEMMA AssignStep ==
    ASSUME IndInv, NEW t \in Objects, NEW s \in Objects, Assign(t, s)
    PROVE  IndInv'
  <1> DEFINE x == info[t].attr
             y == info[s].attr
             ct == Dropped(Shared(refCt, y), x)
  <1>1. /\ info \in States /\ refCt \in [AttrIds -> Nat]
        /\ s \in Infos /\ info[s] \in Object /\ info[s] # None
        /\ t \in Infos /\ info[t] \in Object /\ info[t] # None
    BY DEF IndInv, BasicTypes, States, Objects
  <1>2. x \in AttrIds \union {None} /\ y \in AttrIds \union {None}
    BY <1>1, ObjectFacts
  <1>3. /\ info' = [info EXCEPT ![t].attr = y, ![t].type = None, ![t].space = None]
        /\ Settle(ct)
    BY DEF Assign
  <1>4. /\ info'[t].attr = y /\ info'[t].type = None /\ info'[t].space = None
        /\ info'[t] \in Object
        /\ \A k \in Infos \ {t} : info'[k] = info[k]
        /\ info' \in States
    <2>1. info'[t] = [info[t] EXCEPT !.attr = y, !.type = None, !.space = None]
      BY <1>1, <1>3 DEF States
    <2>2. info'[t] \in Object
      BY <1>1, <1>2, <2>1 DEF Object
    <2>3. info'[t].attr = y /\ info'[t].type = None /\ info'[t].space = None
      BY <1>1, <2>1 DEF Object
    <2>4. QED
      BY <1>1, <1>3, <2>1, <2>2, <2>3 DEF States
  <1>5. HeldIn(info', t) = y /\ HeldIn(info, t) = x
    BY <1>1, <1>4, ObjectFacts DEF HeldIn
  <1>6. /\ ct \in [AttrIds -> Int]
        /\ \A id \in AttrIds : ct[id] = refCt[id] + One(y, id) - One(x, id)
    <2>1. /\ Shared(refCt, y) \in [AttrIds -> Int]
          /\ \A id \in AttrIds : Shared(refCt, y)[id] = refCt[id] + One(y, id)
      <3>1. refCt \in [AttrIds -> Int]
        BY <1>1
      <3>2. QED
        BY <1>2, <3>1, SharedDropped
    <2>2. /\ ct \in [AttrIds -> Int]
          /\ \A id \in AttrIds : ct[id] = Shared(refCt, y)[id] - One(x, id)
      BY <1>2, <2>1, SharedDropped
    <2>3. \A id \in AttrIds : One(x, id) \in Nat /\ One(y, id) \in Nat
      BY DEF One
    <2>4. QED
      BY <1>1, <2>1, <2>2, <2>3
  <1>7. \A id \in AttrIds : y = id => HoldersIn(info, id) # {}
    BY <1>1 DEF HoldersIn, HeldIn
  <1>8. QED
    BY <1>1, <1>3, <1>4, <1>5, <1>6, <1>7, SettleStep

LEMMA CloseStep ==
    ASSUME IndInv, NEW t \in Objects, Close(t) \/ Destroy(t)
    PROVE  IndInv'
  <1> DEFINE x == info[t].attr
             ct == Dropped(refCt, x)
  <1>1. /\ info \in States /\ refCt \in [AttrIds -> Nat]
        /\ t \in Infos /\ info[t] \in Object /\ info[t] # None
    BY DEF IndInv, BasicTypes, States, Objects
  <1>2. x \in AttrIds \union {None}
    BY <1>1, ObjectFacts
  <1>3. PICK o \in {None, NewInfo(None)} :
          info' = [info EXCEPT ![t] = o] /\ Settle(ct)
    BY DEF Close, Destroy
  <1>4. /\ info'[t] = o /\ info' \in States
        /\ \A k \in Infos \ {t} : info'[k] = info[k]
    BY <1>1, <1>3, NewInfoFacts DEF States
  <1>5. HeldIn(info', t) = None /\ HeldIn(info, t) = x
    BY <1>1, <1>4, NewInfoFacts DEF HeldIn
  <1>6. /\ ct \in [AttrIds -> Int]
        /\ \A id \in AttrIds : ct[id] = refCt[id] - One(x, id)
    <2>1. refCt \in [AttrIds -> Int]
      BY <1>1
    <2>2. QED
      BY <1>2, <2>1, SharedDropped
  <1>7. \A id \in AttrIds : One(None, id) = 0 /\ One(x, id) \in Nat
    BY ConstantsAssumption DEF One
  <1>8. \A id \in AttrIds :
          ct[id] = refCt[id] + One(HeldIn(info', t), id) - One(HeldIn(info, t), id)
    BY <1>1, <1>5, <1>6, <1>7
  <1>9. \A id \in AttrIds : HeldIn(info', t) # id
    BY <1>5, ConstantsAssumption
  <1>10. info'[t] # None => info'[t].type = None /\ info'[t].space = None
    BY <1>4, NewInfoFacts
  <1>11. QED
    BY <1>1, <1>3, <1>4, <1>6, <1>8, <1>9, <1>10, SettleStep

\* When every id keeps its number of holders, and nothing of the library or of the
\* collector changes, counts and release stay right.
LEMMA SameHolders ==
    ASSUME IndInv, BasicTypes', UNCHANGED <<fileStatus, library, attrs, refCt>>,
           \A id \in AttrIds :
              Cardinality(HoldersIn(info', id)) = Cardinality(HoldersIn(info, id))
    PROVE  CountedAndOpen' /\ FileReleased'
  <1>1. Counted /\ Released
    BY CountedFacts, ReleasedFacts DEF IndInv
  <1>2. \A id \in AttrIds : HoldersIn(info', id) = {} <=> HoldersIn(info, id) = {}
    BY HoldersFinite, FS_EmptySet
  <1>3. Counted' /\ Released'
    BY <1>1, <1>2 DEF Counted, Released
  <1>4. QED
    BY <1>3, FactsPrimed

LEMMA SwapStep ==
    ASSUME IndInv, NEW s \in Objects, NEW t \in Objects, SwapInfos(s, t)
    PROVE  IndInv'
  <1>1. /\ info \in States /\ s \in Infos /\ t \in Infos /\ s # t
        /\ info[s] # None /\ info[t] # None
    BY DEF IndInv, BasicTypes, Objects, SwapInfos
  <1>2. /\ info' = [info EXCEPT ![s] = info[t], ![t] = info[s]]
        /\ UNCHANGED <<collector, fileStatus, stored, given, library, attrs, refCt>>
    BY DEF SwapInfos, fileVars
  <1>3. PICK g \in States : /\ g[s] = info[t] /\ g[t] = info[t]
                            /\ \A k \in Infos \ {s} : g[k] = info[k]
    <2>1. [info EXCEPT ![s] = info[t]] \in States
      BY <1>1 DEF States
    <2>2. QED
      BY <1>1, <2>1 DEF States
  <1>4. /\ info' \in States /\ info'[s] = info[t] /\ info'[t] = info[s]
        /\ \A k \in Infos \ {s, t} : info'[k] = info[k]
    BY <1>1, <1>2 DEF States
  <1>5. \A k \in Infos \ {t} : info'[k] = g[k]
    BY <1>1, <1>3, <1>4
  <1>6. BasicTypes'
    BY <1>2, <1>4 DEF IndInv, BasicTypes
  <1>7. \A id \in AttrIds :
          Cardinality(HoldersIn(info', id)) = Cardinality(HoldersIn(info, id))
    <2> SUFFICES ASSUME NEW id \in AttrIds
                 PROVE  Cardinality(HoldersIn(info', id)) =
                          Cardinality(HoldersIn(info, id))
      OBVIOUS
    <2>1. Cardinality(HoldersIn(g, id)) = Cardinality(HoldersIn(info, id))
            + One(HeldIn(g, s), id) - One(HeldIn(info, s), id)
      BY <1>1, <1>3, HoldersChange
    <2>2. Cardinality(HoldersIn(info', id)) = Cardinality(HoldersIn(g, id))
            + One(HeldIn(info', t), id) - One(HeldIn(g, t), id)
      BY <1>1, <1>3, <1>4, <1>5, HoldersChange
    <2>3. /\ HeldIn(g, s) = HeldIn(g, t)
          /\ HeldIn(info', t) = HeldIn(info, s)
      BY <1>3, <1>4 DEF HeldIn
    <2>4. /\ One(HeldIn(g, t), id) \in Nat /\ One(HeldIn(info, s), id) \in Nat
          /\ Cardinality(HoldersIn(info, id)) \in Nat
      BY HoldersFinite DEF One
    <2>5. QED
      BY <2>1, <2>2, <2>3, <2>4
  <1>8. CountedAndOpen' /\ FileReleased'
    BY <1>2, <1>6, <1>7, SameHolders
  <1>9. StoredAsGiven'
    BY <1>2 DEF IndInv, StoredAsGiven
  <1>10. \A k \in Objects' : \E j \in Objects : info'[k] = info[j]
    BY <1>1, <1>4 DEF Objects
  <1>11. LoadedBelongs'
    <2> SUFFICES ASSUME NEW k \in Objects', NEW a \in {info'[k].type, info'[k].space},
                        a # None
                 PROVE  info'[k].attr # None /\ attrs'[info'[k].attr] = a
      BY DEF LoadedBelongs
    <2>1. PICK j \in Objects : info'[k] = info[j]
      BY <1>10
    <2>2. QED
      BY <1>2, <2>1 DEF IndInv, LoadedBelongs
  <1>12. SpaceKnown'
    BY <1>2, <1>10, ZenonT(40) DEF IndInv, SpaceKnown
  <1>13. QED
    BY <1>6, <1>8, <1>9, <1>11, <1>12 DEF IndInv

\* readAttributeInfo(): the new id has one holder, the others keep theirs.
LEMMA OpenStep ==
    ASSUME IndInv, NEW s \in Free, NEW a \in Attributes, fileStatus # "FST_CLOSED",
           OpenAttribute(s, a)
    PROVE  IndInv'
  <1>1. PICK id \in AttrIds :
          /\ attrs[id] = None
          /\ attrs' = [attrs EXCEPT ![id] = a]
          /\ refCt' = [refCt EXCEPT ![id] = 1]
          /\ info' = [info EXCEPT ![s] = NewInfo(id)]
    BY DEF OpenAttribute
  <1>2. /\ stored[a] # None
        /\ UNCHANGED <<collector, fileStatus, stored, given, library>>
    BY DEF OpenAttribute, fileVars
  <1>3. BasicTypes /\ Counted /\ Released /\ CountedAndOpen
    BY CountedFacts, ReleasedFacts DEF IndInv
  <1>4. /\ info \in States /\ s \in Infos /\ info[s] = None
        /\ a # None /\ id # None
    BY <1>3, ConstantsAssumption DEF BasicTypes, Free, Objects
  <1>5. /\ info' \in States /\ info'[s] = NewInfo(id)
        /\ \A k \in Infos \ {s} : info'[k] = info[k]
    BY <1>1, <1>4, NewInfoFacts DEF States
  <1>6. HeldIn(info', s) = id /\ HeldIn(info, s) = None
    BY <1>4, <1>5, NewInfoFacts, ObjectFacts DEF HeldIn
  <1>7. BasicTypes'
    BY <1>1, <1>2, <1>3, <1>5 DEF BasicTypes
  <1>8. HoldersIn(info, id) = {} /\ Cardinality(HoldersIn(info, id)) = 0
    BY <1>1, <1>3, FS_EmptySet DEF Counted
  <1>9. \A k \in AttrIds :
          /\ refCt'[k] = Cardinality(HoldersIn(info', k))
          /\ attrs'[k] # None <=> HoldersIn(info', k) # {}
    <2> SUFFICES ASSUME NEW k \in AttrIds
                 PROVE  /\ refCt'[k] = Cardinality(HoldersIn(info', k))
                        /\ attrs'[k] # None <=> HoldersIn(info', k) # {}
      OBVIOUS
    <2>1. /\ Cardinality(HoldersIn(info', k)) = Cardinality(HoldersIn(info, k))
               + One(id, k) - One(None, k)
          /\ Cardinality(HoldersIn(info, k)) \in Nat
          /\ HoldersIn(info', k) = {} <=> Cardinality(HoldersIn(info', k)) = 0
          /\ HoldersIn(info, k) = {} <=> Cardinality(HoldersIn(info, k)) = 0
      BY <1>4, <1>5, <1>6, HoldersChange, HoldersFinite, FS_EmptySet
    <2>2. One(None, k) = 0
      BY ConstantsAssumption DEF One
    <2>3. CASE k = id
      <3>1. refCt'[k] = 1 /\ attrs'[k] = a
        BY <1>1, <1>3, <2>3 DEF BasicTypes
      <3>2. Cardinality(HoldersIn(info', k)) = 1
        BY <1>8, <2>1, <2>2, <2>3 DEF One
      <3>3. QED
        BY <1>4, <2>1, <3>1, <3>2
    <2>4. CASE k # id
      <3>1. refCt'[k] = refCt[k] /\ attrs'[k] = attrs[k]
        BY <1>1, <1>3, <2>4 DEF BasicTypes
      <3>2. Cardinality(HoldersIn(info', k)) = Cardinality(HoldersIn(info, k))
        BY <2>1, <2>2, <2>4 DEF One
      <3>3. QED
        BY <1>3, <2>1, <3>1, <3>2 DEF Counted
    <2>5. QED
      BY <2>3, <2>4
  <1>10. CountedAndOpen'
    BY <1>7, <1>9, FactsPrimed DEF Counted
  <1>11. FileReleased'
    BY <1>2, <1>3, <1>7, FactsPrimed DEF Released
  <1>12. /\ attrs'[id] = a
         /\ \A k \in AttrIds \ {id} : attrs'[k] = attrs[k]
    BY <1>1, <1>3 DEF BasicTypes
  <1>13. StoredAsGiven'
    BY <1>2, <1>12 DEF IndInv, StoredAsGiven
  <1>14. \A k \in Objects' : k # s => k \in Objects /\ info'[k] = info[k]
    BY <1>5 DEF Objects
  <1>15. info'[s].type = None /\ info'[s].space = None
    BY <1>5, NewInfoFacts
  <1>16. LoadedBelongs'
    <2> SUFFICES ASSUME NEW k \in Objects', NEW b \in {info'[k].type, info'[k].space},
                        b # None
                 PROVE  info'[k].attr # None /\ attrs'[info'[k].attr] = b
      BY DEF LoadedBelongs
    <2>1. k \in Objects /\ info'[k] = info[k] /\ k \in Infos
      BY <1>14, <1>15 DEF Objects
    <2>2. info[k].attr # None /\ attrs[info[k].attr] = b
      BY <2>1 DEF IndInv, LoadedBelongs
    <2>3. info[k].attr \in AttrIds
      BY <1>4, <2>1, <2>2, ObjectFacts DEF States, Objects
    <2>4. info[k].attr # id
      BY <1>1, <2>2
    <2>5. QED
      BY <1>12, <2>1, <2>2, <2>3, <2>4
  <1>17. SpaceKnown'
    BY <1>2, <1>14, <1>15 DEF IndInv, SpaceKnown
  <1>18. QED
    BY <1>7, <1>10, <1>11, <1>13, <1>16, <1>17 DEF IndInv

\* The collector's own calls: the objects stay what they are, and what is loaded
\* has been stored.
LEMMA FileStep ==
    ASSUME IndInv, BasicTypes', UNCHANGED <<attrs, refCt, info>>
    PROVE  /\ CountedAndOpen' /\ LoadedBelongs'
           /\ Released
           /\ (FileReleased' <=> Released')
           /\ AnyOpen <=> \E id \in AttrIds : HoldersIn(info, id) # {}
           /\ \A s \in Objects : info[s].space # None =>
                 info[s].space \in Attributes /\ stored[info[s].space] # None
  <1>1. Counted /\ Released /\ BasicTypes
    BY CountedFacts, ReleasedFacts DEF IndInv
  <1>2. CountedAndOpen' /\ LoadedBelongs'
    BY DEF IndInv, CountedAndOpen, LoadedBelongs, Holders, Objects
  <1>3. AnyOpen <=> \E id \in AttrIds : HoldersIn(info, id) # {}
    BY <1>1 DEF AnyOpen, Counted
  <1>4. ASSUME NEW s \in Objects, info[s].space # None
        PROVE  info[s].space \in Attributes /\ stored[info[s].space] # None
    <2>1. info[s] \in Object
      BY <1>1 DEF BasicTypes, States, Objects
    <2>2. info[s].attr \in AttrIds /\ attrs[info[s].attr] = info[s].space
      BY <1>4, <2>1, ObjectFacts DEF IndInv, LoadedBelongs
    <2>3. QED
      BY <1>4, <2>1, <2>2, ObjectFacts DEF IndInv, StoredAsGiven
  <1>5. QED
    BY <1>1, <1>2, <1>3, <1>4, FactsPrimed

LEMMA OpenFileStep ==
    ASSUME IndInv, NEW status \in {"FST_CREATING", "FST_WRITING", "FST_READING"},
           Open(status)
    PROVE  IndInv'
  <1>1. /\ fileStatus = "FST_CLOSED" /\ fileStatus' = status
        /\ UNCHANGED <<attrs, refCt, info>>
        /\ library' \in {"RDONLY", "RDWR"}
    BY DEF Open, IndInv, BasicTypes
  <1>2. BasicTypes'
    BY <1>1 DEF IndInv, BasicTypes
  <1>3. CountedAndOpen' /\ LoadedBelongs' /\ FileReleased'
    BY <1>1, <1>2, FileStep DEF Released
  <1>4. StoredAsGiven' /\ SpaceKnown'
    <2>1. CASE status = "FST_CREATING"
      <3>1. /\ library = "NONE"
            /\ stored' = [a \in Attributes |-> None]
            /\ given' = [a \in Attributes |-> None]
        BY <2>1 DEF Open
      <3>2. \A id \in AttrIds : attrs[id] = None
        BY <1>1, <1>2, <3>1, FileStep DEF Released, AnyOpen
      <3>3. StoredAsGiven'
        BY <1>1, <3>1, <3>2 DEF StoredAsGiven
      <3>4. \A s \in Objects' : info'[s].space # None => given'[info'[s].space] = None
        BY <1>1, <1>2, <3>1, FileStep DEF Objects
      <3>5. QED
        BY <3>3, <3>4 DEF SpaceKnown
    <2>2. CASE status # "FST_CREATING"
      <3>1. UNCHANGED <<stored, given>>
        BY <2>2 DEF Open
      <3>2. QED
        BY <1>1, <3>1 DEF IndInv, StoredAsGiven, SpaceKnown, Objects
    <2>3. QED
      BY <2>1, <2>2
  <1>5. QED
    BY <1>2, <1>3, <1>4 DEF IndInv

LEMMA CloseFileStep ==
    ASSUME IndInv, CloseFile
    PROVE  IndInv'
  <1>1. /\ fileStatus # "FST_CLOSED" /\ fileStatus' = "FST_CLOSED"
        /\ library' = IF AnyOpen THEN library ELSE "NONE"
        /\ UNCHANGED <<stored, given, attrs, refCt, info>>
    BY DEF CloseFile
  <1>2. BasicTypes'
    BY <1>1 DEF IndInv, BasicTypes
  <1>3. CountedAndOpen' /\ LoadedBelongs' /\ FileReleased'
    BY <1>1, <1>2, FileStep DEF Released
  <1>4. StoredAsGiven' /\ SpaceKnown'
    BY <1>1 DEF IndInv, StoredAsGiven, SpaceKnown, Objects
  <1>5. QED
    BY <1>2, <1>3, <1>4 DEF IndInv

LEMMA CreateStep ==
    ASSUME IndInv, NEW a \in Attributes, NEW g \in Given, Create(a, g)
    PROVE  IndInv'
  <1>1. /\ stored[a] = None
        /\ stored' = [stored EXCEPT ![a] = Dataspace(g)]
        /\ given' = [given EXCEPT ![a] = g]
        /\ UNCHANGED <<fileStatus, library, attrs, refCt, info>>
    BY DEF Create
  <1>2. BasicTypes'
    BY <1>1 DEF IndInv, BasicTypes
  <1>3. CountedAndOpen' /\ LoadedBelongs' /\ FileReleased'
    BY <1>1, <1>2, FileStep DEF Released
  <1>4. stored \in [Attributes -> Spaces \union {None}]
        /\ given \in [Attributes -> Given \union {None}]
    BY DEF IndInv, StoredAsGiven
  <1>5. /\ stored'[a] = Dataspace(g) /\ given'[a] = g
        /\ \A b \in Attributes \ {a} : stored'[b] = stored[b] /\ given'[b] = given[b]
        /\ stored' \in [Attributes -> Spaces \union {None}]
        /\ given' \in [Attributes -> Given \union {None}]
    BY <1>1, <1>4 DEF Spaces
  <1>6. StoredAsGiven'
    <2>1. \A id \in AttrIds : attrs[id] # None =>
             attrs[id] # a /\ attrs[id] \in Attributes
      BY <1>1 DEF IndInv, StoredAsGiven, BasicTypes
    <2>2. QED
      BY <1>1, <1>5, <2>1 DEF IndInv, StoredAsGiven
  <1>7. SpaceKnown'
    <2>1. \A s \in Objects : info[s].space # None =>
             info[s].space \in Attributes \ {a}
      BY <1>1, <1>2, FileStep
    <2>2. QED
      BY <1>1, <1>5, <2>1 DEF IndInv, SpaceKnown, Objects
  <1>8. QED
    BY <1>2, <1>3, <1>6, <1>7 DEF IndInv

\* Loading changes neither the id nor what another object knows.
LEMMA LoadStep ==
    ASSUME IndInv, NEW s \in Objects, NEW o \in Object,
           o.attr = info[s].attr, info[s].attr # None,
           o.type \in {info[s].type, attrs[info[s].attr]},
           o.space \in {info[s].space, attrs[info[s].attr]},
           info' = [info EXCEPT ![s] = o],
           UNCHANGED <<fileStatus, stored, given, library, attrs, refCt>>,
           o.space # None /\ given[o.space] # None =>
              o.nDims = Len(Dataspace(given[o.space]).extents)
    PROVE  IndInv'
  <1>1. BasicTypes /\ info \in States /\ s \in Infos /\ info[s] # None /\ o # None
    BY ObjectFacts DEF IndInv, BasicTypes, Objects
  <1>2. /\ info' \in States /\ info'[s] = o
        /\ \A k \in Infos \ {s} : info'[k] = info[k]
    BY <1>1 DEF States
  <1>3. BasicTypes'
    BY <1>1, <1>2 DEF BasicTypes
  <1>4. \A k \in Infos : HeldIn(info', k) = HeldIn(info, k)
    BY <1>1, <1>2 DEF HeldIn
  <1>5. \A id \in AttrIds : HoldersIn(info', id) = HoldersIn(info, id)
    BY <1>4 DEF HoldersIn
  <1>6. CountedAndOpen' /\ FileReleased'
    BY <1>3, <1>5, SameHolders
  <1>7. StoredAsGiven'
    BY DEF IndInv, StoredAsGiven
  <1>8. \A k \in Objects' : k # s => k \in Objects /\ info'[k] = info[k]
    BY <1>2 DEF Objects
  <1>9. LoadedBelongs'
    <2> SUFFICES ASSUME NEW k \in Objects', NEW b \in {info'[k].type, info'[k].space},
                        b # None
                 PROVE  info'[k].attr # None /\ attrs[info'[k].attr] = b
      BY DEF LoadedBelongs
    <2>1. CASE k = s
      BY <1>2, <2>1 DEF IndInv, LoadedBelongs
    <2>2. CASE k # s
      BY <1>8, <2>2 DEF IndInv, LoadedBelongs
    <2>3. QED
      BY <2>1, <2>2
  <1>10. SpaceKnown'
    BY <1>2, <1>8 DEF IndInv, SpaceKnown
  <1>11. QED
    BY <1>3, <1>6, <1>7, <1>9, <1>10 DEF IndInv

LEMMA LoadTypeStep ==
    ASSUME IndInv, NEW s \in Objects, LoadType(s)
    PROVE  IndInv'
  <1> DEFINE a == attrs[info[s].attr]
             o == [info[s] EXCEPT !.type = a]
  <1>1. /\ s \in Infos /\ info \in States /\ info[s] \in Object
        /\ info[s].attr # None /\ info[s].attr \in AttrIds
        /\ a \in Attributes \union {None}
    BY ObjectFacts DEF IndInv, BasicTypes, States, Objects, LoadType
  <1>2. /\ o \in Object /\ o.attr = info[s].attr /\ o.type = a
        /\ o.space = info[s].space /\ o.nDims = info[s].nDims
    BY <1>1 DEF Object
  <1>3. /\ info' = [info EXCEPT ![s] = o]
        /\ UNCHANGED <<fileStatus, stored, given, library, attrs, refCt>>
    BY <1>1 DEF LoadType, fileVars, States
  <1>4. o.space # None /\ given[o.space] # None =>
           o.nDims = Len(Dataspace(given[o.space]).extents)
    BY <1>2 DEF IndInv, SpaceKnown
  <1> HIDE DEF o
  <1>5. QED
    BY <1>1, <1>2, <1>3, <1>4, LoadStep

\* The dataspaces of a file.
LEMMA SpaceFacts ==
    ASSUME NEW d \in Spaces
    PROVE  \/ d.class = "NULL"
           \/ d.class = "SCALAR" /\ Len(d.extents) = 0
           \/ d.class = "SIMPLE" /\ Len(d.extents) \in 0..MaxDims
  <1>1. CASE d = NullSpace
    BY <1>1 DEF NullSpace
  <1>2. CASE \E g \in Given : d = Dataspace(g)
    <2>1. PICK g \in Given : d = Dataspace(g)
      BY <1>2
    <2>2. \/ d.class = "SCALAR" /\ Len(d.extents) = 0
          \/ d.class = "SIMPLE" /\ Len(d.extents) = g.ndims
      BY <2>1, DataspaceFacts
    <2>3. g.ndims \in 0..MaxDims
      BY ConstantsAssumption DEF MaxDims
    <2>4. QED
      BY <2>2, <2>3
  <1>3. QED
    BY <1>1, <1>2 DEF Spaces

LEMMA LoadSpaceStep ==
    ASSUME IndInv, NEW s \in Objects, LoadSpace(s)
    PROVE  IndInv'
  <1> DEFINE a == attrs[info[s].attr]
             n == CASE stored[a].class = "NULL" -> info[s].nDims
                    [] stored[a].class = "SCALAR" -> 0
                    [] OTHER -> Len(stored[a].extents)
             o == [info[s] EXCEPT !.space = a, !.nDims = n]
  <1>1. /\ s \in Infos /\ info \in States /\ info[s] \in Object
        /\ info[s].attr # None /\ info[s].attr \in AttrIds
    BY ObjectFacts DEF IndInv, BasicTypes, States, Objects, LoadSpace
  <1>2. s \in HoldersIn(info, info[s].attr)
    BY <1>1, ObjectFacts DEF HoldersIn, HeldIn
  <1>3. a # None /\ a \in Attributes
    BY <1>1, <1>2, CountedFacts DEF IndInv, BasicTypes, Counted
  <1>4. stored[a] \in Spaces
    BY <1>1, <1>3 DEF IndInv, StoredAsGiven
  <1>5. n \in (0..MaxDims) \union {None}
    BY <1>1, <1>4, SpaceFacts, ObjectFacts DEF MaxDims
  <1>6. /\ given[a] # None => given[a] \in Given /\ stored[a] = Dataspace(given[a])
    BY <1>3 DEF IndInv, StoredAsGiven
  <1>7. given[a] # None => n = Len(Dataspace(given[a]).extents)
    BY <1>6, DataspaceFacts
  <1>8. /\ info' = [info EXCEPT ![s] = o]
        /\ UNCHANGED <<fileStatus, stored, given, library, attrs, refCt>>
    BY <1>1 DEF LoadSpace, fileVars, States
  <1> HIDE DEF n
  <1>9. /\ o \in Object /\ o.attr = info[s].attr /\ o.type = info[s].type
        /\ o.space = a /\ o.nDims = n
    BY <1>1, <1>3, <1>5 DEF Object
  <1> HIDE DEF o
  <1>10. QED
    BY <1>1, <1>7, <1>8, <1>9, LoadStep

LEMMA NextIndInv == IndInv /\ [Next]_vars => IndInv'
  <1> SUFFICES ASSUME IndInv, [Next]_vars PROVE IndInv'
    OBVIOUS
  <1>1. ASSUME NEW status \in {"FST_CREATING", "FST_WRITING", "FST_READING"},
               Open(status)
        PROVE  IndInv'
    BY <1>1, OpenFileStep
  <1>2. CASE CloseFile
    BY <1>2, CloseFileStep
  <1>3. ASSUME NEW a \in Attributes, NEW g \in Given,
               WriteAttribute(a, g) \/ WriteGlobalAttribute(a, g)
        PROVE  IndInv'
    BY <1>3, CreateStep DEF WriteAttribute, WriteGlobalAttribute
  <1>4. ASSUME NEW s \in Free, NEW a \in Attributes,
               ReadAttributeInfo(s, a) \/ ReadGlobalAttributeInfo(s, a)
        PROVE  IndInv'
    <2>1. fileStatus # "FST_CLOSED" /\ OpenAttribute(s, a)
      BY <1>4 DEF ReadAttributeInfo, ReadGlobalAttributeInfo, GroupReadable,
                  CustomGroupReadable
    <2>2. QED
      BY <2>1, OpenStep
  <1>5. ASSUME NEW s \in Objects, NEW t \in Free, Copy(s, t)
        PROVE  IndInv'
    BY <1>5, CopyStep
  <1>6. ASSUME NEW t \in Objects, NEW s \in Objects, Assign(t, s)
        PROVE  IndInv'
    BY <1>6, AssignStep
  <1>7. ASSUME NEW s \in Objects, NEW t \in Objects, SwapInfos(s, t)
        PROVE  IndInv'
    BY <1>7, SwapStep
  <1>8. ASSUME NEW s \in Objects, Close(s) \/ Destroy(s)
        PROVE  IndInv'
    BY <1>8, CloseStep
  <1>9. ASSUME NEW s \in Objects, LoadType(s) \/ LoadSpace(s)
        PROVE  IndInv'
    BY <1>9, LoadTypeStep, LoadSpaceStep
  <1>10. CASE UNCHANGED vars
    BY <1>10, SMTT(30) DEF vars, IndInv, BasicTypes, StoredAsGiven, CountedAndOpen, FileReleased,
              LoadedBelongs, SpaceKnown, Holders, Objects
  <1>11. QED
    BY <1>1, <1>2, <1>3, <1>4, <1>5, <1>6, <1>7, <1>8, <1>9, <1>10 DEF Next

\* The inductive invariant holds in every state of every behaviour.
THEOREM Invariance == Spec => []IndInv
  <1>1. QED
    BY InitIndInv, NextIndInv, PTL DEF Spec

-----------------------------------------------------------------------------
(* Theorems *)

\* H5IdWrapper.hpp:51-128. For any number of objects: after any sequence of copies,
\* assignments, swaps, closes and destructions the count of every attribute id is
\* the number of objects on it, and the id is open exactly while there is one.
THEOREM CountsRight == Spec => []CountedAndOpen
  <1>1. IndInv => CountedAndOpen
    BY DEF IndInv
  <1>2. QED
    BY <1>1, Invariance, PTL

\* AttributeInfo.hpp:115-120. The library holds the file exactly while the collector
\* has it open or some object is on an attribute of it.
THEOREM ReleasedInTime == Spec => []FileReleased
  <1>1. IndInv => FileReleased
    BY DEF IndInv
  <1>2. QED
    BY <1>1, Invariance, PTL

\* AttributeInfo.cpp:49-60, 196-210. The type and the dataspace an object has loaded
\* are those of the attribute it is on.
THEOREM LoadedIsOwn == Spec => []LoadedBelongs
  <1>1. IndInv => LoadedBelongs
    BY DEF IndInv
  <1>2. QED
    BY <1>1, Invariance, PTL

\* Swapping dimensions twice gives them back, padded with ones.
LEMMA SwapBack ==
    ASSUME NEW n \in 1..3, NEW d \in [1..3 -> Nat], NEW e \in [1..3 -> Nat],
           \A k \in 1..3 : e[k] = IF k <= n THEN SwapDims(d, n)[k] ELSE 1
    PROVE  SwapDims(e, n) = [k \in 1..3 |-> IF k <= n THEN d[k] ELSE 1]
  <1>1. CASE n = 1
    BY <1>1 DEF SwapDims
  <1>2. CASE n = 2
    <2>1. e[1] = d[2] /\ e[2] = d[1] /\ e[3] = 1
      BY <1>2 DEF SwapDims
    <2>2. SwapDims(e, n) = <<d[1], d[2], 1>>
      BY <1>2, <2>1 DEF SwapDims
    <2>3. QED
      BY <1>2, <2>2
  <1>3. CASE n = 3
    <2>1. e[1] = d[3] /\ e[2] = d[2] /\ e[3] = d[1]
      BY <1>3 DEF SwapDims
    <2>2. SwapDims(e, n) = <<d[1], d[2], d[3]>>
      BY <1>3, <2>1 DEF SwapDims
    <2>3. QED
      BY <1>3, <2>2
  <1>4. QED
    BY <1>1, <1>2, <1>3

\* DCAttribute.cpp:69-76, AttributeInfo.cpp:141-164. The dimensions read back from an
\* attribute are those writeAttribute() was given, for any dimensions.
THEOREM DimsReadBack == Spec => []DimsAsGiven
  <1>1. ASSUME IndInv PROVE DimsAsGiven
    <2> SUFFICES ASSUME NEW s \in Objects,
                        info[s].space # None, given[info[s].space] # None
                 PROVE  LET g == given[info[s].space] IN
                        /\ NDims(info[s]) = g.ndims
                        /\ Dims(info[s]) =
                             [k \in 1..3 |-> IF k <= g.ndims THEN g.dims[k] ELSE 1]
      BY DEF DimsAsGiven
    <2> DEFINE a == info[s].space
               g == given[a]
               n == Len(Dataspace(g).extents)
               e == [k \in 1..3 |-> IF k <= n THEN Dataspace(g).extents[k] ELSE 1]
    <2>1. info[s] \in Object /\ a \in Attributes
      BY <1>1, ObjectFacts DEF IndInv, BasicTypes, States, Objects
    <2>2. g \in Given /\ stored[a] = Dataspace(g)
      BY <1>1, <2>1 DEF IndInv, StoredAsGiven
    <2>3. info[s].nDims = n
      BY <1>1 DEF IndInv, SpaceKnown
    <2>4. Dims(info[s]) = SwapDims(e, n)
      BY <2>2, <2>3 DEF Dims
    <2>5. /\ g.ndims \in 1..3 /\ g.dims \in [1..3 -> Nat]
          /\ \/ /\ n = 0 /\ g.ndims = 1 /\ g.dims[1] * g.dims[2] * g.dims[3] = 1
             \/ /\ n = g.ndims
                /\ \A k \in 1..n : Dataspace(g).extents[k] = SwapDims(g.dims, g.ndims)[k]
      BY <2>2, DataspaceFacts
    <2> HIDE DEF n, g
    <2>6. CASE n = 0
      <3>1. g.ndims = 1 /\ g.dims[1] * g.dims[2] * g.dims[3] = 1
        BY <2>5, <2>6
      <3>2. g.dims[1] = 1
        <4>1. g.dims[1] \in Nat /\ g.dims[2] \in Nat /\ g.dims[3] \in Nat
          BY <2>5
        <4>2. QED
          BY <3>1, <4>1, ProductOne
      <3>3. SwapDims(e, n) = [k \in 1..3 |-> 1]
        BY <2>6 DEF SwapDims
      <3>4. NDims(info[s]) = 1
        BY <2>3, <2>6 DEF NDims
      <3>5. QED
        BY <2>4, <3>1, <3>2, <3>3, <3>4 DEF g
    <2>7. CASE n # 0
      <3>1. n = g.ndims
        BY <2>5, <2>7
      <3>2. NDims(info[s]) = g.ndims
        BY <2>3, <2>7, <3>1 DEF NDims
      <3>3. SwapDims(g.dims, n) \in [1..3 -> Nat]
        BY <2>5, <3>1 DEF SwapDims
      <3>4. /\ e \in [1..3 -> Nat]
            /\ \A k \in 1..3 : e[k] = IF k <= n THEN SwapDims(g.dims, n)[k] ELSE 1
        BY <2>5, <2>7, <3>1, <3>3
      <3>5. SwapDims(e, n) = [k \in 1..3 |-> IF k <= n THEN g.dims[k] ELSE 1]
        <4>1. n \in 1..3 /\ g.dims \in [1..3 -> Nat]
          BY <2>5, <3>1
        <4> DEFINE d == g.dims
        <4> HIDE DEF e, d
        <4>2. d \in [1..3 -> Nat] /\ \A k \in 1..3 : e[k] = IF k <= n
                                        THEN SwapDims(d, n)[k] ELSE 1
          BY <3>4, <4>1 DEF d
        <4>3. SwapDims(e, n) = [k \in 1..3 |-> IF k <= n THEN d[k] ELSE 1]
          BY <3>4, <4>1, <4>2, SwapBack
        <4>4. QED
          BY <4>3 DEF d
      <3>6. QED
        BY <2>4, <3>1, <3>2, <3>5 DEF g
    <2>8. QED
      BY <2>6, <2>7
  <1>2. QED
    BY <1>1, Invariance, PTL

CollectorKnown == collector \in Collectors

\* Every variable has its type, and an id is open on an attribute that exists.
THEOREM TypeCorrect == Spec => []TypeOK
  <1>1. Init => CollectorKnown
    BY DEF Init, CollectorKnown
  <1>2. CollectorKnown /\ [Next]_vars => CollectorKnown'
    BY DEF CollectorKnown, Next, vars, fileVars, Open, CloseFile, WriteAttribute, WriteGlobalAttribute,
           Create, ReadAttributeInfo, ReadGlobalAttributeInfo, OpenAttribute, Copy,
           Assign, SwapInfos, Close, Destroy, LoadType, LoadSpace, Settle
  <1>3. IndInv /\ CollectorKnown => TypeOK
    BY DEF CollectorKnown, IndInv, BasicTypes, StoredAsGiven, TypeOK, States
  <1>4. QED
    BY <1>1, <1>2, <1>3, Invariance, PTL DEF Spec
=============================================================================
