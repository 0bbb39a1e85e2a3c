---------------------------- MODULE LazyLoading -----------------------------
(***************************************************************************)
(* Lazy loading of domains: readDomain(..., lazyLoad) keeps, for every file *)
(* it visits, the raw HDF5 id HandleMgr returned at the time, and           *)
(* readDomainLazy() later reads through that id. In between the session     *)
(* goes on: whatever it reads asks the same HandleMgr for handles, and the  *)
(* manager closes one when its table is full.                               *)
(*                                                                          *)
(* The module composes the loading references of DomainCollector and        *)
(* ParallelDomainCollector with HandleMgr.                                  *)
(***************************************************************************)
EXTENDS HandleMgr

VARIABLES
    refs,       \* loading references: <<index, whether its id is still open>>
    asked       \* the indices this session asked for

lazyVars == <<refs, asked>>
allVars == <<vars, lazyVars>>

LazyInit == Init /\ refs = {} /\ asked = {}

\* A file that is closed and opened again gets another id: a reference that was
\* closed once stays closed.
StillOpen(index) == index \in DOMAIN handles' /\ handles'[index].live

RefsAfter == {<<r[1], r[2] /\ StillOpen(r[1])>> : r \in refs}

\* setLoadingReference(..., handles.get(...), ...) keeps the id of a file that
\* readDomain() has just read the size of the dataset from.
KeepsHandle(index) ==
    /\ InSession /\ fileFlags = "RDONLY"
    /\ StillOpen(index)
    /\ refs' = RefsAfter \union {<<index, TRUE>>}

Ask(i) ==
    /\ InTopology(i)
    /\ Get(i)
    /\ asked' = asked \union {IndexOf(i)}
    /\ refs' = RefsAfter \/ KeepsHandle(IndexOf(i))

\* What neither opens nor closes a file.
Prepare ==
    /\ \/ \E s \in Schemes : SetFileNameScheme(s)
       \/ \E size \in Topologies, n \in Names, fl \in Flags :
             OpenMany(size, n, fl)
       \/ \E n \in Names, fl \in Flags : OpenFull(n, fl)
       \/ \E index \in DOMAIN handles : WriteThrough(index)
    /\ UNCHANGED lazyVars

\* The program drops its references with the session (IDomainCollector.hpp:107).
End ==
    /\ Close \/ \E k \in DOMAIN handles : CloseFails(k)
    /\ refs' = {}
    /\ asked' = {}

LazyNext == (\E i \in Ids : Ask(i)) \/ Prepare \/ End

LazySpec == LazyInit /\ [][LazyNext]_allVars

-----------------------------------------------------------------------------
\* IDomainCollector.hpp:106-107: a subdomain loaded lazily can be read as long as
\* the collector is not closed. It can while the session asked for no more files
\* than it may have open, whatever failed or was asked for again in between.
LoadedStaysReadable ==
    InSession /\ Cardinality(asked) <= MaxHandles => \A r \in refs : r[2]
=============================================================================
