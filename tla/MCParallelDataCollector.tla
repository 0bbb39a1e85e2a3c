---------------------- MODULE MCParallelDataCollector -----------------------
(* The programs of the runs of ParallelDataCollector. *)
EXTENDS ParallelDataCollector

Program(n, kinds, iterations) == [limit |-> n, used |-> kinds, ids |-> iterations]

\* Handles are scarce and no call is independent; one process appends alone and
\* there is a handle for every iteration.
MCPrograms ==
    {Program(2, {"writeNewAttribute", "remove"}, {0, 1, 2}),
     Program(1, AllKinds \ {"append"}, {0, 1}),
     Program(2, {"reserve", "append"}, {0, 1})}

\* Independent calls with fewer handles than iterations.
MCScarceAppends == {[limit |-> 1, used |-> {"reserve", "append"}, ids |-> {0, 1}]}
=============================================================================
