---------------------------- MODULE SplashTools ----------------------------
(***************************************************************************)
(* tools/splashtools.cpp: the command line tool, started by mpirun with any *)
(* number of processes, that checks or lists the HDF5 files of a run.       *)
(* Process 0 reads from the master file how many files there are and        *)
(* broadcasts it, every process takes its share of them, and a barrier      *)
(* ends the program.                                                        *)
(*                                                                          *)
(* A file is named by what follows the base name: <<x, y, z>> of an MPI     *)
(* position, <<i>> of an iteration, <<>> of a full name. Opening or         *)
(* checking a file that is missing or damaged fails.                        *)
(*                                                                          *)
(* Left out: deleteFromIteration(), which nothing calls because             *)
(* parseCmdLine() never sets deleteIteration, and what is printed.          *)
(***************************************************************************)
EXTENDS Integers, Sequences, FiniteSets

CONSTANTS
    Launches,       \* [procs, args]: mpirun's number of processes, argv
    MaxProcs,       \* bound: processes
    Topologies,     \* MPI sizes of the program that wrote the files
    MaxBad          \* bound: files missing or damaged at a time

ASSUME LaunchAssumption ==
    /\ MaxProcs \in Nat
    /\ \A l \in Launches : l.procs \in 1..MaxProcs
    /\ Topologies \subseteq (Nat \ {0}) \X (Nat \ {0}) \X (Nat \ {0})
    /\ MaxBad \in Nat

VARIABLES
    launch,
    options,        \* what parseCmdLine() makes of argv, the same everywhere
    topology,       \* the MPI size recorded in the master file
    bad,            \* files that are missing or damaged
    pc,             \* where each process is
    todo,           \* tool functions it still has to execute
    result,         \* "OK" is RESULT_OK, "ERROR" is RESULT_ERROR
    sent,           \* sizes process 0 broadcast
    received,       \* number of broadcasts each process took part in
    range,          \* [start, end] of the file indices of a process
    index,          \* the file index it works on
    checked         \* [proc, index, file] of every integrity test (history)

vars == <<launch, options, topology, bad, pc, todo, result, sent, received, range, index,
          checked>>
world == <<launch, options, topology, bad>>

Procs == 0..(launch.procs - 1)

-----------------------------------------------------------------------------
(* The command line *)

Flags == {"-h", "-v", "-d", "-f", "-c", "-l", "-p"}
TakesArgument == {"-d", "-f"}

\* The positions that are read as options and not as the argument of one.
OptionAt(args) ==
    LET at[i \in 1..Len(args)] ==
          \/ i = 1
          \/ i > 1 /\ at[i - 1] /\ args[i - 1] \notin TakesArgument
          \/ i > 2 /\ at[i - 2] /\ args[i - 2] \in TakesArgument
    IN at

\* Reading ends early at a help option, an unknown one or a missing argument.
Stops(args) ==
    {i \in 1..Len(args) :
        /\ OptionAt(args)[i]
        /\ \/ args[i] = "-h"
           \/ args[i] \notin Flags
           \/ args[i] \in TakesArgument /\ i = Len(args)}

FirstStop(args) == CHOOSE i \in Stops(args) : \A k \in Stops(args) : i <= k

Given(args) ==
    {i \in 1..Len(args) :
        OptionAt(args)[i] /\ (Stops(args) # {} => i < FirstStop(args))}

Filename(args) ==
    LET files == {i \in Given(args) : args[i] = "-f"} IN
    IF files = {} THEN ""
    ELSE args[(CHOOSE i \in files : \A k \in files : k <= i) + 1]

\* A help option ends reading with RESULT_OK, and what was asked for before it
\* is done. Deleting takes its argument and is never asked for.
ParseCmdLine(args) ==
    LET asked == {args[i] : i \in Given(args)} IN
    [result |->
        IF Stops(args) # {} THEN (IF args[FirstStop(args)] = "-h" THEN "OK" ELSE "ERROR")
        ELSE IF Filename(args) = "" THEN "ERROR" ELSE "OK",
     filename |-> Filename(args),
     singleFile |-> Stops(args) = {} /\ Filename(args) = "out.h5",
     parallelFile |-> "-p" \in asked,
     functions |-> (IF "-c" \in asked THEN <<"-c">> ELSE <<>>)
                     \o (IF "-l" \in asked THEN <<"-l">> ELSE <<>>)]

-----------------------------------------------------------------------------
(* The files and who works on them *)

IndexToPosMutant(i, size) ==
    <<i \div (size[2] * size[3]), i \div size[3], i % size[3]>>

IndexToPos(i, size) ==
    <<i \div (size[2] * size[3]), (i \div size[3]) % size[2], i % size[3]>>

Count(size) == size[1] * size[2] * size[3]

PositionsOf(size) ==
    (0..(size[1] - 1)) \X (0..(size[2] - 1)) \X (0..(size[3] - 1))

\* The file toolFunc is given.
FileAt(i, size) ==
    IF options.singleFile THEN <<>>
    ELSE IF options.parallelFile THEN <<i>>
    ELSE IndexToPos(i, size)

\* The file SerialDataCollector::open(options.filename) opens.
Master == IF options.singleFile THEN <<>> ELSE <<0, 0, 0>>

NoRange == [start |-> -1, end |-> -1]

FilesToProcessesMutant(p, files) ==
    LET share == files \div launch.procs IN
    IF launch.procs >= files
    THEN IF p < files THEN [start |-> p, end |-> p] ELSE range[p]
    ELSE [start |-> p * share, end |-> (p + 1) * share - 1]

FilesToProcesses(p, files) ==
    LET share == files \div launch.procs IN
    IF launch.procs >= files
    THEN IF p < files THEN [start |-> p, end |-> p] ELSE range[p]
    ELSE [start |-> p * share,
          end |-> IF p = launch.procs - 1 THEN files - 1
                  ELSE (p + 1) * share - 1]

-----------------------------------------------------------------------------
Init ==
    /\ launch \in Launches
    /\ options = ParseCmdLine(launch.args)
    /\ topology \in Topologies
    /\ bad \in {b \in SUBSET (PositionsOf(topology) \union {<<>>, <<0>>}) :
                  Cardinality(b) <= MaxBad}
    /\ pc = [p \in Procs |-> "start"]
    /\ todo = [p \in Procs |-> <<>>]
    /\ result = [p \in Procs |-> "OK"]
    /\ sent = <<>>
    /\ received = [p \in Procs |-> 0]
    /\ range = [p \in Procs |-> NoRange]
    /\ index = [p \in Procs |-> 0]
    /\ checked = {}

\* main() goes on if parseCmdLine() succeeded.
Start(p) ==
    /\ pc[p] = "start"
    /\ result' = [result EXCEPT ![p] = options.result]
    /\ todo' = [todo EXCEPT ![p] =
                  IF options.result = "OK" THEN options.functions ELSE <<>>]
    /\ pc' = [pc EXCEPT ![p] = "main"]
    /\ UNCHANGED <<world, sent, received, range, index, checked>>

\* executeToolFunction() is done: its result replaces that of the one before.
Return(p, r) ==
    /\ result' = [result EXCEPT ![p] = r]
    /\ todo' = [todo EXCEPT ![p] = Tail(@)]
    /\ pc' = [pc EXCEPT ![p] = "main"]

\* main() has no function left to execute.
Finish(p) ==
    /\ pc[p] = "main" /\ todo[p] = <<>>
    /\ pc' = [pc EXCEPT ![p] = "barrier"]
    /\ UNCHANGED <<world, todo, result, sent, received, range, index, checked>>

\* A single file is process 0's.
ExecuteOnSingleFile(p) ==
    /\ pc[p] = "main" /\ todo[p] # <<>>
    /\ options.singleFile
    /\ IF p = 0
       THEN /\ pc' = [pc EXCEPT ![p] = "construct"]
            /\ range' = [range EXCEPT ![p] = [start |-> 0, end |-> 0]]
            /\ index' = [index EXCEPT ![p] = 0]
            /\ result' = [result EXCEPT ![p] = "OK"]
            /\ UNCHANGED todo
       ELSE Return(p, "OK") /\ UNCHANGED <<range, index>>
    /\ UNCHANGED <<world, sent, received, checked>>

Execute(p) ==
    /\ pc[p] = "main" /\ todo[p] # <<>>
    /\ ~options.singleFile
    /\ pc' = [pc EXCEPT ![p] = IF p = 0 THEN "detect" ELSE "receive"]
    /\ UNCHANGED <<world, todo, result, sent, received, range, index, checked>>

\* new ParallelDataCollector(MPI_COMM_WORLD, ...) duplicates the communicator,
\* together with every process of it.
Constructs(p) ==
    options.parallelFile => \A q \in Procs : pc[q] \in {"detect", "construct"}

Detected ==
    IF options.parallelFile THEN <<launch.procs, 1, 1>>
    ELSE IF options.filename = "" \/ Master \in bad THEN <<0, 0, 0>>
    ELSE topology

\* With a size of zero this process reports the failure like all others.
DetectFileMPISizeMutant(p) ==
    /\ pc[p] = "detect"
    /\ Constructs(p)
    /\ IF Count(Detected) = 0
       THEN Return(p, "ERROR") /\ UNCHANGED sent
       ELSE /\ sent' = Append(sent, Detected)
            /\ pc' = [pc EXCEPT ![p] = "receive"]
            /\ UNCHANGED <<result, todo>>
    /\ UNCHANGED <<world, received, range, index, checked>>

\* detectFileMPISize() and MPI_Bcast at its root, which waits for nobody.
DetectFileMPISize(p) ==
    /\ pc[p] = "detect"
    /\ Constructs(p)
    /\ sent' = Append(sent, Detected)
    /\ pc' = [pc EXCEPT ![p] = "receive"]
    /\ UNCHANGED <<world, todo, result, received, range, index, checked>>

\* MPI_Bcast elsewhere, and what every process does with the size.
Receive(p) ==
    /\ pc[p] = "receive"
    /\ received[p] < Len(sent)
    /\ received' = [received EXCEPT ![p] = @ + 1]
    /\ LET files == Count(sent[received[p] + 1]) IN
         IF files = 0
         THEN Return(p, "ERROR") /\ UNCHANGED <<range, index>>
         ELSE LET mine == FilesToProcesses(p, files) IN
              /\ range' = [range EXCEPT ![p] = mine]
              /\ IF mine.start = -1
                 THEN Return(p, "OK") /\ UNCHANGED index
                 ELSE /\ pc' = [pc EXCEPT ![p] = "construct"]
                      /\ index' = [index EXCEPT ![p] = mine.start]
                      /\ result' = [result EXCEPT ![p] = "OK"]
                      /\ UNCHANGED todo
    /\ UNCHANGED <<world, sent, checked>>

Construct(p) ==
    /\ pc[p] = "construct"
    /\ Constructs(p)
    /\ pc' = [pc EXCEPT ![p] = "tool"]
    /\ UNCHANGED <<world, todo, result, sent, received, range, index, checked>>

CombineMutant(r, s) == s

\* result |= toolFunc(...)
Combine(r, s) == IF "ERROR" \in {r, s} THEN "ERROR" ELSE "OK"

\* The next file, or the end of executeToolFunction().
Advance(p, r) ==
    IF index[p] = range[p].end
    THEN Return(p, Combine(result[p], r)) /\ UNCHANGED index
    ELSE /\ index' = [index EXCEPT ![p] = @ + 1]
         /\ result' = [result EXCEPT ![p] = Combine(@, r)]
         /\ UNCHANGED <<pc, todo>>

Size == IF sent = <<>> THEN <<1, 1, 1>> ELSE sent[Len(sent)]

\* h5check's verdict on one file.
TestFileIntegrity(p) ==
    /\ pc[p] = "tool" /\ Head(todo[p]) = "-c"
    /\ LET file == FileAt(index[p], Size) IN
         /\ Advance(p, IF file \in bad THEN "ERROR" ELSE "OK")
         /\ checked' = checked \union
                         {[proc |-> p, index |-> index[p], file |-> file]}
    /\ UNCHANGED <<world, sent, received, range>>

\* Whatever file it is given, it lists options.filename.
ListedFile ==
    IF options.parallelFile /\ ~options.singleFile THEN <<0>> ELSE Master

ListAvailableDatasets(p) ==
    /\ pc[p] = "tool" /\ Head(todo[p]) = "-l"
    /\ ListedFile \notin bad
    /\ Advance(p, "OK")
    /\ UNCHANGED <<world, sent, received, range, checked>>

\* It catches nothing: std::terminate() ends the process, and mpirun the others.
ListThrows(p) ==
    /\ pc[p] = "tool" /\ Head(todo[p]) = "-l"
    /\ ListedFile \in bad
    /\ pc' = [q \in Procs |-> IF pc[q] = "finished" THEN pc[q] ELSE "killed"]
    /\ UNCHANGED <<world, todo, result, sent, received, range, index, checked>>

\* MPI_Barrier.
Barrier ==
    /\ \A p \in Procs : pc[p] = "barrier"
    /\ pc' = [p \in Procs |-> "finished"]
    /\ UNCHANGED <<world, todo, result, sent, received, range, index, checked>>

Step(p) ==
    \/ Start(p)
    \/ Finish(p)
    \/ ExecuteOnSingleFile(p)
    \/ Execute(p)
    \/ DetectFileMPISize(p)
    \/ Receive(p)
    \/ Construct(p)
    \/ TestFileIntegrity(p)
    \/ ListAvailableDatasets(p)
    \/ ListThrows(p)

Next ==
    \/ \E p \in Procs : Step(p)
    \/ Barrier

\* Every process runs, and the barrier opens once all have arrived.
Fairness ==
    /\ \A p \in 0..(MaxProcs - 1) : WF_vars(p \in Procs /\ Step(p))
    /\ WF_vars(Barrier)

Spec == Init /\ [][Next]_vars /\ Fairness

-----------------------------------------------------------------------------
(* Properties *)

TypeOK ==
    /\ launch \in Launches /\ topology \in Topologies
    /\ pc \in [Procs -> {"start", "main", "detect", "receive", "construct", "tool",
                         "barrier", "finished", "killed"}]
    /\ result \in [Procs -> {"OK", "ERROR"}]
    /\ \A p \in Procs : received[p] <= Len(sent)
    /\ \A c \in checked :
          c.file \in PositionsOf(topology) \union {<<>>, <<0>>}

Finished == \A p \in Procs : pc[p] = "finished"

\* UserManual.tex:525-526, splashtools.cpp:387-420. The user names the run and not
\* its files: after a check every file of the run has been tested by one process,
\* and by that one once, for every topology and any number of processes.
EveryFileOnce ==
    /\ \A c, d \in checked : c.file = d.file => c = d
    /\ Finished /\ "-c" \in {options.functions[i] : i \in DOMAIN options.functions}
         /\ options.result = "OK" /\ options.filename # ""
         /\ ~options.singleFile /\ ~options.parallelFile /\ Master \notin bad
       => {c.file : c \in checked} = PositionsOf(topology)

\* splashtools.cpp:384-420, 537-552. When checking is all that was asked for, a damaged
\* file makes some process exit with an error, and a master file that cannot be
\* read makes all of them.
FailureReported ==
    Finished /\ options.functions = <<"-c">> =>
        /\ (\E c \in checked : c.file \in bad) => \E p \in Procs : result[p] = "ERROR"
        /\ ~options.singleFile /\ ~options.parallelFile /\ Master \in bad =>
             \A p \in Procs : result[p] = "ERROR"

\* splashtools.cpp:369-393, 547-549. No process waits for ever in a broadcast or at
\* the barrier, also when process 0 cannot read the master file, when there are
\* more processes than files and when a process has nothing to do.
Terminates == <>(\A p \in Procs : pc[p] \in {"finished", "killed"})
=============================================================================
