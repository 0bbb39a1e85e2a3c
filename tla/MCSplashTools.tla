--------------------------- MODULE MCSplashTools ---------------------------
(* Values of the constants of SplashTools for TLC. *)
EXTENDS SplashTools

\* Checking and listing, alone and together, on all files of a run and on one;
\* help after another option; arguments that are missing or unknown.
MCSerialArgs ==
    {<<"-c", "-f", "out">>, <<"-f", "out", "-l">>, <<"-c", "-l", "-f", "out">>,
     <<"-f", "out.h5", "-c">>, <<"-l", "-f", "out.h5">>, <<"-c", "-h">>,
     <<"-d", "2", "-f", "out", "-c">>, <<"-c", "-f">>, <<"-x">>, <<>>}

\* Files of iterations are opened by a collector of all processes: by one.
MCParallelArgs == {<<"-p", "-c", "-l", "-f", "out">>}

MCLaunches ==
    [procs : {1, 2, 3}, args : MCSerialArgs] \union
    [procs : {1}, args : MCParallelArgs]

MCTopologies == {<<1, 1, 1>>, <<2, 1, 1>>, <<2, 2, 1>>, <<1, 2, 2>>, <<5, 1, 1>>}
=============================================================================
