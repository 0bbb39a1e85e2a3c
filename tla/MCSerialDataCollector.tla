----------------------- MODULE MCSerialDataCollector ------------------------
(* Values of SerialDataCollector's constants for TLC. *)
EXTENDS SerialDataCollector

CONSTANT out

Flat == {<<"A">>}
Nested == {<<"A">>, <<"A", "B">>}
Wide == Nested \union {<<"C">>}

\* One file with a full name, the files of two ranks, and files with groups.
OneFile == [base |-> out, full |-> TRUE, sizes |-> {1, 2}, ids |-> {0, 2},
            names |-> Flat]
RankFiles == [base |-> out, full |-> FALSE, sizes |-> {1, 2}, ids |-> {0},
              names |-> Flat]
OneTree == [base |-> out, full |-> TRUE, sizes |-> {1}, ids |-> {0, 1},
            names |-> Nested]
WideTree == [OneTree EXCEPT !.ids = {0}, !.names = Wide]
RankFilesTwice == [RankFiles EXCEPT !.ids = {0, 1}]

MCPrograms == {OneFile, RankFiles, OneTree, WideTree}
MCMergedPrograms == {RankFilesTwice}
=============================================================================
