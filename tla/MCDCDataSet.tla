---------------------------- MODULE MCDCDataSet -----------------------------
(* The program of the run of DCDataSet: appending to what was appended before. *)
EXTENDS DCDataSet

MCAppending ==
    {[parallel |-> FALSE, ndims |-> 1, topology |-> Ones, extents |-> {},
      selections |-> {}, calls |-> 3,
      appends |-> [count : {0, 1, 2}, offset : {0, 1}, stride : {1, 2}]]}

MCChunkSizes == <<16, 8, 4>>
=============================================================================
