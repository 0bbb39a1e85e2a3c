--------------------------- MODULE MCLazyLoading ----------------------------
(* Values of the constants of HandleMgr for TLC. *)
EXTENDS LazyLoading

\* A name like "out", without ".h5".
MCBaseNames == {[len |-> 3, h5 |-> {}]}

\* One process, and a 2 x 1 x 2 arrangement: ranks 0 to 3.
MCTopologies == {<<1, 1, 1>>, <<2, 1, 2>>}
=============================================================================
