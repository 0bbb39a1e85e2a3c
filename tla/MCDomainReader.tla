--------------------------- MODULE MCDomainReader ---------------------------
(* Values of DomainReader's constants for TLC. *)
EXTENDS DomainReader

MCCells == <<{1, 2}, {1, 2}, {1}>>
UnitCells == <<{1}, {1}, {1}>>
MCOrigins == <<{1}, {0}, {0}>>

Lines4 == {<<n, 1, 1>> : n \in 1..4}
Grids == {<<2, 3, 1>>, <<2, 2, 2>>}
MCTopologies == Lines4 \union Grids
=============================================================================
