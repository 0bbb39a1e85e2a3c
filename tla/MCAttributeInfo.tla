-------------------------- MODULE MCAttributeInfo --------------------------
(* Values of the constants of AttributeInfo for TLC. *)
EXTENDS AttributeInfo, TLC

CONSTANTS i1, i2, i3, own, foreign

MCInfos == {i1, i2, i3}

MCAttributes == {own, foreign}
MCForeign == {foreign}

MCGlobals == {foreign}

\* One value, and two and three dimensions that differ.
MCGiven == {[ndims |-> 1, dims |-> <<1, 1, 1>>],
            [ndims |-> 2, dims |-> <<2, 3, 1>>],
            [ndims |-> 3, dims |-> <<1, 2, 3>>]}

\* The objects are interchangeable.
MCSymmetry == Permutations(MCInfos)
=============================================================================
