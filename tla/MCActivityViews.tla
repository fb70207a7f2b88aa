--------------------------- MODULE MCActivityViews ---------------------------
(* ActivityViews with what may be written to a file, one unit, or two, of   *)
(* which a report carries one, and with a key of the registry below another *)
(* one.                                                                     *)
EXTENDS ActivityViews, TLC

MCChunks == {<<1>>, <<2, 2>>}
MCKeys == {<<Root, "a">>, <<Root, "a", "b">>}

Symmetry == UNION {Permutations(S) : S \in {Paths, Handles, KeyHandles, RegThreads, RowPids}}

=============================================================================
