------------------------- MODULE MCProcessTreeManager -------------------------
(* Small instances of ProcessTreeManager for TLC. *)
EXTENDS ProcessTreeManager, TLC

CONSTANTS p1, p2, ctl

MCPids == {p1, p2, ctl}
MCSymmetry == Permutations({p1, p2})
=============================================================================
