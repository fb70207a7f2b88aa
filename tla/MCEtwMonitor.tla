----------------------------- MODULE MCEtwMonitor -----------------------------
(* A small instance of EtwMonitor for TLC: the target, a child of it and a     *)
(* process that has nothing to do with them.  A behaviour looks at one half of *)
(* the module: at several launches whose traces may fail, with fewer events    *)
(* than the buffer overflows at ("trace"), or at a buffer that overflows, in   *)
(* one launch whose trace ends when it is stopped ("record").                  *)
EXTENDS EtwMonitor

CONSTANTS target, child, stranger

MCPids == {target, child, stranger}
MCParent == [p \in MCPids |-> IF p = child THEN target ELSE NoPid]

VARIABLE focus

MCInit == Init /\ focus \in {"trace", "record"}

\* What is left out is under no fairness, or has an alternative.
MCNext ==
    /\ Next /\ UNCHANGED focus
    /\ focus = "trace" => produced' < MaxProduced
    /\ focus = "record" =>
         /\ starts' <= 1
         /\ ~OpenTraceFails /\ ~ProcessTraceStops /\ ~LaunchFails /\ ~StartTraceFails

MCSpec == MCInit /\ [][MCNext]_<<vars, focus>> /\ Fairness
=============================================================================
