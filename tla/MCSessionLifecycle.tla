-------------------------- MODULE MCSessionLifecycle --------------------------
(* A small instance of SessionLifecycle for TLC.  A behaviour is one analysis  *)
(* with a child, a run duration and a reader that may break ("one"), or one    *)
(* without the first two and the launch of the next, up to the moment when its *)
(* worker is about to begin ("two").                                           *)
EXTENDS SessionLifecycle

VARIABLE focus

MCInit == Init /\ focus \in {"one", "two"}

MCNext ==
    /\ Next /\ UNCHANGED focus
    /\ focus = "one" => ~(ClickStart /\ run = 1)
    /\ focus = "two" =>
         /\ \A k \in Kids : os'[k] = "none"
         /\ \A r \in Roots : at'[Timer(r)] = "none"
         /\ run' = 2 => worker' = "idle"

\* The threads of the second launch, and the timer of the first when it is left
\* out, need no fairness: they do not exist.
MCFairness ==
    /\ WF_vars(UiContinues) /\ WF_vars(Worker)
    /\ \A p \in {1} \cup Kids : WF_vars(WatchSessionProcessExit(p))
    /\ WF_vars(PipeReaderThread(1)) /\ WF_vars(AutoTerminate(1))

MCSpec == MCInit /\ [][MCNext]_<<vars, focus>> /\ MCFairness
=============================================================================
