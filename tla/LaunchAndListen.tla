---------------------------- MODULE LaunchAndListen ----------------------------
(***************************************************************************)
(* How agents come to be served, one way at a time: by the launch and the   *)
(* injection of a child, which load them (TargetLaunch), and by the         *)
(* listeners that those which are loaded come to (PipeListeners).  The two  *)
(* share no state: to a listener an agent is there or it is not.  "part" is *)
(* the one of a behaviour.                                                  *)
(***************************************************************************)
EXTENDS TargetLaunch, PipeListeners

VARIABLE part

partVars == <<part, vars, listenerVars>>

PartInit ==
    /\ part \in {"launch", "listeners"}
    /\ Init /\ ListenersInit
    /\ part = "listeners" => \A j \in Jobs : direct[j]     \* one start is enough

PartNext ==
    \/ part = "launch" /\ Next /\ UNCHANGED <<part, listenerVars>>
    \/ part = "listeners" /\ ListenersNext /\ UNCHANGED <<part, vars>>

\* The fairness of each part; what is enabled from the start, only for its part.
PartFairness ==
    /\ WF_vars(part = "launch" /\ Launch)
    /\ WF_vars(part = "launch" /\ InjectChild) /\ WF_vars(part = "launch" /\ OutputEnds)
    /\ ListenersFairness

PartSpec == PartInit /\ [][PartNext]_partVars /\ PartFairness

\* Every launch ends (TargetLaunch!LaunchEnds, where there is one), whoever
\* holds the other ends of its pipes.
LaunchesEnd ==
    (part = "launch" /\ pc["launch"] # "done") ~> (pc["launch"] = "done")

=============================================================================
