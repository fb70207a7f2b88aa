--------------------------- MODULE MonitoredProcess ---------------------------
(***************************************************************************)
(* The agent in a monitored process, one half of it at a time: its pipe to  *)
(* the controller with the telemetry that goes through it (AgentPipe), and  *)
(* its hooks (HookManager).  AgentPipe has of the hooks that they are       *)
(* active or not; HookManager has of the pipe that it is closed some day.   *)
(* "half" is the one of a behaviour.                                        *)
(***************************************************************************)
EXTENDS AgentPipe, HookManager

VARIABLE half

halfVars == <<half, vars, hookVars>>

HalfInit ==
    /\ half \in {"pipe", "hooks"}
    /\ Init /\ HookInit
    \* One start is enough for the half that a behaviour is not about.
    /\ half # "pipe" => kind = "root"
    /\ half # "hooks" => loaded = Pinned

HalfNext ==
    \/ half = "pipe" /\ Next /\ UNCHANGED <<half, hookVars>>
    \/ half = "hooks" /\ HookNext /\ UNCHANGED <<half, vars>>

\* The fairness of AgentPipe, where what is enabled from the start is guarded.
HalfFairness ==
    /\ \A t \in Threads :
         WF_vars(Detour(t)) /\ SF_vars(proc # "gone" /\ agent # "unloaded" /\ SendLock(t))
    /\ WF_vars(half = "pipe" /\ Agent) /\ WF_vars(half = "pipe" /\ Server)

HalfSpec == HalfInit /\ [][HalfNext]_halfVars /\ HalfFairness

=============================================================================
