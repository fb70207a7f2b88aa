-------------------------- MODULE ProcessTreeManager --------------------------
(***************************************************************************)
(* The analysis session kept by the controller: the singleton              *)
(* ProcessTreeManager (src/src/controller/process_tree_manager.cpp) and the *)
(* record AnalysisSession it guards with one mutex.  Every public method    *)
(* holds that mutex from its first to its last statement, so each of them   *)
(* is one atomic action here.                                               *)
(*                                                                         *)
(* The callers are the Start Analysis button and the launch worker          *)
(* (BeginSession, RegisterRoot, StopSession), the ETW callback              *)
(* (ObserveChild, MarkExited), one detached thread per watched process      *)
(* (MarkExited, StopSession), one detached thread per queued injection      *)
(* (MarkInjectionResult) and the Export and Import buttons (Snapshot,       *)
(* Reset, Restore).  The detached threads outlive the session that started  *)
(* them, so a result or an exit may arrive for any pid in any session.      *)
(*                                                                         *)
(* Paths, command lines, times, exit codes, decision and reason texts and   *)
(* the sets commandOnlyPids and skippedPids, which repeat the status a row  *)
(* began with, are left out: nothing reads them back.                       *)
(***************************************************************************)
EXTENDS Integers, Sequences, FiniteSets

CONSTANTS
    Pids,           \* process ids that Windows may hand out
    NoPid,          \* the pid 0 of an unset field
    ControllerPid,  \* GetCurrentProcessId() of the controller
    InstrumentRoot, \* the values of TriggerLaunch's instrumentRoot
    Decisions,      \* what DecideChildInstrumentation may answer
    MaxNodes,       \* bound: rows of processTreeNodes
    MaxSaved,       \* bound: rows in the exported file
    MaxSessions     \* bound: calls of BeginSession

AllDecisions == {"InjectAndMonitor", "LogCommandOnly", "IgnoreSystemNoise"}

\* Pid 0 is no process and no other process has the pid of the controller;
\* the two enumerations are those of the code.
ASSUME PidAssumption == NoPid \notin Pids /\ ControllerPid \in Pids
ASSUME EnumAssumption ==
    InstrumentRoot \subseteq BOOLEAN /\ Decisions \subseteq AllDecisions
ASSUME BoundAssumption == {MaxNodes, MaxSaved, MaxSessions} \subseteq Nat

VARIABLES
    generation,       \* generation_
    launching,        \* a launch worker still has to call RegisterRoot
    active,           \* session_.active
    identified,       \* session_.sessionId is not the empty string
    nodes,            \* session_.processTreeNodes
    rootPid, launcherPid, primaryPid,
    monitoredPids, exitedPids,
    exported          \* the analysis_session object of the exported file

ids  == <<rootPid, launcherPid, primaryPid>>
sets == <<monitoredPids, exitedPids>>
vars == <<generation, launching, active, identified, nodes, ids, sets, exported>>

Statuses == {"injected", "command-only", "pending", "skipped",
             "exited-before-injection", "failed"}
Relationships == {"root", "launcher", "primary", "monitored-child",
                  "command-only", "skipped"}

Node == [pid: Pids, parentPid: Pids \cup {NoPid}, relationship: Relationships,
         status: Statuses, monitored: BOOLEAN, exited: BOOLEAN,
         exitWatchStarted: BOOLEAN]

Saved == [identified: BOOLEAN, nodes: Seq(Node), rootPid: Pids \cup {NoPid},
          launcherPid: Pids \cup {NoPid}, primaryPid: Pids \cup {NoPid}]

-----------------------------------------------------------------------------
IsRoot(n) == n.relationship \in {"root", "launcher"}
IsLive(n, pid) == n.pid = pid /\ ~n.exited

\* Variant of FirstLive: the search of ObserveChild forgets to skip exited rows.
FirstLiveIgnoringExit(i, pid) ==
    nodes[i].pid = pid /\ \A j \in 1 .. i - 1 : nodes[j].pid # pid

\* The row each search of the code ends at.
FirstLive(i, pid) ==
    /\ IsLive(nodes[i], pid)
    /\ \A j \in 1 .. i - 1 : ~IsLive(nodes[j], pid)
LastLive(i, pid) ==
    /\ IsLive(nodes[i], pid)
    /\ \A j \in i + 1 .. Len(nodes) : ~IsLive(nodes[j], pid)
LastRow(i, pid) ==
    /\ nodes[i].pid = pid
    /\ \A j \in i + 1 .. Len(nodes) : nodes[j].pid # pid

BelongsToSession(pid) == \E i \in DOMAIN nodes : nodes[i].pid = pid

\* session_ = {}
ClearSession ==
    /\ nodes' = <<>>
    /\ rootPid' = NoPid /\ launcherPid' = NoPid /\ primaryPid' = NoPid
    /\ monitoredPids' = {} /\ exitedPids' = {}

-----------------------------------------------------------------------------
Init ==
    /\ generation = 0
    /\ launching = FALSE
    /\ active = FALSE
    /\ identified = FALSE
    /\ nodes = <<>>
    /\ rootPid = NoPid /\ launcherPid = NoPid /\ primaryPid = NoPid
    /\ monitoredPids = {} /\ exitedPids = {}
    /\ exported = [identified |-> FALSE, nodes |-> <<>>, rootPid |-> NoPid,
                   launcherPid |-> NoPid, primaryPid |-> NoPid]

\* Start Analysis: the button is disabled while a launch is in progress.
BeginSession ==
    /\ generation < MaxSessions
    /\ ~launching
    /\ generation' = generation + 1
    /\ identified' = TRUE
    /\ active' = TRUE
    /\ launching' = TRUE
    /\ ClearSession
    /\ UNCHANGED exported

\* The launch worker after LaunchAndInject or LaunchDll succeeded.
RegisterRoot(pid, launcherOnly, instrumented) ==
    /\ launching
    /\ Len(nodes) < MaxNodes
    /\ pid # ControllerPid
    /\ launching' = FALSE
    /\ rootPid' = pid
    /\ launcherPid' = IF launcherOnly THEN pid ELSE NoPid
    /\ primaryPid' = IF launcherOnly THEN NoPid ELSE pid
    /\ monitoredPids' = IF instrumented THEN monitoredPids \cup {pid}
                                          ELSE monitoredPids
    /\ nodes' = Append(nodes,
         [pid |-> pid, parentPid |-> NoPid,
          relationship |-> IF launcherOnly THEN "launcher" ELSE "root",
          status |-> IF instrumented THEN "injected" ELSE "command-only",
          monitored |-> instrumented, exited |-> FALSE,
          exitWatchStarted |-> FALSE])
    /\ UNCHANGED <<generation, active, identified, exitedPids, exported>>

\* The launch worker after a failed launch.
LaunchFailed ==
    /\ launching
    /\ launching' = FALSE
    /\ active' = FALSE
    /\ UNCHANGED <<generation, identified, nodes, ids, sets, exported>>

StopSession ==
    /\ active
    /\ active' = FALSE
    /\ UNCHANGED <<generation, launching, identified, nodes, ids, sets, exported>>

-----------------------------------------------------------------------------
\* Variant of Observable: a child of any parent is taken into the session.
ObservableFromAnyParent(child, parent) ==
    child # ControllerPid /\ (active \/ identified)

\* ObserveChild drops a report about the controller itself, about an unknown
\* parent, and any report while no session was ever begun.
Observable(child, parent) ==
    /\ child # ControllerPid
    /\ active \/ identified
    /\ BelongsToSession(parent)

\* A row seen again: arm its exit watch if nobody did, and queue an injection
\* unless one is pending or done.
Observed(row, decision) ==
    [row EXCEPT
       !.exitWatchStarted = TRUE,
       !.status = IF decision = "InjectAndMonitor" /\ @ \notin {"pending", "injected"}
                  THEN "pending" ELSE @]

ObserveKnownChild(child, parent, decision) ==
    /\ Observable(child, parent)
    /\ \E i \in DOMAIN nodes :
         /\ FirstLive(i, child)
         /\ nodes' = [nodes EXCEPT ![i] = Observed(@, decision)]
    /\ UNCHANGED <<generation, launching, active, identified, ids, sets, exported>>

\* What the decision makes of a new row.
StatusOf ==
    [InjectAndMonitor  |-> "pending",
     LogCommandOnly    |-> "command-only",
     IgnoreSystemNoise |-> "skipped"]
RelationshipOf ==
    [InjectAndMonitor  |-> "monitored-child",
     LogCommandOnly    |-> "command-only",
     IgnoreSystemNoise |-> "skipped"]

\* Variant of PromotesPrimary: every child of a launcher becomes primary.
PromotesEveryChild == launcherPid # NoPid

PromotesPrimary == primaryPid = NoPid /\ launcherPid # NoPid

NewChild(child, parent, decision) ==
    [pid |-> child, parentPid |-> parent,
     relationship |-> IF PromotesPrimary THEN "primary" ELSE RelationshipOf[decision],
     status |-> StatusOf[decision], monitored |-> FALSE, exited |-> FALSE,
     exitWatchStarted |-> TRUE]

\* Variant of ObserveNewChild: the child is not looked up first.
ObserveChildTwice(child, parent, decision) ==
    /\ Len(nodes) < MaxNodes
    /\ Observable(child, parent)
    /\ nodes' = Append(nodes, NewChild(child, parent, decision))
    /\ UNCHANGED <<generation, launching, active, identified, ids, sets, exported>>

ObserveNewChild(child, parent, decision) ==
    /\ Len(nodes) < MaxNodes
    /\ Observable(child, parent)
    /\ \A i \in DOMAIN nodes : ~IsLive(nodes[i], child)
    /\ nodes' = Append(nodes, NewChild(child, parent, decision))
    /\ primaryPid' = IF PromotesPrimary THEN child ELSE primaryPid
    /\ monitoredPids' = IF decision = "InjectAndMonitor"
                        THEN monitoredPids \cup {child} ELSE monitoredPids
    /\ UNCHANGED <<generation, launching, active, identified, rootPid, launcherPid,
                   exitedPids, exported>>

Injected(row, injected) ==
    [row EXCEPT
       !.monitored = injected,
       !.status = IF injected THEN "injected"
                  ELSE IF row.exited THEN "exited-before-injection" ELSE "failed"]

\* The injection thread reports on the last row of its pid, whatever session
\* that row belongs to.
MarkInjectionResult(pid, injected) ==
    /\ \E i \in DOMAIN nodes :
         /\ LastRow(i, pid)
         /\ nodes' = [nodes EXCEPT ![i] = Injected(@, injected)]
    /\ monitoredPids' = IF injected THEN monitoredPids \cup {pid} ELSE monitoredPids
    /\ UNCHANGED <<generation, launching, active, identified, ids, exitedPids, exported>>

Exited(row) ==
    [row EXCEPT
       !.exited = TRUE,
       !.status = IF @ = "pending" THEN "exited-before-injection" ELSE @]

MarkExited(pid) ==
    /\ \E i \in DOMAIN nodes :
         /\ LastLive(i, pid)
         /\ nodes' = [nodes EXCEPT ![i] = Exited(@)]
    /\ exitedPids' = exitedPids \cup {pid}
    /\ UNCHANGED <<generation, launching, active, identified, ids, monitoredPids, exported>>

-----------------------------------------------------------------------------
\* Import with no usable analysis_session object in the file.
Reset ==
    /\ identified
    /\ active' = FALSE
    /\ identified' = FALSE
    /\ ClearSession
    /\ UNCHANGED <<generation, launching, exported>>

\* Export writes the rows without exitWatchStarted and without the sets.
Export ==
    /\ Len(nodes) <= MaxSaved
    /\ exported' = [identified |-> identified,
                    nodes |-> [i \in DOMAIN nodes |->
                                 [nodes[i] EXCEPT !.exitWatchStarted = FALSE]],
                    rootPid |-> rootPid, launcherPid |-> launcherPid,
                    primaryPid |-> primaryPid]
    /\ UNCHANGED <<generation, launching, active, identified, nodes, ids, sets>>

\* Import calls Reset and later Restore with a session rebuilt from the file:
\* two calls, so that the other threads may come between them.
PidsWith(rows, statuses) ==
    {rows[i].pid : i \in {k \in DOMAIN rows : rows[k].status \in statuses}}

\* Variant of Restore: the imported rows are added to those already there.
RestoreByMerging ==
    /\ active' = FALSE
    /\ identified' = exported.identified
    /\ nodes' = nodes \o exported.nodes
    /\ UNCHANGED <<generation, launching, ids, sets, exported>>

\* Variant of Restore: the sets of the old session are kept.
RestoreKeepingSets ==
    /\ active' = FALSE
    /\ identified' = exported.identified
    /\ nodes' = exported.nodes
    /\ rootPid' = exported.rootPid
    /\ launcherPid' = exported.launcherPid
    /\ primaryPid' = exported.primaryPid
    /\ UNCHANGED <<generation, launching, sets, exported>>

Restore ==
    /\ active' = FALSE
    /\ identified' = exported.identified
    /\ nodes' = exported.nodes
    /\ rootPid' = exported.rootPid
    /\ launcherPid' = exported.launcherPid
    /\ primaryPid' = exported.primaryPid
    /\ monitoredPids' = PidsWith(exported.nodes, {"injected", "pending"})
    /\ exitedPids' = {exported.nodes[i].pid :
                        i \in {k \in DOMAIN exported.nodes : exported.nodes[k].exited}}
    /\ UNCHANGED <<generation, launching, exported>>

-----------------------------------------------------------------------------
Next ==
    \/ BeginSession
    \/ LaunchFailed
    \/ StopSession
    \/ Reset
    \/ Export
    \/ Restore
    \/ \E pid \in Pids, instrumented \in InstrumentRoot, launcherBased \in BOOLEAN :
         RegisterRoot(pid, ~instrumented /\ launcherBased, instrumented)
    \/ \E child \in Pids, parent \in Pids, d \in Decisions :
         /\ child # parent
         /\ \/ ObserveKnownChild(child, parent, d)
            \/ ObserveNewChild(child, parent, d)
    \/ \E pid \in Pids, injected \in BOOLEAN : MarkInjectionResult(pid, injected)
    \/ \E pid \in Pids : MarkExited(pid)

Spec == Init /\ [][Next]_vars

-----------------------------------------------------------------------------
TypeOK ==
    /\ generation \in Nat
    /\ launching \in BOOLEAN
    /\ active \in BOOLEAN
    /\ identified \in BOOLEAN
    /\ nodes \in Seq(Node)
    /\ rootPid \in Pids \cup {NoPid}
    /\ launcherPid \in Pids \cup {NoPid}
    /\ primaryPid \in Pids \cup {NoPid}
    /\ monitoredPids \subseteq Pids
    /\ exitedPids \subseteq Pids
    /\ exported \in Saved

\* A tree with more than one root is an imported tree to which a launch that
\* was already running has added its root.
SingleRoot(rows) == \A i \in DOMAIN rows : IsRoot(rows[i]) => i = 1

OneLiveRowPerPid(rows) ==
    SingleRoot(rows) =>
        \A i, j \in DOMAIN rows :
            rows[i].pid = rows[j].pid /\ ~rows[i].exited /\ ~rows[j].exited => i = j

\* The rows of one pid tell processes apart that used the same pid one after
\* the other: at most one of them is live, so that an exit and an injection
\* result have one row to go to.  (ObserveChild looks for a live row before it
\* adds one, RegisterRoot does not.)
LivePidsUnique == OneLiveRowPerPid(nodes)

Rooted(rows) ==
    \A i \in DOMAIN rows :
        \/ IsRoot(rows[i])
        \/ \E j \in 1 .. i - 1 : rows[j].pid = rows[i].parentPid

\* Every row but a root descends from a row that was there before it, whatever
\* stale result, exit, reuse of a pid or import came between.
DescendsFromRoot == Rooted(nodes)

PendingRowsLive(rows) ==
    \A i \in DOMAIN rows : rows[i].status = "pending" => ~rows[i].exited

\* No row waits for an injection into a process that has exited: a late
\* observation, a late exit or a late result never leaves "pending" behind.
PendingIsLive == PendingRowsLive(nodes)

FlagMatchesStatus(rows) ==
    \A i \in DOMAIN rows : rows[i].monitored <=> rows[i].status = "injected"

MonitoredAgrees ==
    /\ FlagMatchesStatus(nodes)
    /\ \A i \in DOMAIN nodes : nodes[i].monitored => nodes[i].pid \in monitoredPids

ExitedAgrees ==
    \A pid \in Pids :
        pid \in exitedPids <=> \E i \in DOMAIN nodes : nodes[i].pid = pid /\ nodes[i].exited

\* The flag, the status and the set of monitored pids agree on what runs the
\* agent, and exitedPids holds exactly the pids that some exited row has: in a
\* session that ran here and in one that was imported.
SetsMatchRows == MonitoredAgrees /\ ExitedAgrees

PrimaryNamed(rows, launcher, primary) ==
    SingleRoot(rows) =>
        \A i \in DOMAIN rows :
            rows[i].relationship = "primary" =>
                /\ launcher # NoPid
                /\ primary = rows[i].pid
                /\ \A j \in DOMAIN rows : rows[j].relationship = "primary" => j = i

\* Below one launcher, at most one child is promoted to primary, and the
\* session names it.
OnePrimary == PrimaryNamed(nodes, launcherPid, primaryPid)

-----------------------------------------------------------------------------
HistoryOf(rows) ==
    [i \in DOMAIN rows |-> [pid |-> rows[i].pid, parentPid |-> rows[i].parentPid,
                            exited |-> rows[i].exited]]

History == INSTANCE SessionHistory WITH
    history <- HistoryOf(nodes), saved <- HistoryOf(exported.nodes)

\* The session is a history: whatever the threads report and in whatever order,
\* rows are only added, exits are permanent, and an import brings back what was
\* exported.
ImplementsHistory == History!Spec

=============================================================================
