------------------------------ MODULE EtwMonitor ------------------------------
(***************************************************************************)
(* Kernel ETW telemetry (src/src/controller/etw_monitor.cpp): one kernel    *)
(* trace session, the thread that consumes it, and the buffer of events     *)
(* about the target's process tree.                                         *)
(*                                                                         *)
(* The launch worker begins a target session and starts the trace, the      *)
(* threads that see a target end stop it (one at a time, under stopMutex;   *)
(* they are detached, so that those of an earlier launch may do so in the   *)
(* middle of a launch), and a failed launch stops it without that mutex.    *)
(* The consumer thread may fail to open the trace, and ProcessTrace may     *)
(* return without anybody having stopped it; the thread then ends without   *)
(* being joined, and a start that assigns over it ends the program, which   *)
(* the analyst starts again.                                                *)
(*                                                                         *)
(* The consumer thread runs the callback, which looks at the set of target  *)
(* pids when an event arrives, reports process starts and exits, looks at   *)
(* the set again, and then adds the event: each is a critical section of    *)
(* its own, with other threads in between.                                  *)
(*                                                                         *)
(* An event is its number, its kind, the pid in its header and, for the     *)
(* start or the exit of a process, that process; the properties, summaries  *)
(* and texts of events are left out.                                        *)
(***************************************************************************)
EXTENDS Integers, Sequences, FiniteSets

CONSTANTS
    Pids,          \* process ids
    NoPid,         \* no process
    Root,          \* the process every launch creates
    Parent,        \* who creates a process
    MaxEvents,     \* 10000, the most events kept
    Evicted,       \* 1000, the oldest events dropped when there are more
    MaxProduced,   \* bound: events Windows delivers
    MaxStarts      \* bound: launches

ASSUME EtwAssumption ==
    /\ NoPid \notin Pids /\ Root \in Pids /\ Parent \in [Pids -> Pids \cup {NoPid}]
    /\ MaxEvents \in Nat /\ Evicted \in 1 .. MaxEvents
    /\ MaxProduced \in Nat /\ MaxStarts \in Nat

VARIABLES
    running,       \* g_EtwRunning
    handle,        \* g_SessionHandle # 0
    tracing,       \* g_TraceHandle is valid
    traced,        \* Windows has the trace session
    thread,        \* g_EtwThread: what it does next, "ended" until joined
    launcher,      \* the launch worker: what it does next
    was, armed,    \* the worker's etwWasRunning and etwArmed
    starts,        \* launches so far
    watched,       \* threads exist that stop ETW when a target ends
    stop,          \* the two ways to stop: what each does next
    targets,       \* g_EtwTargetPids
    keep,          \* g_EtwKeepEventsUntilTarget
    events,        \* g_EtwEvents
    members,       \* pids in the analysis session
    callback,      \* what the callback does next
    current,       \* the event it has
    produced,      \* number of the last event
    owed,          \* numbers of handled events that were about a target
    doubt          \* history: the trace may be neither wholly on nor wholly off

trace  == <<running, handle, tracing, traced, thread>>
worker == <<launcher, was, armed, starts, watched>>
filter == <<targets, keep>>
record == <<callback, current, produced, owed>>
code   == <<trace, worker, stop, filter, events, members, record>>
vars   == <<code, doubt>>

Kinds == {"other", "start", "exit", "imported"}
Event == [n: 0 .. MaxProduced, kind: Kinds, pid: Pids \cup {NoPid},
          subject: Pids \cup {NoPid}]
NoEvent == [n |-> 0, kind |-> "other", pid |-> Root, subject |-> Root]
Stoppers == {"ended target", "failed launch"}

Tree(p) == {q \in Pids : q = p \/ Parent[q] = p}

-----------------------------------------------------------------------------
\* ShouldRetainEventLocked
Retained(pid) == IF targets # {} THEN pid \in targets ELSE keep

\* PruneEventsForTargetsLocked
Pruned(buffer, pids) ==
    LET kept[n \in 0 .. Len(buffer)] ==
            IF n = 0 THEN <<>>
            ELSE IF buffer[n].pid \in pids THEN Append(kept[n - 1], buffer[n]) ELSE kept[n - 1]
    IN  kept[Len(buffer)]

\* Variant of AddTargets: the events of other processes are not pruned.
AddTargetsUnpruned(pids) ==
    IF pids \subseteq targets THEN UNCHANGED <<filter, events>>
    ELSE /\ targets' = targets \cup pids
         /\ keep' = FALSE
         /\ UNCHANGED events

\* AddEtwKernelTargetProcesses
AddTargets(pids) ==
    IF pids \subseteq targets THEN UNCHANGED <<filter, events>>
    ELSE /\ targets' = targets \cup pids
         /\ keep' = FALSE
         /\ events' = Pruned(events, targets \cup pids)

\* Variant of Pushed: the newest event makes room for itself.
PushedOverNewest(buffer, e) ==
    IF Len(buffer) = MaxEvents THEN [buffer EXCEPT ![MaxEvents] = e] ELSE Append(buffer, e)

Pushed(buffer, e) ==
    IF Len(buffer) < MaxEvents THEN Append(buffer, e)
    ELSE SubSeq(Append(buffer, e), Evicted + 1, MaxEvents + 1)

-----------------------------------------------------------------------------
Init ==
    /\ running = FALSE /\ handle = FALSE /\ tracing = FALSE /\ traced = FALSE
    /\ thread = "none"
    /\ launcher = "idle" /\ was = FALSE /\ armed = FALSE /\ starts = 0
    /\ watched = FALSE
    /\ stop = [s \in Stoppers |-> "idle"]
    /\ targets = {} /\ keep = FALSE
    /\ events = <<>>
    /\ members = {}
    /\ callback = "idle"
    /\ current = NoEvent
    /\ produced = 0 /\ owed = {}
    /\ doubt = FALSE

-----------------------------------------------------------------------------
(* The launch worker.                                                      *)

\* BeginSession and BeginEtwKernelTargetSession(true).  The previous launch has
\* returned.  StopPreviousSessionBeforeLaunch waits for stopMutex, but only
\* when there is a session to stop: a thread that stops ETW may still be at it.
BeginTargetSession ==
    /\ launcher = "idle" /\ starts < MaxStarts
    /\ stop["failed launch"] = "idle"
    /\ starts' = starts + 1
    /\ was' = running
    /\ events' = <<>> /\ targets' = {} /\ keep' = TRUE
    /\ members' = {}
    /\ launcher' = "arm"
    /\ UNCHANGED <<trace, armed, watched, stop, record>>

\* StartEtwKernelTelemetry: nothing to do while the flag is still set.
Arm ==
    /\ launcher = "arm"
    /\ running' = TRUE
    /\ armed' = running
    /\ launcher' = IF running THEN "launch" ELSE "start trace"
    /\ UNCHANGED <<handle, tracing, traced, thread, was, starts, watched, stop, filter, events, members, record>>
StartTrace ==
    /\ launcher = "start trace"
    /\ ~traced
    /\ traced' = TRUE /\ handle' = TRUE
    /\ launcher' = "spawn"
    /\ UNCHANGED <<running, tracing, thread, was, armed, starts, watched, stop, filter, events, members, record>>
\* ERROR_ALREADY_EXISTS, ERROR_ACCESS_DENIED or another error.
StartTraceFails ==
    /\ launcher = "start trace"
    /\ running' = FALSE /\ handle' = FALSE
    /\ launcher' = "launch"
    /\ UNCHANGED <<tracing, traced, thread, was, armed, starts, watched, stop, filter, events, members, record>>
\* A std::thread that has been joined, or never started, takes the new one.
SpawnThread ==
    /\ launcher = "spawn" /\ thread = "none"
    /\ thread' = "open"
    /\ armed' = TRUE
    /\ launcher' = "launch"
    /\ UNCHANGED <<running, handle, tracing, traced, was, starts, watched, stop, filter, events, members, record>>

\* LaunchAndInject fails, and the worker stops what it armed; or it succeeds.
LaunchFails ==
    /\ launcher = "launch"
    /\ stop' = [stop EXCEPT !["failed launch"] = IF armed /\ ~was THEN "check" ELSE @]
    /\ launcher' = "idle" /\ was' = FALSE /\ armed' = FALSE
    /\ UNCHANGED <<trace, starts, watched, filter, events, members, record>>
\* The root's exit watch and pipe reader, detached, outlive the launch.
RegisterRoot ==
    /\ launcher = "launch"
    /\ members' = members \cup {Root}
    /\ watched' = TRUE
    /\ launcher' = "register" /\ was' = FALSE /\ armed' = FALSE
    /\ UNCHANGED <<trace, starts, stop, filter, events, record>>
\* RegisterEtwTargetProcessTree
RegisterTargets ==
    /\ launcher = "register"
    /\ AddTargets(Tree(Root))
    /\ launcher' = "idle"
    /\ UNCHANGED <<trace, was, armed, starts, watched, stop, members, record>>

Launcher ==
    \/ Arm \/ StartTrace \/ StartTraceFails \/ SpawnThread
    \/ LaunchFails \/ RegisterRoot \/ RegisterTargets

\* Telemetry of a session process registers the tree of that process, and then
\* those of the processes that its parameters name.
TelemetryAddsTargets(p) ==
    /\ p \in members \/ members \cap targets # {}
    /\ AddTargets(Tree(p))
    /\ UNCHANGED <<trace, worker, stop, members, record>>

-----------------------------------------------------------------------------
(* StopEtwKernelTelemetry.                                                 *)

StopGoto(s, label) == stop' = [stop EXCEPT ![s] = label]

\* StopEtwForEndedTarget: a watch, a reader, a timer or a button, and since the
\* threads are detached and look at the session that is current, at any time.
TargetEnds ==
    /\ stop["ended target"] = "idle"
    /\ watched /\ running
    /\ StopGoto("ended target", "check")
    /\ UNCHANGED <<trace, worker, filter, events, members, record>>

StopCheck(s) ==
    /\ stop[s] = "check"
    /\ StopGoto(s, IF running \/ handle THEN "close" ELSE "idle")
    /\ UNCHANGED <<trace, worker, filter, events, members, record>>
StopClose(s) ==
    /\ stop[s] = "close"
    /\ tracing' = FALSE
    /\ StopGoto(s, "control")
    /\ UNCHANGED <<running, handle, traced, thread, worker, filter, events, members, record>>

\* Variant of StopControl: the trace session itself is not stopped.
StopControlSkipped(s) ==
    /\ stop[s] = "control"
    /\ handle' = FALSE
    /\ StopGoto(s, "join")
    /\ UNCHANGED <<running, tracing, traced, thread, worker, filter, events, members, record>>

StopControl(s) ==
    /\ stop[s] = "control"
    /\ traced' = FALSE /\ handle' = FALSE
    /\ StopGoto(s, "join")
    /\ UNCHANGED <<running, tracing, thread, worker, filter, events, members, record>>

StopJoin(s) ==
    /\ stop[s] = "join"
    /\ thread \in {"none", "ended"}
    /\ thread' = "none"
    /\ StopGoto(s, "finish")
    /\ UNCHANGED <<running, handle, tracing, traced, worker, filter, events, members, record>>
StopFinish(s) ==
    /\ stop[s] = "finish"
    /\ running' = FALSE
    /\ keep' = FALSE
    /\ StopGoto(s, "idle")
    /\ UNCHANGED <<handle, tracing, traced, thread, worker, targets, events, members, record>>

Stop(s) ==
    StopCheck(s) \/ StopClose(s) \/ StopControl(s) \/ StopJoin(s) \/ StopFinish(s)

-----------------------------------------------------------------------------
(* EtwThreadMain and EtwRecordCallback.                                    *)

OpenTrace ==
    /\ thread = "open"
    /\ tracing' = TRUE
    /\ thread' = "process"
    /\ UNCHANGED <<running, handle, traced, worker, stop, filter, events, members, record>>

\* OpenTraceW returns INVALID_PROCESSTRACE_HANDLE: the thread stops the session
\* itself and ends.
OpenTraceFails ==
    /\ thread = "open"
    /\ tracing' = FALSE
    /\ thread' = "give up"
    /\ UNCHANGED <<running, handle, traced, worker, stop, filter, events, members, record>>
GiveUp ==
    /\ thread = "give up"
    /\ traced' = FALSE /\ handle' = FALSE
    /\ thread' = "flag"
    /\ UNCHANGED <<running, tracing, worker, stop, filter, events, members, record>>

\* ProcessTrace returns once the session is stopped or its handle closed.
ProcessTraceReturns ==
    /\ thread = "process" /\ callback = "idle"
    /\ ~traced \/ ~tracing
    /\ tracing' = FALSE
    /\ thread' = "flag"
    /\ UNCHANGED <<running, handle, traced, worker, stop, filter, events, members, record>>
\* It returns by itself: on an error, or because another program has stopped
\* the session.
ProcessTraceStops ==
    /\ thread = "process" /\ callback = "idle"
    /\ traced /\ tracing
    /\ tracing' = FALSE
    /\ traced' \in BOOLEAN
    /\ thread' = "flag"
    /\ UNCHANGED <<running, handle, worker, stop, filter, events, members, record>>
ThreadEnds ==
    /\ thread = "flag"
    /\ running' = FALSE
    /\ thread' = "ended"
    /\ UNCHANGED <<handle, tracing, traced, worker, stop, filter, events, members, record>>

\* An event arrives: a process start passes, anything else needs a target.
Deliver(kind, pid, subject) ==
    /\ thread = "process" /\ callback = "idle"
    /\ traced /\ produced < MaxProduced
    /\ produced' = produced + 1
    /\ IF kind = "start" \/ Retained(IF kind = "exit" THEN subject ELSE pid)
       THEN /\ callback' = "report"
            /\ current' = [n |-> produced + 1, kind |-> kind, pid |-> pid, subject |-> subject]
       ELSE UNCHANGED <<callback, current>>
    /\ UNCHANGED <<trace, worker, stop, filter, events, members, owed>>

\* OnChildProcessSpawned takes a child of a session process into the session
\* and makes it a target; OnProcessExited changes nothing here.
Report ==
    /\ callback = "report"
    /\ IF current.kind = "start" /\ Parent[current.subject] \in members
       THEN /\ members' = members \cup {current.subject}
            /\ AddTargets({current.subject})
       ELSE UNCHANGED <<members, filter, events>>
    /\ callback' = "decide"
    /\ UNCHANGED <<trace, worker, stop, current, produced, owed>>

\* The second look, with the pid of the event's header.
KeepsEvent ==
    \/ Retained(current.pid)
    \/ current.kind = "start" /\ {current.subject, Parent[current.subject]} \cap targets # {}
Decide ==
    /\ callback = "decide"
    /\ IF KeepsEvent THEN callback' = "push" /\ UNCHANGED current
       ELSE callback' = "idle" /\ current' = NoEvent
    /\ UNCHANGED <<trace, worker, stop, filter, events, members, produced, owed>>
Push ==
    /\ callback = "push"
    /\ events' = Pushed(events, current)
    /\ callback' = "idle" /\ current' = NoEvent
    /\ owed' = IF current.pid \in targets THEN owed \cup {current.n} ELSE owed
    /\ UNCHANGED <<trace, worker, stop, filter, members, produced>>

Thread ==
    \/ OpenTrace \/ OpenTraceFails \/ GiveUp \/ ProcessTraceReturns \/ ThreadEnds
    \/ Report \/ Decide \/ Push

-----------------------------------------------------------------------------
\* ClearEtwKernelEvents and ReplaceEtwKernelEvents, from the UI thread.
Clear ==
    /\ events # <<>>
    /\ events' = <<>>
    /\ UNCHANGED <<trace, worker, stop, filter, members, record>>
\* An imported event is about a process of another time.
Replace ==
    /\ launcher = "idle"
    /\ events' = <<[n |-> 0, kind |-> "imported", pid |-> NoPid, subject |-> NoPid]>>
    /\ UNCHANGED <<trace, worker, stop, filter, members, record>>

-----------------------------------------------------------------------------
\* A joinable std::thread is assigned over, or two threads join it at once: the
\* program ends.  The trace session outlives it, and the analyst starts again.
ProgramEnds ==
    /\ \/ launcher = "spawn" /\ thread # "none"
       \/ thread = "ended" /\ \A s \in Stoppers : stop[s] = "join"
    /\ running' = FALSE /\ handle' = FALSE /\ tracing' = FALSE /\ thread' = "none"
    /\ launcher' = "idle" /\ was' = FALSE /\ armed' = FALSE /\ watched' = FALSE
    /\ stop' = [s \in Stoppers |-> "idle"]
    /\ targets' = {} /\ keep' = FALSE
    /\ events' = <<>> /\ members' = {}
    /\ callback' = "idle" /\ current' = NoEvent /\ owed' = {}
    /\ UNCHANGED <<traced, starts, produced>>

Step ==
    \/ BeginTargetSession
    \/ Launcher
    \/ TargetEnds
    \/ \E s \in Stoppers : Stop(s)
    \/ Thread
    \/ ProcessTraceStops
    \/ \E p \in Pids : TelemetryAddsTargets(p)
    \/ \E p \in Pids : Deliver("other", p, p)
    \/ \E p \in Pids : Parent[p] # NoPid /\ Deliver("start", Parent[p], p)
    \/ \E p, q \in Pids : Deliver("exit", p, q)
    \/ Clear
    \/ Replace
    \/ ProgramEnds

-----------------------------------------------------------------------------
(* The history of what may leave the trace neither wholly on nor wholly     *)
(* off, until it is seen to be wholly off.                                  *)

Starting == launcher \in {"start trace", "spawn"}
Stopping == \E s \in Stoppers : stop[s] # "idle"

\* Nobody is at work on the trace, and nothing of it is left.
WhollyOff ==
    /\ ~running /\ ~handle /\ ~traced /\ thread = "none"
    /\ ~Starting /\ ~Stopping

\* The thread gives up before anybody has begun to stop it.
GivesUp ==
    /\ thread \in {"open", "process"} /\ thread' \in {"give up", "flag"}
    /\ \A s \in Stoppers : stop[s] \in {"idle", "check"}

Judge ==
    doubt' = (~WhollyOff' /\ (doubt \/ GivesUp \/ (Starting /\ Stopping)' \/ ProgramEnds))

Next == Step /\ Judge

Fairness ==
    /\ WF_code(Thread)
    /\ WF_code(Launcher)
    /\ \A s \in Stoppers : WF_code(Stop(s))

Spec == Init /\ [][Next]_vars /\ Fairness

-----------------------------------------------------------------------------
TypeOK ==
    /\ {running, handle, tracing, traced, keep, was, armed, watched} \subseteq BOOLEAN
    /\ thread \in {"none", "open", "process", "give up", "flag", "ended"}
    /\ launcher \in {"idle", "arm", "start trace", "spawn", "launch", "register"}
    /\ starts \in 0 .. MaxStarts
    /\ stop \in [Stoppers -> {"idle", "check", "close", "control", "join", "finish"}]
    /\ targets \subseteq Pids /\ members \subseteq Pids
    /\ events \in Seq(Event) /\ Len(events) <= MaxEvents
    /\ callback \in {"idle", "report", "decide", "push"}
    /\ current \in Event
    /\ produced \in 0 .. MaxProduced /\ owed \subseteq 1 .. MaxProduced
    /\ doubt \in BOOLEAN

\* A trace that cannot be opened is a status, "OpenTrace failed", of a program
\* that goes on (etw_monitor.cpp:611): g_EtwThread is assigned only when it
\* holds no thread, for assigning to a joinable std::thread ends the program.
StartsUnjoined == launcher = "spawn" => thread = "none"

\* Once nobody starts or stops and the flag says stopped, there is no trace
\* session left in Windows, no handle and no thread to join, whoever stopped it
\* and however many at once: unless, since the trace was last wholly off, its
\* thread gave up unasked, a stop met a start, or the program ended.
QuiescentIsStopped ==
    ~doubt /\ ~running /\ ~Starting /\ ~Stopping => ~traced /\ ~handle /\ thread = "none"

\* Whoever stops the trace gets out of the join, even when the trace is
\* stopped before the thread has opened it.  Only a trace that a launch starts
\* while the stop is under way can hold it: then it joins the new thread, for
\* as long as that trace runs.
StopEnds ==
    \A s \in Stoppers :
        []<>(stop[s] = "idle") \/ <>[](stop[s] = "join" /\ traced /\ doubt)

Own(i) == events[i].kind # "imported"

\* The events in the buffer are in the order they came in, and an event about
\* a target is dropped only with every event before it.
TargetEventsKept ==
    /\ \A i, j \in DOMAIN events : i < j /\ Own(i) /\ Own(j) => events[i].n < events[j].n
    /\ \A n \in owed :
         \/ \E i \in DOMAIN events : events[i].n = n
         \/ \A i \in DOMAIN events : Own(i) => n < events[i].n

OutOfScope(i) ==
    /\ Own(i)
    /\ events[i].pid \notin targets
    /\ events[i].kind = "start" =>
         {events[i].subject, Parent[events[i].subject]} \cap targets = {}

\* "ETW kernel telemetry scoped to the target process tree" (README.md:15), but
\* for one: once the target is known, at most one event of another process stays
\* in the buffer, the one on its way in when the first target was added.
AtMostOneStray ==
    targets # {} => Cardinality({i \in DOMAIN events : OutOfScope(i)}) <= 1

=============================================================================
