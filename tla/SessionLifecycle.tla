--------------------------- MODULE SessionLifecycle ---------------------------
(***************************************************************************)
(* One analysis after the other: how the controller's threads start, notice *)
(* the end of, and stop an analysis (src/src/controller/gui.cpp and the     *)
(* pipe readers of controller.cpp).                                         *)
(*                                                                         *)
(* The threads are the UI thread (Start Analysis, Terminate Tree), the      *)
(* launch worker, the ETW callback and, detached and never cancelled, one   *)
(* exit watch per process of a session, one pipe reader and one             *)
(* auto-terminate timer per launch.  They share g_Target, a plain struct,   *)
(* the run-timer token, the ETW session and the ProcessTreeManager.  A step *)
(* here is one access to what they share, so a thread may be stopped        *)
(* between a check and what it does about it.                               *)
(*                                                                         *)
(* Process ids are not reused here and the rows of the session are reduced  *)
(* to absent, live or exited: module ProcessTreeManager has the rest of the *)
(* session, EtwMonitor the rest of ETW.  The root of the n-th launch is     *)
(* process n.                                                               *)
(***************************************************************************)
EXTENDS Integers

CONSTANTS
    MaxRuns,       \* bound: clicks on Start Analysis
    MaxKids,       \* bound: processes the targets create
    TimedRuns,     \* launches that may have a run duration
    PipeMayBreak   \* a reader may also end on a rejected or broken message

ASSUME LifecycleAssumption ==
    MaxRuns \in Nat /\ MaxKids \in Nat /\ TimedRuns \subseteq Nat /\ PipeMayBreak \in BOOLEAN

Roots == 1 .. MaxRuns
Kids == MaxRuns + 1 .. MaxRuns + MaxKids
Procs == Roots \cup Kids
NoProc == 0

VARIABLES
    os,            \* what Windows says of a process
    parent,        \* who created it
    run,           \* number of the session, ProcessTreeManager::generation_
    active,        \* session_.active
    rows,          \* the session's row of a process
    etw,           \* g_EtwRunning
    targetActive,  \* g_Target.active
    targetPid,     \* g_Target.pid
    token,         \* whose timer g_RunTimerToken still names
    launching,     \* g_LaunchingTarget
    ui,            \* the UI thread: what it does next
    worker,        \* the launch worker: what it does next
    etwWas, armed, \* the worker's etwWasRunning and etwArmed
    at             \* the detached threads: what each does next

system  == <<os, parent>>
session == <<run, active, rows>>
target  == <<targetActive, targetPid>>
launch  == <<launching, worker, etwWas, armed>>
vars    == <<system, session, etw, target, token, launch, ui, at>>

\* An exit watch whose OpenProcess failed goes on as Missed(p).
Watch(p)  == <<"watch", p>>
Missed(p) == <<"missed", p>>
Read(r)   == <<"read", r>>
Timer(r)  == <<"timer", r>>
Threads == ({"watch", "missed"} \X Procs) \cup ({"read", "timer"} \X Roots)

Alive(p) == os[p] \in {"suspended", "running"}
HasLiveProcesses == \E p \in Procs : rows[p] = "live"

\* The processes TerminateProcessTree(p) finds in its snapshots.
Below(ps) == {k \in Kids : Alive(k) /\ parent[k] \in ps}
Tree(p) ==
    LET reach[n \in 0 .. MaxKids] ==
            IF n = 0 THEN {p} ELSE reach[n - 1] \cup Below(reach[n - 1])
    IN  reach[MaxKids]

TerminateAll(ps) ==
    os' = [q \in Procs |->
             IF Alive(q) /\ \E p \in ps : q \in Tree(p) THEN "gone" ELSE os[q]]
TerminateProcessTree(p) == TerminateAll({p})

Goto(thread, label) == at' = [at EXCEPT ![thread] = label]

-----------------------------------------------------------------------------
Init ==
    /\ os = [p \in Procs |-> "none"]
    /\ parent = [k \in Kids |-> NoProc]
    /\ run = 0 /\ active = FALSE
    /\ rows = [p \in Procs |-> "absent"]
    /\ etw = FALSE
    /\ targetActive = FALSE /\ targetPid = NoProc
    /\ token = NoProc
    /\ launching = FALSE /\ worker = "idle" /\ etwWas = FALSE /\ armed = FALSE
    /\ ui = "idle"
    /\ at = [t \in Threads |-> "none"]

-----------------------------------------------------------------------------
(* The UI thread.                                                          *)

\* Variant of ClickStart: the button is not disabled.
ClickStartAnyTime ==
    /\ ui = "idle" /\ run < MaxRuns
    /\ ui' = IF active \/ targetActive THEN "terminate" ELSE "begin"
    /\ UNCHANGED <<system, session, etw, target, token, launch, at>>

\* Start Analysis is disabled while a launch is in progress.
ClickStart ==
    /\ ui = "idle" /\ ~launching /\ run < MaxRuns
    /\ ui' = IF active \/ targetActive THEN "terminate" ELSE "begin"
    /\ UNCHANGED <<system, session, etw, target, token, launch, at>>

\* StopPreviousSessionBeforeLaunch: the root's tree and every live row.
StopPreviousTerminate ==
    /\ ui = "terminate"
    /\ token' = NoProc
    /\ TerminateAll({q \in Procs : rows[q] = "live" \/ (q = run /\ rows[q] # "absent")})
    /\ ui' = "deactivate"
    /\ UNCHANGED <<parent, session, etw, target, launch, at>>
StopPreviousDeactivate ==
    /\ ui = "deactivate"
    /\ targetActive' = FALSE
    /\ ui' = "stop etw"
    /\ UNCHANGED <<system, session, etw, targetPid, token, launch, at>>
StopPreviousEtw ==
    /\ ui = "stop etw"
    /\ etw' = FALSE
    /\ ui' = "stop session"
    /\ UNCHANGED <<system, session, target, token, launch, at>>
StopPreviousSession ==
    /\ ui = "stop session"
    /\ active' = FALSE
    /\ ui' = "begin"
    /\ UNCHANGED <<system, run, rows, etw, target, token, launch, at>>

BeginSession ==
    /\ ui = "begin"
    /\ run' = run + 1 /\ active' = TRUE
    /\ rows' = [p \in Procs |-> "absent"]
    /\ ui' = "launch"
    /\ UNCHANGED <<system, etw, target, token, launch, at>>

\* TriggerLaunch and TriggerLaunchDll.  Their own clean-up of an active target
\* never runs: StopPreviousSessionBeforeLaunch has left none (LaunchesAlone).
TriggerLaunch ==
    /\ ui = "launch"
    /\ launching' = TRUE
    /\ worker' = "arm"
    /\ ui' = "idle"
    /\ UNCHANGED <<system, session, etw, target, token, etwWas, armed, at>>

\* Terminate Tree: shown while the target is active.
ClickTerminate ==
    /\ ui = "idle" /\ targetActive
    /\ token' = NoProc
    /\ TerminateProcessTree(targetPid)
    /\ ui' = "terminated"
    /\ UNCHANGED <<parent, session, etw, target, launch, at>>
TerminateDeactivate ==
    /\ ui = "terminated"
    /\ targetActive' = FALSE
    /\ ui' = "terminated etw"
    /\ UNCHANGED <<system, session, etw, targetPid, token, launch, at>>
TerminateEtw ==
    /\ ui = "terminated etw"
    /\ etw' = FALSE
    /\ ui' = "idle"
    /\ UNCHANGED <<system, session, target, token, launch, at>>

UiContinues ==
    \/ StopPreviousTerminate
    \/ StopPreviousDeactivate
    \/ StopPreviousEtw
    \/ StopPreviousSession
    \/ BeginSession
    \/ TriggerLaunch
    \/ TerminateDeactivate
    \/ TerminateEtw

-----------------------------------------------------------------------------
(* The launch worker.                                                      *)

WorkerArm ==
    /\ worker = "arm"
    /\ etwWas' = etw
    /\ worker' = "start etw"
    /\ UNCHANGED <<system, session, etw, target, token, launching, armed, ui, at>>

\* StartEtwKernelTelemetry fails without administrator rights.
WorkerStartEtw ==
    /\ worker = "start etw"
    /\ \E started \in BOOLEAN :
         /\ armed' = (etw \/ started)
         /\ etw' = (etw \/ started)
    /\ worker' = "inject"
    /\ UNCHANGED <<system, session, target, token, launching, etwWas, ui, at>>

\* The worker does not read etwWasRunning and etwArmed again.
ForgetLocals == etwWas' = FALSE /\ armed' = FALSE

\* LaunchAndInject or LaunchDll: on success the process exists, suspended, its
\* agent is ready and a reader serves its pipe.
WorkerInject ==
    /\ worker = "inject"
    /\ os' = [os EXCEPT ![run] = "suspended"]
    /\ Goto(Read(run), "reading")
    /\ worker' = "activate"
    /\ ForgetLocals
    /\ UNCHANGED <<parent, session, etw, target, token, launching, ui>>
WorkerInjectFails ==
    /\ worker = "inject"
    /\ worker' = "failed"
    /\ etw' = (etw /\ (etwWas \/ ~armed))
    /\ ForgetLocals
    /\ UNCHANGED <<system, session, target, token, launching, ui, at>>

\* Variant of WorkerFailed: the flag that disables the button stays set.
WorkerFailedStuck ==
    /\ worker = "failed"
    /\ active' = FALSE
    /\ worker' = "idle"
    /\ UNCHANGED <<system, run, rows, etw, target, token, launching, etwWas, armed, ui, at>>

WorkerFailed ==
    /\ worker = "failed"
    /\ active' = FALSE
    /\ worker' = "done"
    /\ UNCHANGED <<system, run, rows, etw, target, token, launching, etwWas, armed, ui, at>>

WorkerActivate ==
    /\ worker = "activate"
    /\ targetActive' = TRUE
    /\ worker' = "set pid"
    /\ UNCHANGED <<system, session, etw, targetPid, token, launching, etwWas, armed, ui, at>>

WorkerSetPid ==
    /\ worker = "set pid"
    /\ targetPid' = run
    /\ worker' = "register"
    /\ UNCHANGED <<system, session, etw, targetActive, token, launching, etwWas, armed, ui, at>>
WorkerRegisterRoot ==
    /\ worker = "register"
    /\ rows' = [rows EXCEPT ![run] = "live"]
    /\ worker' = "watch"
    /\ UNCHANGED <<system, run, active, etw, target, token, launching, etwWas, armed, ui, at>>
WorkerWatch ==
    /\ worker = "watch"
    /\ Goto(Watch(run), "open")
    /\ worker' = "resume"
    /\ UNCHANGED <<system, session, etw, target, token, launching, etwWas, armed, ui>>

WorkerResume ==
    /\ worker = "resume"
    /\ os' = [os EXCEPT ![run] = IF @ = "suspended" THEN "running" ELSE @]
    /\ worker' = "schedule"
    /\ UNCHANGED <<parent, session, etw, target, token, launching, etwWas, armed, ui, at>>
WorkerResumeFails ==
    /\ worker = "resume"
    /\ TerminateProcessTree(run)
    /\ worker' = "abort"
    /\ UNCHANGED <<parent, session, etw, target, token, launching, etwWas, armed, ui, at>>
WorkerAbort ==
    /\ worker = "abort"
    /\ targetActive' = FALSE
    /\ worker' = "abort etw"
    /\ UNCHANGED <<system, session, etw, targetPid, token, launching, etwWas, armed, ui, at>>
WorkerAbortEtw ==
    /\ worker = "abort etw"
    /\ etw' = FALSE
    /\ worker' = "done"
    /\ UNCHANGED <<system, session, target, token, launching, etwWas, armed, ui, at>>

\* ScheduleAutoTerminate: a new token, and a timer when a duration is set.
WorkerSchedule ==
    /\ worker = "schedule"
    /\ token' = run
    /\ \E timer \in {"none"} \cup (IF run \in TimedRuns THEN {"sleep"} ELSE {}) :
         Goto(Timer(run), timer)
    /\ worker' = "done"
    /\ UNCHANGED <<system, session, etw, target, launching, etwWas, armed, ui>>

WorkerDone ==
    /\ worker = "done"
    /\ launching' = FALSE
    /\ worker' = "idle"
    /\ UNCHANGED <<system, session, etw, target, token, etwWas, armed, ui, at>>

Worker ==
    \/ WorkerArm \/ WorkerStartEtw
    \/ WorkerInject \/ WorkerInjectFails \/ WorkerFailed
    \/ WorkerActivate \/ WorkerSetPid \/ WorkerRegisterRoot \/ WorkerWatch
    \/ WorkerResume \/ WorkerResumeFails \/ WorkerAbort \/ WorkerAbortEtw
    \/ WorkerSchedule \/ WorkerDone

-----------------------------------------------------------------------------
(* SetTargetProcess with an inactive target, called by a watch or a reader. *)

\* wasActive and previousPid are read at "set"; "was" remembers wasActive.
SetRead(t) ==
    /\ at[t] = "set"
    /\ Goto(t, IF targetActive THEN "set was active" ELSE "set was inactive")
    /\ UNCHANGED <<system, session, etw, target, token, launch, ui>>

\* Where the caller of SetTargetProcess goes on.
Return(t) == IF t[1] \in {"watch", "missed"} THEN "last" ELSE "none"

\* Variant of SetClear: the target stays active while a child of it is live.
SetClearUnlessLive(t) ==
    /\ at[t] \in {"set was active", "set was inactive"}
    /\ targetActive' = (targetActive /\ HasLiveProcesses)
    /\ Goto(t, IF at[t] = "set was active" THEN "set check" ELSE Return(t))
    /\ UNCHANGED <<system, session, etw, targetPid, token, launch, ui>>

SetClear(t) ==
    /\ at[t] \in {"set was active", "set was inactive"}
    /\ targetActive' = FALSE
    /\ Goto(t, IF at[t] = "set was active" THEN "set check" ELSE Return(t))
    /\ UNCHANGED <<system, session, etw, targetPid, token, launch, ui>>
SetCheck(t) ==
    /\ at[t] = "set check"
    /\ Goto(t, IF HasLiveProcesses THEN Return(t) ELSE "set stop etw")
    /\ UNCHANGED <<system, session, etw, target, token, launch, ui>>
SetStopEtw(t) ==
    /\ at[t] = "set stop etw"
    /\ etw' = FALSE
    /\ Goto(t, "set stop session")
    /\ UNCHANGED <<system, session, target, token, launch, ui>>
SetStopSession(t) ==
    /\ at[t] = "set stop session"
    /\ active' = FALSE
    /\ Goto(t, Return(t))
    /\ UNCHANGED <<system, run, rows, etw, target, token, launch, ui>>

SetTargetProcess(t) ==
    SetRead(t) \/ SetClear(t) \/ SetCheck(t) \/ SetStopEtw(t) \/ SetStopSession(t)

-----------------------------------------------------------------------------
(* WatchSessionProcessExit.                                                *)

MarkExited(p) == rows' = [rows EXCEPT ![p] = IF @ = "live" THEN "exited" ELSE @]

\* OpenProcess finds a process, even a gone one while somebody still has a
\* handle to it, or fails because it is gone.
WatchOpen(p) ==
    /\ at[Watch(p)] = "open"
    /\ Goto(Watch(p), "wait")
    /\ UNCHANGED <<system, session, etw, target, token, launch, ui>>
WatchOpenFails(p) ==
    /\ at[Watch(p)] = "open"
    /\ ~Alive(p)
    /\ MarkExited(p)
    /\ at' = [at EXCEPT ![Watch(p)] = "none", ![Missed(p)] = "ended"]
    /\ UNCHANGED <<system, run, active, etw, target, token, launch, ui>>

WatchReturns(p) ==
    /\ at[Watch(p)] = "wait"
    /\ ~Alive(p)
    /\ MarkExited(p)
    /\ Goto(Watch(p), "ended")
    /\ UNCHANGED <<system, run, active, etw, target, token, launch, ui>>

WatchEnded(t, p) ==
    /\ at[t] = "ended"
    /\ Goto(t, IF targetActive /\ targetPid = p THEN "set" ELSE "last")
    /\ UNCHANGED <<system, session, etw, target, token, launch, ui>>

\* The target is inactive, then: no process of the session is live.
WatchLast(t) ==
    /\ at[t] = "last"
    /\ Goto(t, IF targetActive THEN "none" ELSE "last live")
    /\ UNCHANGED <<system, session, etw, target, token, launch, ui>>

\* Variant of WatchLastLive: a missed exit stops nothing.
WatchLastLiveUnlessMissed(t) ==
    /\ at[t] = "last live"
    /\ Goto(t, IF HasLiveProcesses \/ t[1] = "missed" THEN "none" ELSE "last stop etw")
    /\ UNCHANGED <<system, session, etw, target, token, launch, ui>>

WatchLastLive(t) ==
    /\ at[t] = "last live"
    /\ Goto(t, IF HasLiveProcesses THEN "none" ELSE "last stop etw")
    /\ UNCHANGED <<system, session, etw, target, token, launch, ui>>
\* After a missed exit the session is not stopped.
WatchStopEtw(t) ==
    /\ at[t] = "last stop etw"
    /\ etw' = FALSE
    /\ Goto(t, IF t[1] = "missed" THEN "none" ELSE "last stop session")
    /\ UNCHANGED <<system, session, target, token, launch, ui>>
WatchStopSession(t) ==
    /\ at[t] = "last stop session"
    /\ active' = FALSE
    /\ Goto(t, "none")
    /\ UNCHANGED <<system, run, rows, etw, target, token, launch, ui>>

WatchSessionProcessExit(p) ==
    \/ WatchOpen(p) \/ WatchOpenFails(p) \/ WatchReturns(p)
    \/ \E t \in {Watch(p), Missed(p)} :
         \/ WatchEnded(t, p) \/ SetTargetProcess(t) \/ WatchLast(t)
         \/ WatchLastLive(t) \/ WatchStopEtw(t) \/ WatchStopSession(t)

-----------------------------------------------------------------------------
(* PipeReaderThread and the auto-terminate timer.                          *)

\* The pipe ends with the process; a reader may be late, it first hands over
\* every event that the pipe still holds.
ReaderEnds(r) ==
    /\ at[Read(r)] = "reading"
    /\ ~Alive(r)
    /\ Goto(Read(r), "set")
    /\ UNCHANGED <<system, session, etw, target, token, launch, ui>>

\* An oversized payload ends the reader while the process runs.
ReaderRejects(r) ==
    /\ PipeMayBreak
    /\ at[Read(r)] = "reading"
    /\ os[r] = "running"
    /\ Goto(Read(r), "set")
    /\ UNCHANGED <<system, session, etw, target, token, launch, ui>>

PipeReaderThread(r) == ReaderEnds(r) \/ SetTargetProcess(Read(r))

TimerFires(r) ==
    /\ at[Timer(r)] = "sleep"
    /\ Goto(Timer(r), IF token = r /\ targetActive /\ targetPid = r THEN "kill" ELSE "none")
    /\ UNCHANGED <<system, session, etw, target, token, launch, ui>>
TimerTerminates(r) ==
    /\ at[Timer(r)] = "kill"
    /\ TerminateProcessTree(r)
    /\ Goto(Timer(r), "deactivate")
    /\ UNCHANGED <<parent, session, etw, target, token, launch, ui>>
TimerDeactivates(r) ==
    /\ at[Timer(r)] = "deactivate"
    /\ targetActive' = FALSE
    /\ Goto(Timer(r), "stop etw")
    /\ UNCHANGED <<system, session, etw, targetPid, token, launch, ui>>
TimerStopsEtw(r) ==
    /\ at[Timer(r)] = "stop etw"
    /\ etw' = FALSE
    /\ Goto(Timer(r), "stop session")
    /\ UNCHANGED <<system, session, target, token, launch, ui>>
TimerStopsSession(r) ==
    /\ at[Timer(r)] = "stop session"
    /\ active' = FALSE
    /\ Goto(Timer(r), "none")
    /\ UNCHANGED <<system, run, rows, etw, target, token, launch, ui>>

AutoTerminate(r) ==
    \/ TimerFires(r) \/ TimerTerminates(r) \/ TimerDeactivates(r)
    \/ TimerStopsEtw(r) \/ TimerStopsSession(r)

-----------------------------------------------------------------------------
(* Windows and the ETW callback.                                           *)

\* A process may also be ended by others, even before it is resumed.
ProcessExits(p) ==
    /\ Alive(p)
    /\ os' = [os EXCEPT ![p] = "gone"]
    /\ UNCHANGED <<parent, session, etw, target, token, launch, ui, at>>

ProcessSpawns(k, p) ==
    /\ os[k] = "none" /\ os[p] = "running"
    /\ os' = [os EXCEPT ![k] = "running"]
    /\ parent' = [parent EXCEPT ![k] = p]
    /\ UNCHANGED <<session, etw, target, token, launch, ui, at>>

\* Variant of OnChildProcessSpawned: the row gets no exit watch.
OnChildSpawnedUnwatched(k) ==
    /\ etw
    /\ os[k] # "none" /\ rows[k] = "absent"
    /\ rows[parent[k]] # "absent"
    /\ rows' = [rows EXCEPT ![k] = "live"]
    /\ UNCHANGED <<system, run, active, etw, target, token, launch, ui, at>>

\* The report of a new process, however late: ObserveChild takes a child of a
\* row into the session and the callback starts its exit watch.
OnChildProcessSpawned(k) ==
    /\ etw
    /\ os[k] # "none" /\ rows[k] = "absent"
    /\ rows[parent[k]] # "absent"
    /\ rows' = [rows EXCEPT ![k] = "live"]
    /\ Goto(Watch(k), "open")
    /\ UNCHANGED <<system, run, active, etw, target, token, launch, ui>>

OnProcessExited(p) ==
    /\ etw
    /\ os[p] = "gone" /\ rows[p] = "live"
    /\ MarkExited(p)
    /\ UNCHANGED <<system, run, active, etw, target, token, launch, ui, at>>

Environment ==
    \/ \E p \in Procs : ProcessExits(p)
    \/ \E k \in Kids, p \in Procs : ProcessSpawns(k, p)
    \/ \E k \in Kids : OnChildProcessSpawned(k)
    \/ \E p \in Procs : OnProcessExited(p)
    \/ \E r \in Roots : ReaderRejects(r)

Next ==
    \/ ClickStart \/ ClickTerminate \/ UiContinues
    \/ Worker
    \/ \E p \in Procs : WatchSessionProcessExit(p)
    \/ \E r \in Roots : PipeReaderThread(r) \/ AutoTerminate(r)
    \/ Environment

\* Every started thread goes on.  Nothing is assumed of the user, of the
\* processes or of ETW.
Fairness ==
    /\ WF_vars(UiContinues)
    /\ WF_vars(Worker)
    /\ \A p \in Procs : WF_vars(WatchSessionProcessExit(p))
    /\ \A r \in Roots : WF_vars(PipeReaderThread(r)) /\ WF_vars(AutoTerminate(r))

Spec == Init /\ [][Next]_vars /\ Fairness

-----------------------------------------------------------------------------
UiLabels == {"idle", "terminate", "deactivate", "stop etw", "stop session", "begin",
             "launch", "terminated", "terminated etw"}
WorkerLabels == {"idle", "arm", "start etw", "inject", "failed", "activate", "set pid",
                 "register", "watch", "resume", "abort", "abort etw", "schedule", "done"}
ThreadLabels == {"none", "open", "wait", "ended", "last", "last live", "last stop etw",
                 "last stop session", "reading", "set", "set was active",
                 "set was inactive", "set check", "set stop etw", "set stop session",
                 "sleep", "kill", "deactivate", "stop etw", "stop session"}

TypeOK ==
    /\ os \in [Procs -> {"none", "suspended", "running", "gone"}]
    /\ parent \in [Kids -> Procs \cup {NoProc}]
    /\ run \in 0 .. MaxRuns
    /\ active \in BOOLEAN
    /\ rows \in [Procs -> {"absent", "live", "exited"}]
    /\ etw \in BOOLEAN
    /\ targetActive \in BOOLEAN
    /\ targetPid \in Roots \cup {NoProc}
    /\ token \in Roots \cup {NoProc}
    /\ launching \in BOOLEAN
    /\ worker \in WorkerLabels
    /\ etwWas \in BOOLEAN /\ armed \in BOOLEAN
    /\ ui \in UiLabels
    /\ at \in [Threads -> ThreadLabels]

\* Whoever is live in the session has an exit watch that will still mark it,
\* or the launch worker is about to start one: no exit goes unnoticed when ETW
\* is off or stops.
LiveRowsWatched ==
    \A p \in Procs :
        rows[p] = "live" =>
            at[Watch(p)] \in {"open", "wait"} \/ (p = run /\ worker = "watch")

\* What the session calls exited is gone, whichever thread said so.
ExitedRowsGone == \A p \in Procs : rows[p] = "exited" => os[p] = "gone"

\* The rows follow the processes, in both directions.
RowsFollowProcesses == LiveRowsWatched /\ ExitedRowsGone

\* A launch starts alone: the previous target is inactive, its worker is
\* done, and no thread is left that could make it active again.
LaunchesAlone ==
    /\ ui \in {"begin", "launch"} => ~targetActive /\ worker = "idle"
    /\ launching <=> worker # "idle"

\* Every launch ends, and Start Analysis is enabled again.
LaunchEnds == launching ~> ~launching

\* The end of the target is noticed: it does not stay active once its process
\* is gone, whichever of its reader, watch and timer comes late.
TargetEndNoticed ==
    (targetActive /\ ~launching /\ os[targetPid] = "gone") ~> (~targetActive \/ launching)

\* When the last process of the session is gone, ETW is stopped, whichever
\* thread marks which exit first, unless the user starts another analysis.
SessionGone ==
    /\ ~launching /\ ui = "idle"
    /\ run > 0 /\ rows[run] # "absent"
    /\ \A p \in Procs : ~Alive(p)
EtwStopsAtTheEnd == SessionGone ~> (~etw \/ ui # "idle" \/ launching)

\* "[info] analysis session stopped after its final process exited.": a watch
\* that stops the session stops one whose last process has exited.
StopsAfterFinalExit ==
    [][\A p \in Procs : WatchStopSession(Watch(p)) =>
         (\E q \in Procs : rows[q] = "exited") /\ ~HasLiveProcesses]_vars

\* "exited by itself": the target that SetTargetProcess reports has exited.
ReportedTargetExited ==
    [][\A t \in Threads : SetRead(t) /\ targetActive /\ targetPid # NoProc =>
         os[targetPid] = "gone"]_vars

=============================================================================
