---------------------------- MODULE SessionProofs ----------------------------
(***************************************************************************)
(* Theorems of SessionLifecycle, for any number of launches and processes. *)
(***************************************************************************)
EXTENDS SessionLifecycle, TLAPS

-----------------------------------------------------------------------------
(* The threads have different names.                                       *)

LEMMA WatchNames ==
    ASSUME NEW p \in Procs
    PROVE  /\ Watch(p) \in Threads /\ Missed(p) \in Threads
           /\ \A q \in Procs : Watch(p) = Watch(q) => p = q
           /\ \A q \in Procs : Watch(p) # Missed(q)
BY DEF Watch, Missed, Threads

LEMMA RootNames ==
    ASSUME NEW r \in Roots
    PROVE  /\ Read(r) \in Threads /\ Timer(r) \in Threads /\ r \in Procs
           /\ \A q \in Procs : Watch(q) # Read(r) /\ Watch(q) # Timer(r)
BY DEF Watch, Read, Timer, Threads, Procs

LEMMA KidsAreNoRoots ==
    /\ Kids \subseteq Procs /\ Roots \subseteq Procs /\ Roots \cap Kids = {}
    /\ NoProc \notin Procs /\ 0 .. MaxRuns = Roots \cup {NoProc}
BY LifecycleAssumption DEF Kids, Procs, Roots, NoProc

\* From here on the names are opaque.
USE DEF Goto
-----------------------------------------------------------------------------
(* The invariant.                                                          *)

Preparing == {"terminate", "deactivate", "stop etw", "stop session", "begin", "launch"}

\* Who starts a launch is alone, and the target is inactive from its
\* deactivation on.
Alone ==
    /\ launching <=> worker # "idle"
    /\ ui \in Preparing => worker = "idle"
    /\ ui \in {"stop etw", "stop session", "begin", "launch"} => ~targetActive
    /\ ui \in Preparing \ {"launch"} => run < MaxRuns

\* A row is of a process that has been created; the root of a launch gets its
\* row when it is registered, and not before it is created.
RootsRow ==
    /\ ui = "launch" \/ worker # "idle" => run \in Roots
    /\ ui = "launch" \/ worker \in {"arm", "start etw", "inject"} => rows[run] = "absent"
    /\ worker \in {"activate", "set pid", "register"} => os[run] # "none"
RowsCreated == \A p \in Procs : rows[p] # "absent" => os[p] # "none"

IInv == TypeOK /\ Alone /\ RootsRow /\ RowsCreated /\ LiveRowsWatched /\ ExitedRowsGone

LEMMA IInvInit == Init => IInv
<1> SUFFICES ASSUME Init PROVE IInv
  OBVIOUS
<1> USE DEF Init
<1>1. TypeOK
  <2>1. run \in 0 .. MaxRuns
    BY LifecycleAssumption
  <2>2. /\ ui \in UiLabels /\ worker \in WorkerLabels
        /\ at \in [Threads -> ThreadLabels]
    BY DEF UiLabels, WorkerLabels, ThreadLabels
  <2> QED BY <2>1, <2>2 DEF TypeOK
<1>2. Alone /\ RootsRow /\ RowsCreated /\ LiveRowsWatched /\ ExitedRowsGone
  BY DEF Alone, Preparing, RootsRow, RowsCreated, LiveRowsWatched, ExitedRowsGone
<1> QED BY <1>1, <1>2 DEF IInv

-----------------------------------------------------------------------------
(* Processes end, all those of a tree at once or one by one.               *)

\* What ends processes and starts none.
Ends == /\ os' \in [Procs -> {"none", "suspended", "running", "gone"}]
        /\ \A q \in Procs : os'[q] = os[q] \/ (os[q] # "none" /\ os'[q] = "gone")

LEMMA TerminateEnds ==
    ASSUME TypeOK, NEW ps, TerminateAll(ps) PROVE Ends
BY DEF TerminateAll, Ends, TypeOK, Alive

\* The rows do not notice.
LEMMA EndsKeeps ==
    ASSUME TypeOK, RowsCreated, ExitedRowsGone, Ends, UNCHANGED rows
    PROVE  RowsCreated' /\ ExitedRowsGone'
BY DEF TypeOK, RowsCreated, ExitedRowsGone, Ends

\* Whoever leaves the launch and the target alone leaves these alone, and so
\* does who starts or ends a process other than a root.
LEMMA AloneKeeps ==
    ASSUME TypeOK, Alone, UNCHANGED <<launching, worker, ui, run, targetActive>>
    PROVE  Alone'
<1>1. (launching <=> worker # "idle")'
  BY DEF Alone
<1>2. (ui \in Preparing => worker = "idle")'
  BY DEF Alone, Preparing
<1>3. (ui \in {"stop etw", "stop session", "begin", "launch"} => ~targetActive)'
  <2>1. ui' = ui
    OBVIOUS
  <2>2. targetActive' => targetActive
    OBVIOUS
  <2>3. ui \in {"stop etw", "stop session", "begin", "launch"} => ~targetActive
    BY DEF Alone
  <2> QED BY <2>1, <2>2, <2>3
<1>4. (ui \in Preparing \ {"launch"} => run < MaxRuns)'
  BY DEF Alone, Preparing
<1> QED BY <1>1, <1>2, <1>3, <1>4 DEF Alone

LEMMA RootsRowKeeps ==
    ASSUME RootsRow, UNCHANGED <<run, worker, ui>>,
           \A r \in Roots : rows'[r] = rows[r] /\ (os[r] # "none" => os'[r] # "none")
    PROVE  RootsRow'
BY DEF RootsRow

-----------------------------------------------------------------------------
(* What a detached thread does keeps the invariant, when it changes only   *)
(* its own place, the flags and the target, and neither is nor becomes a   *)
(* watch that is waiting.                                                  *)

LEMMA ThreadMoves ==
    ASSUME IInv, NEW t \in Threads, NEW l \in ThreadLabels, Goto(t, l),
           \A p \in Procs : t = Watch(p) => at[t] \notin {"open", "wait"} \/ l \in {"open", "wait"},
           UNCHANGED <<parent, run, rows, token, launch, ui, targetPid>>,
           Ends \/ UNCHANGED os,
           etw' \in BOOLEAN, active' \in BOOLEAN,
           UNCHANGED targetActive \/ targetActive' = FALSE
    PROVE  IInv'
<1> USE DEF IInv
<1>1. TypeOK'
  BY DEF TypeOK, Ends, launch
<1>2. Alone'
  <2>1. launching' = launching /\ worker' = worker /\ ui' = ui /\ run' = run
    BY DEF launch
  <2>2. targetActive' = targetActive \/ targetActive' = FALSE
    OBVIOUS
  <2>3. (launching <=> worker # "idle")'
    BY <2>1 DEF Alone
  <2>4. (ui \in Preparing => worker = "idle")'
    BY <2>1 DEF Alone, Preparing
  <2>5. (ui \in {"stop etw", "stop session", "begin", "launch"} => ~targetActive)'
    BY <2>1, <2>2 DEF Alone
  <2>6. (ui \in Preparing \ {"launch"} => run < MaxRuns)'
    BY <2>1 DEF Alone, Preparing
  <2> QED BY <2>3, <2>4, <2>5, <2>6 DEF Alone
<1>3. RootsRow'
  BY KidsAreNoRoots DEF RootsRow, Ends, launch, TypeOK
<1>4. RowsCreated' /\ ExitedRowsGone'
  BY EndsKeeps DEF RowsCreated, ExitedRowsGone
<1>5. LiveRowsWatched'
  BY WatchNames DEF LiveRowsWatched, TypeOK, launch
<1> QED BY <1>1, <1>2, <1>3, <1>4, <1>5

-----------------------------------------------------------------------------
(* The UI thread.                                                          *)

LEMMA UiMoves ==
    ASSUME IInv, UNCHANGED <<parent, run, rows, launch, at, targetPid>>,
           ui' \in UiLabels, ui' = "launch" => ui = "launch", Alone',
           Ends \/ UNCHANGED os,
           etw' \in BOOLEAN, active' \in BOOLEAN, targetActive' \in BOOLEAN,
           token' \in Roots \cup {NoProc}
    PROVE  IInv'
<1> USE DEF IInv
<1>1. TypeOK'
  BY DEF TypeOK, Ends, launch
<1>2. RootsRow'
  BY KidsAreNoRoots DEF RootsRow, Ends, launch, TypeOK
<1>3. RowsCreated' /\ ExitedRowsGone'
  BY EndsKeeps DEF RowsCreated, ExitedRowsGone
<1>4. LiveRowsWatched'
  BY DEF LiveRowsWatched, launch
<1> QED BY <1>1, <1>2, <1>3, <1>4

LEMMA UiKeeps ==
    ASSUME IInv, ClickStart \/ ClickTerminate \/ UiContinues PROVE IInv'
<1> USE DEF system, session, target, launch
<1>0. TypeOK /\ Alone
  BY DEF IInv
<1>a. /\ etw \in BOOLEAN /\ active \in BOOLEAN /\ targetActive \in BOOLEAN
      /\ token \in Roots \cup {NoProc} /\ NoProc \in Roots \cup {NoProc}
  BY <1>0 DEF TypeOK
<1>1. CASE ClickStart
  <2>1. ui' \in {"terminate", "begin"} /\ (ui' = "begin" => ~targetActive)
    BY <1>1 DEF ClickStart
  <2>2. worker = "idle" /\ run < MaxRuns /\ UNCHANGED <<launching, worker, targetActive, run>>
    BY <1>0, <1>1 DEF ClickStart, Alone
  <2>3. Alone'
    BY <1>0, <2>1, <2>2 DEF Alone, Preparing
  <2> QED BY <1>1, <1>a, <2>1, <2>3, UiMoves DEF ClickStart, UiLabels
<1>2. CASE StopPreviousTerminate
  <2>1. Alone'
    BY <1>0, <1>2 DEF StopPreviousTerminate, Alone, Preparing
  <2>2. Ends
    BY <1>0, <1>2, TerminateEnds DEF StopPreviousTerminate
  <2> QED BY <1>2, <1>a, <2>1, <2>2, UiMoves DEF StopPreviousTerminate, UiLabels
<1>3. CASE StopPreviousDeactivate
  <2>1. Alone'
    BY <1>0, <1>3 DEF StopPreviousDeactivate, Alone, Preparing
  <2> QED BY <1>3, <1>a, <2>1, UiMoves DEF StopPreviousDeactivate, UiLabels
<1>4. CASE StopPreviousEtw
  <2>1. Alone'
    BY <1>0, <1>4 DEF StopPreviousEtw, Alone, Preparing
  <2> QED BY <1>4, <1>a, <2>1, UiMoves DEF StopPreviousEtw, UiLabels
<1>5. CASE StopPreviousSession
  <2>1. Alone'
    BY <1>0, <1>5 DEF StopPreviousSession, Alone, Preparing
  <2> QED BY <1>5, <1>a, <2>1, UiMoves DEF StopPreviousSession, UiLabels
<1>6. CASE BeginSession
  <2> USE <1>6 DEF BeginSession, IInv
  <2>1. Alone'
    BY DEF Alone, Preparing
  <2>2. run' \in Roots
    <3>1. run \in 0 .. MaxRuns /\ run < MaxRuns /\ run' = run + 1
      BY DEF TypeOK, Alone, Preparing
    <3> QED BY <3>1, LifecycleAssumption DEF Roots
  <2>3. TypeOK'
    BY <2>2, KidsAreNoRoots DEF TypeOK, UiLabels
  <2>4. RootsRow'
    BY <2>1, <2>2, KidsAreNoRoots DEF RootsRow, Alone, Preparing
  <2>5. RowsCreated' /\ LiveRowsWatched' /\ ExitedRowsGone'
    BY DEF RowsCreated, LiveRowsWatched, ExitedRowsGone
  <2> QED BY <2>1, <2>3, <2>4, <2>5
<1>7. CASE TriggerLaunch
  <2> USE <1>7 DEF TriggerLaunch, IInv
  <2>1. TypeOK'
    BY DEF TypeOK, UiLabels, WorkerLabels
  <2>2. Alone'
    BY DEF Alone, Preparing
  <2>3. RootsRow' /\ RowsCreated' /\ ExitedRowsGone'
    BY DEF RootsRow, RowsCreated, ExitedRowsGone
  <2>4. LiveRowsWatched'
    BY DEF LiveRowsWatched, Alone, Preparing
  <2> QED BY <2>1, <2>2, <2>3, <2>4
<1>8. CASE ClickTerminate
  <2>1. Alone'
    BY <1>0, <1>8 DEF ClickTerminate, Alone, Preparing
  <2>2. Ends
    BY <1>0, <1>8, TerminateEnds DEF ClickTerminate, TerminateProcessTree
  <2> QED BY <1>8, <1>a, <2>1, <2>2, UiMoves DEF ClickTerminate, UiLabels
<1>9. CASE TerminateDeactivate
  <2>1. Alone'
    BY <1>0, <1>9 DEF TerminateDeactivate, Alone, Preparing
  <2> QED BY <1>9, <1>a, <2>1, UiMoves DEF TerminateDeactivate, UiLabels
<1>10. CASE TerminateEtw
  <2>1. Alone'
    BY <1>0, <1>10 DEF TerminateEtw, Alone, Preparing
  <2> QED BY <1>10, <1>a, <2>1, UiMoves DEF TerminateEtw, UiLabels
<1> QED
  BY <1>1, <1>2, <1>3, <1>4, <1>5, <1>6, <1>7, <1>8, <1>9, <1>10 DEF UiContinues

-----------------------------------------------------------------------------
(* The launch worker.                                                      *)

LEMMA WorkerMoves ==
    ASSUME IInv, UNCHANGED <<parent, run, rows, launching, ui, at, token>>,
           worker \notin {"idle", "watch"}, worker' \in WorkerLabels \ {"idle"},
           worker' \in {"arm", "start etw", "inject"} => worker \in {"arm", "start etw", "inject"},
           worker' \in {"activate", "set pid", "register"}
               => worker \in {"activate", "set pid", "register"},
           Ends \/ UNCHANGED os,
           etw' \in BOOLEAN, active' \in BOOLEAN, targetActive' \in BOOLEAN,
           etwWas' \in BOOLEAN, armed' \in BOOLEAN, targetPid' \in Roots \cup {NoProc}
    PROVE  IInv'
<1> USE DEF IInv
<1>1. TypeOK'
  BY DEF TypeOK, Ends
<1>2. Alone'
  BY DEF Alone, Preparing
<1>3. RootsRow'
  BY KidsAreNoRoots DEF RootsRow, Ends, TypeOK, Alone, Preparing
<1>4. RowsCreated' /\ ExitedRowsGone'
  BY EndsKeeps DEF RowsCreated, ExitedRowsGone
<1>5. LiveRowsWatched'
  BY DEF LiveRowsWatched
<1> QED BY <1>1, <1>2, <1>3, <1>4, <1>5

LEMMA WorkerKeeps == ASSUME IInv, Worker PROVE IInv'
<1> USE DEF system, session, target, ForgetLocals
<1>0. TypeOK /\ Alone /\ RootsRow /\ RowsCreated /\ LiveRowsWatched /\ ExitedRowsGone
  BY DEF IInv
<1>a. /\ etw \in BOOLEAN /\ active \in BOOLEAN /\ targetActive \in BOOLEAN
      /\ etwWas \in BOOLEAN /\ armed \in BOOLEAN /\ targetPid \in Roots \cup {NoProc}
  BY <1>0 DEF TypeOK
<1>b. worker # "idle" => run \in Roots
  BY <1>0 DEF RootsRow
<1>1. CASE WorkerArm
  BY <1>1, <1>a, WorkerMoves DEF WorkerArm, WorkerLabels
<1>2. CASE WorkerStartEtw
  <2>1. etw' \in BOOLEAN /\ armed' \in BOOLEAN
    BY <1>2, <1>a DEF WorkerStartEtw
  <2> QED BY <1>2, <1>a, <2>1, WorkerMoves DEF WorkerStartEtw, WorkerLabels
<1>3. CASE WorkerInjectFails
  <2>1. etw' \in BOOLEAN
    BY <1>3, <1>a DEF WorkerInjectFails
  <2> QED BY <1>3, <1>a, <2>1, WorkerMoves DEF WorkerInjectFails, WorkerLabels
<1>4. CASE WorkerFailed
  BY <1>4, <1>a, WorkerMoves DEF WorkerFailed, WorkerLabels
<1>5. CASE WorkerActivate
  BY <1>5, <1>a, WorkerMoves DEF WorkerActivate, WorkerLabels
<1>6. CASE WorkerSetPid
  BY <1>6, <1>a, <1>b, WorkerMoves DEF WorkerSetPid, WorkerLabels
<1>7. CASE WorkerResumeFails
  <2>1. Ends
    BY <1>0, <1>7, TerminateEnds DEF WorkerResumeFails, TerminateProcessTree
  <2> QED BY <1>7, <1>a, <2>1, WorkerMoves DEF WorkerResumeFails, WorkerLabels
<1>8. CASE WorkerAbort
  BY <1>8, <1>a, WorkerMoves DEF WorkerAbort, WorkerLabels
<1>9. CASE WorkerAbortEtw
  BY <1>9, <1>a, WorkerMoves DEF WorkerAbortEtw, WorkerLabels
<1>10. CASE WorkerInject
  <2> USE <1>10 DEF WorkerInject
  <2>0. run \in Roots /\ run \in Procs /\ Read(run) \in Threads
    BY <1>b, RootNames
  <2>1. TypeOK'
    BY <1>0, <2>0 DEF TypeOK, WorkerLabels, ThreadLabels
  <2>2. Alone'
    BY <1>0 DEF Alone, Preparing
  <2>3. RootsRow'
    BY <1>0, <2>0 DEF RootsRow, TypeOK, Alone, Preparing
  <2>4. RowsCreated' /\ ExitedRowsGone'
    BY <1>0, <2>0 DEF RowsCreated, ExitedRowsGone, RootsRow, TypeOK
  <2>5. LiveRowsWatched'
    BY <1>0, <2>0, RootNames DEF LiveRowsWatched, TypeOK
  <2> QED BY <2>1, <2>2, <2>3, <2>4, <2>5 DEF IInv
<1>11. CASE WorkerRegisterRoot
  <2> USE <1>11 DEF WorkerRegisterRoot
  <2>0. run \in Roots /\ run \in Procs
    BY <1>b, RootNames
  <2>1. TypeOK'
    BY <1>0, <2>0 DEF TypeOK, WorkerLabels
  <2>2. Alone'
    BY <1>0 DEF Alone, Preparing
  <2>3. RootsRow'
    BY <1>0, <2>0 DEF RootsRow, Alone, Preparing
  <2>4. RowsCreated' /\ ExitedRowsGone'
    BY <1>0, <2>0 DEF RowsCreated, ExitedRowsGone, RootsRow, TypeOK
  <2>5. LiveRowsWatched'
    BY <1>0, <2>0 DEF LiveRowsWatched, TypeOK
  <2> QED BY <2>1, <2>2, <2>3, <2>4, <2>5 DEF IInv
<1>12. CASE WorkerWatch
  <2> USE <1>12 DEF WorkerWatch
  <2>0. run \in Roots /\ run \in Procs /\ Watch(run) \in Threads
    BY <1>b, RootNames, WatchNames
  <2>1. TypeOK'
    BY <1>0, <2>0 DEF TypeOK, WorkerLabels, ThreadLabels
  <2>2. Alone'
    BY <1>0 DEF Alone, Preparing
  <2>3. RootsRow' /\ RowsCreated' /\ ExitedRowsGone'
    BY <1>0, <2>0 DEF RootsRow, RowsCreated, ExitedRowsGone, Alone, Preparing
  <2>5. LiveRowsWatched'
    BY <1>0, <2>0, WatchNames DEF LiveRowsWatched, TypeOK
  <2> QED BY <2>1, <2>2, <2>3, <2>5 DEF IInv
<1>13. CASE WorkerResume
  <2> USE <1>13 DEF WorkerResume
  <2>0. run \in Roots /\ run \in Procs
    BY <1>b, RootNames
  <2>1. TypeOK'
    BY <1>0, <2>0 DEF TypeOK, WorkerLabels
  <2>2. Alone'
    BY <1>0 DEF Alone, Preparing
  <2>3. RootsRow'
    BY <1>0, <2>0 DEF RootsRow, Alone, Preparing
  <2>4. RowsCreated' /\ ExitedRowsGone'
    BY <1>0, <2>0 DEF RowsCreated, ExitedRowsGone, TypeOK
  <2>5. LiveRowsWatched'
    BY <1>0, <2>0 DEF LiveRowsWatched
  <2> QED BY <2>1, <2>2, <2>3, <2>4, <2>5 DEF IInv
<1>14. CASE WorkerSchedule
  <2> USE <1>14 DEF WorkerSchedule
  <2>0. run \in Roots /\ Timer(run) \in Threads
    BY <1>b, RootNames
  <2>t. PICK timer \in ThreadLabels : at' = [at EXCEPT ![Timer(run)] = timer]
    BY DEF ThreadLabels
  <2>1. TypeOK'
    BY <1>0, <2>0, <2>t DEF TypeOK, WorkerLabels
  <2>2. Alone'
    BY <1>0 DEF Alone, Preparing
  <2>3. RootsRow' /\ RowsCreated' /\ ExitedRowsGone'
    BY <1>0, <2>0 DEF RootsRow, RowsCreated, ExitedRowsGone, Alone, Preparing
  <2>5. LiveRowsWatched'
    BY <1>0, <2>0, <2>t, RootNames, WatchNames DEF LiveRowsWatched, TypeOK
  <2> QED BY <2>1, <2>2, <2>3, <2>5 DEF IInv
<1>15. CASE WorkerDone
  <2> USE <1>15 DEF WorkerDone
  <2>1. TypeOK'
    BY <1>0 DEF TypeOK, WorkerLabels
  <2>2. Alone'
    BY <1>0 DEF Alone, Preparing
  <2>3. RootsRow' /\ RowsCreated' /\ ExitedRowsGone' /\ LiveRowsWatched'
    BY <1>0 DEF RootsRow, RowsCreated, ExitedRowsGone, LiveRowsWatched, Alone, Preparing
  <2> QED BY <2>1, <2>2, <2>3 DEF IInv
<1> QED
  BY <1>1, <1>2, <1>3, <1>4, <1>5, <1>6, <1>7, <1>8, <1>9, <1>10, <1>11, <1>12,
     <1>13, <1>14, <1>15 DEF Worker

-----------------------------------------------------------------------------
(* The detached threads.                                                   *)

LEMMA SetTargetKeeps ==
    ASSUME IInv, NEW t \in Threads, SetTargetProcess(t) PROVE IInv'
<1> USE DEF system, session, target
<1>a. /\ etw \in BOOLEAN /\ active \in BOOLEAN
      /\ Return(t) \in ThreadLabels /\ {"set was active", "set was inactive", "set check",
            "set stop etw", "set stop session"} \subseteq ThreadLabels
  BY DEF IInv, TypeOK, Return, ThreadLabels
<1>1. CASE SetRead(t)
  <2>1. PICK l \in ThreadLabels : Goto(t, l)
    BY <1>1, <1>a DEF SetRead
  <2> QED BY <1>1, <1>a, <2>1, ThreadMoves DEF SetRead
<1>2. CASE SetClear(t)
  <2>1. PICK l \in ThreadLabels : Goto(t, l)
    BY <1>2, <1>a DEF SetClear
  <2> QED BY <1>2, <1>a, <2>1, ThreadMoves DEF SetClear
<1>3. CASE SetCheck(t)
  <2>1. PICK l \in ThreadLabels : Goto(t, l)
    BY <1>3, <1>a DEF SetCheck
  <2> QED BY <1>3, <1>a, <2>1, ThreadMoves DEF SetCheck
<1>4. CASE SetStopEtw(t)
  BY <1>4, <1>a, ThreadMoves DEF SetStopEtw
<1>5. CASE SetStopSession(t)
  BY <1>5, <1>a, ThreadMoves DEF SetStopSession
<1> QED BY <1>1, <1>2, <1>3, <1>4, <1>5 DEF SetTargetProcess

\* The row of a process that is no longer alive is marked, and its watch has
\* nothing more to wait for.
LEMMA MarkKeeps ==
    ASSUME IInv, NEW p \in Procs, ~Alive(p), MarkExited(p),
           UNCHANGED <<os, parent, run, active, etw, target, token, launch, ui>>,
           at' \in [Threads -> ThreadLabels],
           \A q \in Procs \ {p} : at'[Watch(q)] = at[Watch(q)]
    PROVE  IInv'
<1> USE DEF target, launch, MarkExited
<1>0. TypeOK /\ Alone /\ RootsRow /\ RowsCreated /\ LiveRowsWatched /\ ExitedRowsGone
  BY DEF IInv
<1>1. TypeOK'
  BY <1>0 DEF TypeOK
<1>2. Alone'
  BY <1>0 DEF Alone, Preparing
<1>3. RootsRow'
  BY <1>0, KidsAreNoRoots DEF RootsRow, TypeOK
<1>4. RowsCreated'
  BY <1>0 DEF RowsCreated, TypeOK
<1>5. ExitedRowsGone'
  BY <1>0 DEF ExitedRowsGone, RowsCreated, TypeOK, Alive
<1>6. LiveRowsWatched'
  BY <1>0 DEF LiveRowsWatched, TypeOK
<1> QED BY <1>1, <1>2, <1>3, <1>4, <1>5, <1>6 DEF IInv

LEMMA WatchKeeps ==
    ASSUME IInv, NEW p \in Procs, WatchSessionProcessExit(p) PROVE IInv'
<1> USE DEF system, session
<1>a. /\ etw \in BOOLEAN /\ active \in BOOLEAN /\ at \in [Threads -> ThreadLabels]
      /\ {"none", "wait", "ended", "set", "last", "last live", "last stop etw",
          "last stop session"} \subseteq ThreadLabels
  BY DEF IInv, TypeOK, ThreadLabels
<1>b. Watch(p) \in Threads /\ Missed(p) \in Threads
  BY WatchNames
<1>1. CASE WatchOpen(p)
  BY <1>1, <1>a, <1>b, ThreadMoves DEF WatchOpen, target
<1>2. CASE WatchOpenFails(p)
  <2>1. /\ at' \in [Threads -> ThreadLabels]
        /\ \A q \in Procs \ {p} : at'[Watch(q)] = at[Watch(q)]
    BY <1>2, <1>a, <1>b, WatchNames DEF WatchOpenFails
  <2> QED BY <1>2, <2>1, MarkKeeps DEF WatchOpenFails
<1>3. CASE WatchReturns(p)
  <2>1. /\ at' \in [Threads -> ThreadLabels]
        /\ \A q \in Procs \ {p} : at'[Watch(q)] = at[Watch(q)]
    BY <1>3, <1>a, <1>b, WatchNames DEF WatchReturns
  <2> QED BY <1>3, <2>1, MarkKeeps DEF WatchReturns
<1>4. ASSUME NEW t \in Threads, WatchEnded(t, p) PROVE IInv'
  <2>1. PICK l \in ThreadLabels : Goto(t, l)
    BY <1>4, <1>a DEF WatchEnded
  <2> QED BY <1>4, <1>a, <2>1, ThreadMoves DEF WatchEnded, target
<1>5. ASSUME NEW t \in Threads, WatchLast(t) PROVE IInv'
  <2>1. PICK l \in ThreadLabels : Goto(t, l)
    BY <1>5, <1>a DEF WatchLast
  <2> QED BY <1>5, <1>a, <2>1, ThreadMoves DEF WatchLast, target
<1>6. ASSUME NEW t \in Threads, WatchLastLive(t) PROVE IInv'
  <2>1. PICK l \in ThreadLabels : Goto(t, l)
    BY <1>6, <1>a DEF WatchLastLive
  <2> QED BY <1>6, <1>a, <2>1, ThreadMoves DEF WatchLastLive, target
<1>7. ASSUME NEW t \in Threads, WatchStopEtw(t) PROVE IInv'
  <2>1. PICK l \in ThreadLabels : Goto(t, l)
    BY <1>7, <1>a DEF WatchStopEtw
  <2> QED BY <1>7, <1>a, <2>1, ThreadMoves DEF WatchStopEtw, target
<1>8. ASSUME NEW t \in Threads, WatchStopSession(t) PROVE IInv'
  BY <1>8, <1>a, ThreadMoves DEF WatchStopSession, target
<1> QED
  BY <1>b, <1>1, <1>2, <1>3, <1>4, <1>5, <1>6, <1>7, <1>8, SetTargetKeeps
  DEF WatchSessionProcessExit

LEMMA ReaderAndTimerKeep ==
    ASSUME IInv, NEW r \in Roots, PipeReaderThread(r) \/ ReaderRejects(r) \/ AutoTerminate(r)
    PROVE  IInv'
<1> USE DEF system, session, target
<1>a. /\ etw \in BOOLEAN /\ active \in BOOLEAN /\ TypeOK
      /\ {"set", "none", "kill", "deactivate", "stop etw", "stop session"} \subseteq ThreadLabels
  BY DEF IInv, TypeOK, ThreadLabels
<1>b. /\ Read(r) \in Threads /\ Timer(r) \in Threads
      /\ \A p \in Procs : Read(r) # Watch(p) /\ Timer(r) # Watch(p)
  BY RootNames
<1>1. CASE ReaderEnds(r)
  BY <1>1, <1>a, <1>b, ThreadMoves DEF ReaderEnds
<1>2. CASE ReaderRejects(r)
  BY <1>2, <1>a, <1>b, ThreadMoves DEF ReaderRejects
<1>3. CASE TimerFires(r)
  <2>1. PICK l \in ThreadLabels : Goto(Timer(r), l)
    BY <1>3, <1>a DEF TimerFires
  <2> QED BY <1>3, <1>a, <1>b, <2>1, ThreadMoves DEF TimerFires
<1>4. CASE TimerTerminates(r)
  <2>1. Ends
    BY <1>4, <1>a, TerminateEnds DEF TimerTerminates, TerminateProcessTree
  <2> QED BY <1>4, <1>a, <1>b, <2>1, ThreadMoves DEF TimerTerminates
<1>5. CASE TimerDeactivates(r)
  BY <1>5, <1>a, <1>b, ThreadMoves DEF TimerDeactivates
<1>6. CASE TimerStopsEtw(r)
  BY <1>6, <1>a, <1>b, ThreadMoves DEF TimerStopsEtw
<1>7. CASE TimerStopsSession(r)
  BY <1>7, <1>a, <1>b, ThreadMoves DEF TimerStopsSession
<1> QED
  BY <1>b, <1>1, <1>2, <1>3, <1>4, <1>5, <1>6, <1>7, SetTargetKeeps
  DEF PipeReaderThread, AutoTerminate

-----------------------------------------------------------------------------
(* Windows and ETW.                                                        *)

LEMMA EnvironmentKeeps == ASSUME IInv, Environment PROVE IInv'
<1> USE DEF system, session, target, launch
<1>0. TypeOK /\ Alone /\ RootsRow /\ RowsCreated /\ LiveRowsWatched /\ ExitedRowsGone
  BY DEF IInv
<1>1. ASSUME NEW p \in Procs, ProcessExits(p) PROVE IInv'
  <2> USE <1>1 DEF ProcessExits
  <2>1. Ends
    BY <1>0 DEF Ends, TypeOK, Alive
  <2>2. TypeOK'
    BY <1>0, <2>1 DEF TypeOK, Ends
  <2>a. Alone'
    BY <1>0, AloneKeeps
  <2>b. RootsRow'
    BY <1>0, <2>1, KidsAreNoRoots, RootsRowKeeps DEF Ends
  <2>3. RowsCreated' /\ ExitedRowsGone' /\ LiveRowsWatched'
    BY <1>0, <2>1, EndsKeeps DEF LiveRowsWatched
  <2> QED BY <2>2, <2>a, <2>b, <2>3 DEF IInv
<1>2. ASSUME NEW k \in Kids, NEW p \in Procs, ProcessSpawns(k, p) PROVE IInv'
  <2> USE <1>2 DEF ProcessSpawns
  <2>0. k \in Procs /\ k \notin Roots
    BY KidsAreNoRoots
  <2>1. TypeOK'
    BY <1>0, <2>0 DEF TypeOK
  <2>2. Alone' /\ LiveRowsWatched'
    BY <1>0, AloneKeeps DEF LiveRowsWatched
  <2>3. RootsRow'
    <3>1. \A r \in Roots : r \in Procs /\ r # k
      BY <2>0, KidsAreNoRoots
    <3>2. os \in [Procs -> {"none", "suspended", "running", "gone"}]
      BY <1>0 DEF TypeOK
    <3>3. \A r \in Roots : os'[r] = os[r] /\ rows'[r] = rows[r]
      BY <3>1, <3>2
    <3> QED BY <1>0, <3>3, RootsRowKeeps
  <2>4. RowsCreated' /\ ExitedRowsGone'
    BY <1>0, <2>0 DEF RowsCreated, ExitedRowsGone, TypeOK
  <2> QED BY <2>1, <2>2, <2>3, <2>4 DEF IInv
<1>3. ASSUME NEW k \in Kids, OnChildProcessSpawned(k) PROVE IInv'
  <2> USE <1>3 DEF OnChildProcessSpawned
  <2>0. k \in Procs /\ k \notin Roots /\ Watch(k) \in Threads
    BY KidsAreNoRoots, WatchNames
  <2>1. TypeOK'
    BY <1>0, <2>0 DEF TypeOK, ThreadLabels
  <2>2. Alone'
    BY <1>0, AloneKeeps
  <2>3. RootsRow'
    <3>1. \A r \in Roots : r \in Procs /\ r # k
      BY <2>0, KidsAreNoRoots
    <3>2. rows \in [Procs -> {"absent", "live", "exited"}]
      BY <1>0 DEF TypeOK
    <3>3. \A r \in Roots : os'[r] = os[r] /\ rows'[r] = rows[r]
      BY <3>1, <3>2
    <3> QED BY <1>0, <3>3, RootsRowKeeps
  <2>4. RowsCreated' /\ ExitedRowsGone'
    BY <1>0, <2>0 DEF RowsCreated, ExitedRowsGone, TypeOK
  <2>5. LiveRowsWatched'
    BY <1>0, <2>0, WatchNames DEF LiveRowsWatched, TypeOK
  <2> QED BY <2>1, <2>2, <2>3, <2>4, <2>5 DEF IInv
<1>4. ASSUME NEW p \in Procs, OnProcessExited(p) PROVE IInv'
  <2> USE <1>4 DEF OnProcessExited
  <2>1. ~Alive(p) /\ at \in [Threads -> ThreadLabels]
    BY <1>0 DEF Alive, TypeOK
  <2> QED BY <2>1, MarkKeeps
<1> QED
  BY <1>1, <1>2, <1>3, <1>4, ReaderAndTimerKeep DEF Environment

-----------------------------------------------------------------------------
(* Theorems.                                                               *)

LEMMA IInvStep == IInv /\ [Next]_vars => IInv'
<1> SUFFICES ASSUME IInv, [Next]_vars PROVE IInv'
  OBVIOUS
<1>1. CASE UNCHANGED vars
  <2> USE <1>1 DEF vars, system, session, target, launch, IInv
  <2>1. TypeOK'
    BY DEF TypeOK
  <2>a. Alone' /\ RootsRow'
    BY AloneKeeps, RootsRowKeeps
  <2>2. RowsCreated' /\ LiveRowsWatched' /\ ExitedRowsGone'
    BY DEF RowsCreated, LiveRowsWatched, ExitedRowsGone
  <2> QED BY <2>1, <2>a, <2>2
<1> QED
  BY <1>1, UiKeeps, WorkerKeeps, WatchKeeps, ReaderAndTimerKeep, EnvironmentKeeps DEF Next

\* The invariant of the launch worker, the GUI thread, the watches and the rows
\* holds in every behaviour.
THEOREM Invariance == Spec => []IInv
BY IInvInit, IInvStep, PTL DEF Spec

\* The variables of the lifecycle keep their types.
THEOREM TypeCorrect == Spec => []TypeOK
<1>1. IInv => TypeOK
  BY DEF IInv
<1> QED BY <1>1, Invariance, PTL

\* However many launches and processes there are and whichever threads of
\* earlier sessions are still about: a live row has a watch that will mark it,
\* and an exited row's process is gone.
THEOREM RowsFollowProcessesHolds == Spec => []RowsFollowProcesses
<1>1. IInv => RowsFollowProcesses
  BY DEF IInv, RowsFollowProcesses
<1> QED BY <1>1, Invariance, PTL

\* However many launches there are, each starts alone.
THEOREM LaunchesAloneHolds == Spec => []LaunchesAlone
<1>1. IInv => LaunchesAlone
  BY DEF IInv, Alone, Preparing, LaunchesAlone
<1> QED BY <1>1, Invariance, PTL

=============================================================================
