-------------------------- MODULE BackgroundWorkers --------------------------
(***************************************************************************)
(* The background workers of the GUI, one at a time: they share no state,  *)
(* so that all interleavings of all of them would show nothing that one of *)
(* them beside the GUI thread and its target does not.  The constant parts *)
(* are those of the modules; "which" is the worker of a behaviour.         *)
(***************************************************************************)
EXTENDS StringScanner, StaticAnalysis, FolderFileWatcher, SystemWatchers

VARIABLE which

workerVars == <<which, scannerVars, analysisVars, folderVars, watcherVars>>

Init ==
    /\ which \in {"strings", "analysis", "folders", "watchers"}
    /\ ScannerInit /\ AnalysisInit /\ FolderInit /\ WatchersInit
    /\ which # "strings" => executableOnly      \* one start is enough
    /\ which # "watchers" => kind = "process"

Next ==
    \/ /\ which = "strings" /\ ScannerNext
       /\ UNCHANGED <<which, analysisVars, folderVars, watcherVars>>
    \/ /\ which = "analysis" /\ AnalysisNext
       /\ UNCHANGED <<which, scannerVars, folderVars, watcherVars>>
    \/ /\ which = "folders" /\ FolderNext
       /\ UNCHANGED <<which, scannerVars, analysisVars, watcherVars>>
    \/ /\ which = "watchers" /\ WatchersNext
       /\ UNCHANGED <<which, scannerVars, analysisVars, folderVars>>

\* The fairness of each worker; what is enabled from the start, only for the
\* worker of the behaviour.
Fairness ==
    /\ ScannerFairness
    /\ WF_analysisVars(AnalysisThread) /\ WF_analysisVars(which = "analysis" /\ Frame)
    /\ \A r \in Roots : WF_folderVars(Worker(r))
    /\ WF_folderVars(Main) /\ WF_folderVars(which = "folders" /\ Gui)

Spec == Init /\ [][Next]_workerVars /\ Fairness

\* Every worker that is stopped ends: a scanner whose token has passed, the
\* analysis at the end of the program, and the folder watcher as soon as the
\* folders it still reads change.
StoppedWorkersEnd == PassedScannersEnd /\ CloseEnds /\ StopEnds

=============================================================================
