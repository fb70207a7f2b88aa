---------------------------- MODULE StaticAnalysis ----------------------------
(***************************************************************************)
(* The static analysis of the selected file and the thread it runs on      *)
(* (PrepareStaticAnalysisTarget, StartStaticAnalysis,                      *)
(* ConsumeCompletedStaticAnalysis, the target panel of DrawDashboardView   *)
(* and the end of it in ShutdownGui, src/src/controller/gui.cpp).          *)
(*                                                                         *)
(* There is one GUI thread.  A frame of it shows a completed result first  *)
(* and takes at most one input then.  A change of the target takes a new   *)
(* token, so that the result of a thread that still reads the previous     *)
(* file is dropped.  What an analysis finds is left out: a result is its   *)
(* file, and whether it is valid.                                          *)
(***************************************************************************)
EXTENDS Naturals

CONSTANTS Files, None, MaxRequests    \* MaxRequests bounds the token

ASSUME AnalysisAssumption == None \notin Files /\ MaxRequests \in Nat

Types == {"exe", "dll"}
Results == [file : Files, valid : BOOLEAN]

VARIABLES
    target, path,       \* g_DashboardTargetType; the file chosen for each type
    request,            \* g_StaticAnalysisRequestToken
    shown,              \* g_StaticAnalysis: a valid result's file, or None
    completed,          \* g_CompletedStaticAnalysis, or None
    running,            \* g_StaticAnalysisRunning
    thread,             \* g_StaticAnalysisThread: its place, request and result
    frame               \* what the GUI thread does next

analysisVars == <<target, path, request, shown, completed, running, thread, frame>>

NoThread == [at |-> "none", request |-> 0, result |-> None]

AnalysisInit ==
    /\ target = "exe" /\ path = [t \in Types |-> None]
    /\ request = 0 /\ shown = None /\ completed = None
    /\ running = FALSE /\ thread = NoThread /\ frame = "consume"

Selected == path[target]

-----------------------------------------------------------------------------
(* The GUI thread.                                                         *)

ConsumeCompletedStaticAnalysis ==
    /\ frame = "consume"
    /\ IF completed = None
       THEN UNCHANGED <<shown, completed>>
       ELSE /\ shown' = IF completed.valid THEN completed.file ELSE None
            /\ completed' = None
    /\ frame' = "input"
    /\ UNCHANGED <<target, path, request, running, thread>>
NoInput ==
    /\ frame = "input" /\ frame' = "consume"
    /\ UNCHANGED <<target, path, request, shown, completed, running, thread>>

\* Variant of Prepare: the request in progress keeps its token.
PrepareKeepsToken ==
    /\ request < MaxRequests
    /\ shown' = None /\ frame' = "prepare"
    /\ UNCHANGED request

\* PrepareStaticAnalysisTarget up to its lock.
Prepare ==
    /\ request < MaxRequests
    /\ request' = request + 1
    /\ shown' = None /\ frame' = "prepare"
PrepareLocked ==
    /\ frame = "prepare"
    /\ completed' = None /\ frame' = "consume"
    /\ UNCHANGED <<target, path, request, shown, running, thread>>

\* A file is browsed for, which may switch the type, or the path is edited.
SelectFile(t, f) ==
    /\ frame = "input"
    /\ f = None => t = target
    /\ target' = t /\ path' = [path EXCEPT ![t] = f]
    /\ Prepare
    /\ UNCHANGED <<completed, running, thread>>
\* The radio buttons prepare nothing for a type without a file.
SelectType(t) ==
    /\ frame = "input"
    /\ target' = t
    /\ IF path[t] # None THEN Prepare ELSE frame' = "consume" /\ UNCHANGED <<request, shown>>
    /\ UNCHANGED <<path, completed, running, thread>>

\* The thread before has set running last, so that the join does not wait.
StartStaticAnalysis ==
    /\ frame = "input"
    /\ ~running /\ Selected # None /\ request < MaxRequests
    /\ request' = request + 1 /\ running' = TRUE
    /\ thread' = [at |-> "analyse", request |-> request + 1, result |-> Selected]
    /\ frame' = "consume"
    /\ UNCHANGED <<target, path, shown, completed>>

ShutdownGui ==
    /\ frame \in {"consume", "input"} /\ request < MaxRequests
    /\ request' = request + 1 /\ frame' = "join"
    /\ UNCHANGED <<target, path, shown, completed, running, thread>>
JoinThread ==
    /\ frame = "join" /\ thread.at = "none"
    /\ frame' = "closed"
    /\ UNCHANGED <<target, path, request, shown, completed, running, thread>>

-----------------------------------------------------------------------------
(* The thread.                                                             *)

AnalyzeSelectedFile ==
    /\ thread.at = "analyse"
    /\ \E valid \in BOOLEAN :
         thread' = [thread EXCEPT !.at = "publish", !.result = [file |-> @, valid |-> valid]]
    /\ UNCHANGED <<target, path, request, shown, completed, running, frame>>
Publish ==
    /\ thread.at = "publish"
    /\ completed' = IF thread.request = request THEN thread.result ELSE completed
    /\ thread' = [thread EXCEPT !.at = "finish"]
    /\ UNCHANGED <<target, path, request, shown, running, frame>>
Finish ==
    /\ thread.at = "finish"
    /\ running' = FALSE /\ thread' = NoThread
    /\ UNCHANGED <<target, path, request, shown, completed, frame>>

AnalysisThread == AnalyzeSelectedFile \/ Publish \/ Finish
Frame ==
    \/ ConsumeCompletedStaticAnalysis \/ NoInput \/ PrepareLocked
    \/ \E t \in Types, f \in Files \cup {None} : SelectFile(t, f)
    \/ \E t \in Types : SelectType(t)
    \/ StartStaticAnalysis \/ ShutdownGui \/ JoinThread

AnalysisNext == AnalysisThread \/ Frame
AnalysisFairness == WF_analysisVars(AnalysisThread) /\ WF_analysisVars(Frame)

-----------------------------------------------------------------------------
AnalysisTypeOK ==
    /\ target \in Types /\ path \in [Types -> Files \cup {None}]
    /\ request \in 0 .. MaxRequests
    /\ shown \in Files \cup {None} /\ completed \in Results \cup {None}
    /\ running \in BOOLEAN /\ running = (thread.at # "none")
    /\ thread.at \in {"none", "analyse", "publish", "finish"}
    /\ thread.request \in 0 .. request
    /\ thread.result \in Files \cup Results \cup {None}
    /\ frame \in {"consume", "input", "prepare", "join", "closed"}

\* The result on the screen is that of the selected file, however often the
\* selection changes while the threads of earlier requests are on their way.
\* When no file is selected for the type, the other type's result stays.
ShownIsSelected == shown # None => Selected \in {None, shown}

\* Closing the window ends, after the file that is still read.
CloseEnds == (frame = "join") ~> (frame = "closed")

=============================================================================
