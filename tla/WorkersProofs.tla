---------------------------- MODULE WorkersProofs ----------------------------
(***************************************************************************)
(* Theorems of the background workers, for any roots, files and bounds,    *)
(* and for every behaviour of BackgroundWorkers.                           *)
(***************************************************************************)
EXTENDS BackgroundWorkers, FiniteSetTheorems, SequenceTheorems, TLAPS

-----------------------------------------------------------------------------
(* The folder watcher: a thread's place tells whether its directory is     *)
(* open and registered.                                                    *)

FolderPlaces ==
    /\ worker \in [Roots -> WorkerPlaces]
    /\ open \subseteq Roots /\ handles \subseteq Roots
    /\ \A r \in Roots :
         /\ r \in open <=>
              worker[r] \in {"register", "loop", "read", "failed", "erase", "close"}
         /\ r \in handles <=> worker[r] \in {"loop", "read", "failed", "erase"}
    /\ gui = "start" => main = "none"
    /\ main \in {"none", "start"} => \A r \in Roots : worker[r] = "none"

LEMMA FolderPlacesInit == FolderInit => FolderPlaces
BY DEF FolderInit, FolderPlaces, WorkerPlaces

LEMMA FolderPlacesStep ==
    FolderPlaces /\ [FolderNext]_folderVars => FolderPlaces'
<1> SUFFICES ASSUME FolderPlaces, [FolderNext]_folderVars PROVE FolderPlaces'
  OBVIOUS
<1> USE DEF FolderPlaces, WorkerPlaces
<1>1. CASE UNCHANGED folderVars
  BY <1>1 DEF folderVars
<1>2. ASSUME NEW r \in Roots, Worker(r) PROVE FolderPlaces'
  <2>1. CASE OpenRoot(r)
    BY <2>1 DEF OpenRoot, WorkerGoes
  <2>2. CASE RegisterHandle(r)
    BY <2>2 DEF RegisterHandle, WorkerGoes
  <2>3. CASE LookAtStop(r)
    BY <2>3 DEF LookAtStop, WorkerGoes
  <2>4. CASE ReadChanges(r)
    BY <2>4 DEF ReadChanges, WorkerGoes
  <2>5. CASE AfterFailure(r)
    BY <2>5 DEF AfterFailure, WorkerGoes
  <2>6. CASE EraseHandle(r)
    BY <2>6 DEF EraseHandle, WorkerGoes
  <2>7. CASE CloseRoot(r)
    BY <2>7 DEF CloseRoot, WorkerGoes
  <2> QED BY <1>2, <2>1, <2>2, <2>3, <2>4, <2>5, <2>6, <2>7 DEF Worker
<1>3. ASSUME NEW r \in Roots, ReadFails(r) PROVE FolderPlaces'
  BY <1>3 DEF ReadFails, WorkerGoes
<1>4. ASSUME NEW r \in Roots, FolderChanges(r) PROVE FolderPlaces'
  BY <1>4 DEF FolderChanges
<1>5. CASE Main
  <2>1. CASE MainStarts
    BY <2>1 DEF MainStarts
  <2>2. CASE MainSeesStop
    BY <2>2 DEF MainSeesStop
  <2>3. CASE MainCancels
    BY <2>3 DEF MainCancels, CancelReads
  <2>4. CASE MainJoins
    BY <2>4 DEF MainJoins
  <2> QED BY <1>5, <2>1, <2>2, <2>3, <2>4 DEF Main
<1>6. CASE Gui
  <2>1. CASE StartFolderFileWatcher
    BY <2>1 DEF StartFolderFileWatcher
  <2>2. CASE StopCancels
    BY <2>2 DEF StopCancels, CancelReads
  <2>3. CASE StopJoins
    BY <2>3 DEF StopJoins
  <2> QED BY <1>6, <2>1, <2>2, <2>3 DEF Gui
<1>7. CASE StopFolderFileWatcher
  BY <1>7 DEF StopFolderFileWatcher
<1> QED BY <1>1, <1>2, <1>3, <1>4, <1>5, <1>6, <1>7 DEF FolderNext

\* CancelIoEx never gets a handle that is closed, for any number of folders.
THEOREM CancelledHandlesOpenHolds == Spec => []CancelledHandlesOpen
<1>1. Init => FolderPlaces
  BY FolderPlacesInit DEF Init
<1>2. FolderPlaces /\ [Next]_workerVars => FolderPlaces'
  <2> SUFFICES ASSUME FolderPlaces, [Next]_workerVars PROVE FolderPlaces'
    OBVIOUS
  <2>1. [FolderNext]_folderVars
    BY DEF Next, workerVars
  <2> QED BY <2>1, FolderPlacesStep
<1>3. FolderPlaces => CancelledHandlesOpen
  BY DEF FolderPlaces, CancelledHandlesOpen
<1> QED BY <1>1, <1>2, <1>3, PTL DEF Spec

-----------------------------------------------------------------------------
(* The static analysis: what is shown, completed or on its way under the   *)
(* present request is of the selected file, if there is one.  Between the  *)
(* two steps of PrepareStaticAnalysisTarget a completed result may be of   *)
(* another file; it is dropped by the second.                              *)

Fits(f) == Selected \in {None, f}

OnItsWay ==
    /\ thread.request <= request
    /\ thread.at = "analyse" => thread.result \in Files
    /\ thread.at = "publish" => thread.result \in Results
    /\ thread.at # "none" => thread.request > 0
    /\ thread.request = request =>
         /\ thread.at = "analyse" => Fits(thread.result)
         /\ thread.at = "publish" => Fits(thread.result.file)

ResultsFit ==
    /\ target \in Types /\ path \in [Types -> Files \cup {None}]
    /\ request \in Nat
    /\ thread \in [at : {"none", "analyse", "publish", "finish"}, request : Nat,
                   result : Files \cup Results \cup {None}]
    /\ OnItsWay
    /\ completed \in Results \cup {None}
    /\ frame \in {"consume", "input", "prepare", "join", "closed"}
    /\ completed # None /\ frame # "prepare" => Fits(completed.file)
    /\ shown # None => Fits(shown)
    /\ shown \in Files \cup {None}
    /\ frame = "prepare" => shown = None

LEMMA ResultsFitInit == AnalysisInit => ResultsFit
BY AnalysisAssumption DEF AnalysisInit, ResultsFit, OnItsWay, NoThread, Types, Selected, Fits, Results

LEMMA ResultsFitStep ==
    ResultsFit /\ [AnalysisNext]_analysisVars => ResultsFit'
<1> SUFFICES ASSUME ResultsFit, [AnalysisNext]_analysisVars PROVE ResultsFit'
  OBVIOUS
<1> USE AnalysisAssumption DEF ResultsFit, OnItsWay, Fits, Selected, Types
<1>1. CASE UNCHANGED analysisVars
  BY <1>1 DEF analysisVars
<1>2. CASE AnalyzeSelectedFile
  <2>1. PICK valid \in BOOLEAN :
          thread' = [thread EXCEPT !.at = "publish", !.result = [file |-> @, valid |-> valid]]
    BY <1>2 DEF AnalyzeSelectedFile
  <2>2. /\ thread'.at = "publish" /\ thread'.request = thread.request
        /\ thread'.result = [file |-> thread.result, valid |-> valid]
    BY <2>1
  <2>3. thread'.result \in Results /\ thread'.result.file = thread.result
    BY <1>2, <2>2 DEF Results, AnalyzeSelectedFile
  <2> QED BY <1>2, <2>1, <2>2, <2>3 DEF AnalyzeSelectedFile
<1>3. CASE Publish
  BY <1>3 DEF Publish
<1>4. CASE Finish
  BY <1>4 DEF Finish, NoThread
<1>5. CASE ConsumeCompletedStaticAnalysis
  BY <1>5 DEF ConsumeCompletedStaticAnalysis, Results
<1>6. CASE NoInput
  BY <1>6 DEF NoInput
<1>7. CASE PrepareLocked
  BY <1>7 DEF PrepareLocked
<1>8. ASSUME NEW t \in Types, NEW f \in Files \cup {None}, SelectFile(t, f) PROVE ResultsFit'
  BY <1>8 DEF SelectFile, Prepare
<1>9. ASSUME NEW t \in Types, SelectType(t) PROVE ResultsFit'
  <2>1. CASE path[t] # None
    BY <1>9, <2>1 DEF SelectType, Prepare
  <2>2. CASE path[t] = None
    BY <1>9, <2>2 DEF SelectType
  <2> QED BY <2>1, <2>2
<1>10. CASE StartStaticAnalysis
  BY <1>10 DEF StartStaticAnalysis
<1>11. CASE ShutdownGui
  BY <1>11 DEF ShutdownGui
<1>12. CASE JoinThread
  BY <1>12 DEF JoinThread
<1> QED
  BY <1>1, <1>2, <1>3, <1>4, <1>5, <1>6, <1>7, <1>8, <1>9, <1>10, <1>11, <1>12
  DEF AnalysisNext, AnalysisThread, Frame

\* Whatever files are selected, and however often, a result that is shown is
\* that of the selected file.
THEOREM ShownIsSelectedHolds == Spec => []ShownIsSelected
<1>1. Init => ResultsFit
  BY ResultsFitInit DEF Init
<1>2. ResultsFit /\ [Next]_workerVars => ResultsFit'
  <2> SUFFICES ASSUME ResultsFit, [Next]_workerVars PROVE ResultsFit'
    OBVIOUS
  <2>1. [AnalysisNext]_analysisVars
    BY DEF Next, workerVars
  <2> QED BY <2>1, ResultsFitStep
<1>3. ResultsFit => ShownIsSelected
  BY DEF ResultsFit, ShownIsSelected, Fits
<1> QED BY <1>1, <1>2, <1>3, PTL DEF Spec

-----------------------------------------------------------------------------
(* The scanner of strings.  A launch is always ahead of the scanners that  *)
(* earlier launches left behind, a pass holds a chunk once, and a scanner  *)
(* that has been left behind can be in its merge only once after the       *)
(* launch has cleared the table: the look at the token lets no other pass  *)
(* of it through.                                                          *)

OnePerChunk(rows) == \A x, y \in rows : x.chunk = y.chunk => x = y
RowsOf(t) == {x \in table : x.token = t}
LeftBehind == {t \in Tokens : t < start.token}

ScannerTypes ==
    /\ token \in Nat /\ start.token \in Nat /\ start.token <= token
    /\ start = [token |-> start.token, at |-> start.at]
    /\ start.at # "idle" => start.token \in Tokens
    /\ scanner \in [Tokens -> {"none", "baseline", "loop", "scan", "merge", "merging", "ended"}]
    /\ chunk \in [Tokens -> Nat] /\ recovered \in [Tokens -> SUBSET Rows]
    /\ memory \in [Tokens -> [Chunks -> Contents]]
    /\ table \subseteq Rows

LaunchAhead ==
    /\ \A t \in Tokens : t > start.token => scanner[t] = "none"
    /\ start.at \in {"clear", "open"} => scanner[start.token] = "none"

PassOf(t) ==
    /\ scanner[t] \in {"none", "baseline", "loop", "ended"} => recovered[t] = {}
    /\ \A x \in recovered[t] : x.token = t /\ (scanner[t] = "scan" => x.chunk < chunk[t])
    /\ OnePerChunk(recovered[t])

MergedOnce(t) ==
    /\ scanner[t] = "merging" => RowsOf(t) = {}
    /\ OnePerChunk(RowsOf(t))

LateMerges ==
    /\ ScannerTypes /\ LaunchAhead
    /\ \A t \in Tokens : PassOf(t)
    /\ start.at # "clear" => \A t \in LeftBehind : MergedOnce(t)

LEMMA LateMergesInit == ScannerInit => LateMerges
BY ScannerAssumption
DEF ScannerInit, LateMerges, ScannerTypes, LaunchAhead, PassOf, MergedOnce, OnePerChunk,
    RowsOf, LeftBehind, Tokens

\* What a merge adds are rows of the pass.
LEMMA MergeAdds ==
    ASSUME NEW rows, NEW new \in Merged(rows)
    PROVE  table \subseteq new /\ new \subseteq table \cup rows
BY DEF Merged

\* A step that leaves the token, the launch and the table alone, and may move one
\* scanner, keeps the invariant if that scanner's pass is in order and it does
\* not come to its merge when it has been left behind.
LEMMA ScannerMoves ==
    ASSUME LateMerges, ScannerTypes', NEW t \in Tokens,
           UNCHANGED <<token, table, start>>,
           \A u \in Tokens \ {t} : /\ scanner'[u] = scanner[u] /\ chunk'[u] = chunk[u]
                                   /\ recovered'[u] = recovered[u],
           scanner[t] # "none", PassOf(t)',
           scanner'[t] = "merging" => scanner[t] = "merging" \/ token = t
    PROVE  LateMerges'
<1>1. LaunchAhead'
  <2>1. ASSUME NEW u \in Tokens, u > start.token PROVE u # t
    BY <2>1 DEF LateMerges, LaunchAhead
  <2>2. start.at \in {"clear", "open"} => start.token # t /\ start.token \in Tokens
    BY DEF LateMerges, LaunchAhead, ScannerTypes
  <2> QED BY <2>1, <2>2 DEF LateMerges, LaunchAhead
<1>2. ASSUME NEW u \in Tokens PROVE PassOf(u)'
  BY DEF LateMerges, PassOf
<1>3. ASSUME start.at # "clear", NEW u \in LeftBehind PROVE MergedOnce(u)'
  <2>1. u \in Tokens /\ u # token
    BY DEF LateMerges, ScannerTypes, LeftBehind, Tokens
  <2>2. scanner'[u] = "merging" => scanner[u] = "merging"
    BY <2>1
  <2> QED BY <1>3, <2>2 DEF LateMerges, MergedOnce, RowsOf
<1> QED BY <1>1, <1>2, <1>3 DEF LateMerges, LeftBehind

LEMMA LateMergesScan ==
    ASSUME LateMerges, NEW t \in Tokens, Scan(t)
    PROVE  LateMerges'
<1> USE ScannerAssumption
<1>t. ScannerTypes
  BY DEF LateMerges
<1>p. PassOf(t)
  BY DEF LateMerges
<1>1. CASE SkipChunk(t)
  <2>1. chunk' = [chunk EXCEPT ![t] = @ + 1] /\ UNCHANGED <<token, table, start, memory, scanner, recovered>>
    BY <1>1 DEF SkipChunk, NextChunk, targetVars
  <2>2. ScannerTypes' /\ chunk'[t] = chunk[t] + 1 /\ chunk[t] \in Nat
    BY <2>1, <1>t DEF ScannerTypes
  <2>3. \A x \in recovered[t] : x.chunk \in Nat
    BY <1>t DEF ScannerTypes, Rows, Chunks
  <2>4. PassOf(t)'
    BY <2>1, <2>2, <2>3, <1>p DEF PassOf, OnePerChunk
  <2> QED BY <1>1, <2>1, <2>2, <2>4, <1>t, ScannerMoves DEF SkipChunk, Scanning, ScannerTypes
<1>2. CASE ReadChunk(t)
  <2> DEFINE row == [token |-> t, chunk |-> chunk[t], content |-> memory[t][chunk[t]]]
  <2>1. /\ chunk' = [chunk EXCEPT ![t] = @ + 1] /\ UNCHANGED <<token, table, start, scanner>>
        /\ scanner[t] \in {"baseline", "scan"}
    BY <1>2 DEF ReadChunk, NextChunk, Scanning
  <2>2. \/ UNCHANGED recovered
        \/ /\ scanner[t] = "scan"
           /\ recovered' = [recovered EXCEPT ![t] = @ \cup {row}]
    BY <1>2 DEF ReadChunk
  <2>3. chunk[t] \in Chunks
    BY <1>2 DEF ReadChunk, GoesOn, AllRead
  <2>4. row \in Rows
    BY <2>3, <1>t DEF Rows, ScannerTypes
  <2>5. ScannerTypes'
    <3>1. recovered' \in [Tokens -> SUBSET Rows]
      BY <2>2, <2>4, <1>t DEF ScannerTypes
    <3>2. memory' = memory
      BY <1>2 DEF ReadChunk, targetVars
    <3> QED BY <2>1, <3>1, <3>2, <1>t DEF ScannerTypes
  <2>6. PassOf(t)'
    <3>1. chunk'[t] = chunk[t] + 1 /\ chunk[t] \in Nat /\ scanner'[t] = scanner[t]
      BY <2>1, <1>t DEF ScannerTypes
    <3>2. recovered'[t] \subseteq recovered[t] \cup {row}
      BY <2>2, <1>t DEF ScannerTypes
    <3>3. CASE scanner[t] = "scan"
      <4>1. \A x \in recovered[t] : x.token = t /\ x.chunk < chunk[t] /\ x.chunk \in Nat
        BY <1>p, <1>t, <3>3 DEF PassOf, ScannerTypes, Rows, Chunks
      <4>2. row.token = t /\ row.chunk = chunk[t]
        OBVIOUS
      <4> HIDE DEF row
      <4>3. \A x \in recovered'[t] : x.token = t /\ x.chunk < chunk'[t]
        BY <3>1, <3>2, <4>1, <4>2
      <4>4. OnePerChunk(recovered'[t])
        BY <3>1, <3>2, <4>1, <4>2, <1>p DEF OnePerChunk, PassOf
      <4> QED BY <3>1, <3>3, <4>3, <4>4 DEF PassOf
    <3>4. CASE scanner[t] = "baseline"
      <4>1. recovered' = recovered
        BY <2>2, <3>4
      <4> QED BY <3>1, <3>4, <4>1, <1>p DEF PassOf
    <3> QED BY <2>1, <3>3, <3>4
  <2>7. \A u \in Tokens \ {t} : recovered'[u] = recovered[u] /\ chunk'[u] = chunk[u]
    BY <2>1, <2>2, <1>t DEF ScannerTypes
  <2> HIDE DEF row
  <2> QED BY <2>1, <2>5, <2>6, <2>7, ScannerMoves
<1>3. CASE EndPass(t)
  <2>0. /\ scanner' = [scanner EXCEPT ![t] = IF @ = "baseline" THEN "loop" ELSE "merge"]
        /\ chunk' = [chunk EXCEPT ![t] = 1] /\ scanner[t] \in {"baseline", "scan"}
        /\ UNCHANGED <<token, start, table, memory, recovered>>
    BY <1>3 DEF EndPass, Scanning, targetVars
  <2>1. ScannerTypes' /\ PassOf(t)'
    <3>1. ScannerTypes'
      BY <2>0, <1>t DEF ScannerTypes
    <3>2. \/ scanner[t] = "baseline" /\ scanner'[t] = "loop"
          \/ scanner[t] = "scan" /\ scanner'[t] = "merge"
      BY <2>0, <1>t DEF ScannerTypes
    <3>3. recovered'[t] = recovered[t]
      BY <2>0
    <3> QED BY <3>1, <3>2, <3>3, <1>p DEF PassOf, OnePerChunk
  <2>2. scanner'[t] # "merging" /\ scanner[t] # "none"
    BY <1>3, <1>t DEF EndPass, Scanning, ScannerTypes
  <2> QED BY <1>3, <2>1, <2>2, <1>t, ScannerMoves DEF EndPass, ScannerTypes
<1>4. CASE MergeLook(t)
  <2>1. ScannerTypes' /\ PassOf(t)'
    BY <1>4, <1>t, <1>p DEF MergeLook, targetVars, ScannerTypes, PassOf, OnePerChunk
  <2>2. scanner'[t] = "merging" => token = t
    BY <1>4, <1>t DEF MergeLook, Current, ScannerTypes
  <2>3. \A u \in Tokens \ {t} : /\ scanner'[u] = scanner[u] /\ chunk'[u] = chunk[u]
                                 /\ recovered'[u] = recovered[u]
    BY <1>4, <1>t DEF MergeLook, ScannerTypes
  <2> QED BY <1>4, <2>1, <2>2, <2>3, ScannerMoves DEF MergeLook
<1>5. CASE ScannerLoop(t)
  <2>1. ScannerTypes' /\ PassOf(t)'
    BY <1>5, <1>t, <1>p DEF ScannerLoop, targetVars, ScannerTypes, PassOf
  <2>2. scanner'[t] # "merging"
    BY <1>5, <1>t DEF ScannerLoop, ScannerTypes
  <2>3. \A u \in Tokens \ {t} : /\ scanner'[u] = scanner[u] /\ chunk'[u] = chunk[u]
                                 /\ recovered'[u] = recovered[u]
    BY <1>5, <1>t DEF ScannerLoop, ScannerTypes
  <2> QED BY <1>5, <2>1, <2>2, <2>3, ScannerMoves DEF ScannerLoop
<1>6. CASE MergeRecoveredStrings(t)
  <2>1. /\ scanner[t] = "merging" /\ scanner' = [scanner EXCEPT ![t] = "loop"]
        /\ recovered' = [recovered EXCEPT ![t] = {}]
        /\ UNCHANGED <<token, start, chunk, memory>>
        /\ table \subseteq table' /\ table' \subseteq table \cup recovered[t]
    BY <1>6, MergeAdds DEF MergeRecoveredStrings, targetVars
  <2>2. ScannerTypes'
    <3>1. table' \subseteq Rows
      BY <2>1, <1>t DEF ScannerTypes
    <3> QED BY <2>1, <3>1, <1>t DEF ScannerTypes
  <2>3. LaunchAhead'
    BY <2>1, <1>t DEF LateMerges, LaunchAhead, ScannerTypes
  <2>4. ASSUME NEW u \in Tokens PROVE PassOf(u)'
    BY <2>1, <1>t DEF LateMerges, PassOf, OnePerChunk, ScannerTypes
  <2>5. ASSUME start.at # "clear", NEW u \in LeftBehind PROVE MergedOnce(u)'
    <3>1. MergedOnce(u) /\ u \in Tokens
      BY <2>5 DEF LateMerges, LeftBehind
    <3>2. CASE u = t
      <4>1. RowsOf(t) = {}
        BY <2>1, <3>1, <3>2 DEF MergedOnce
      <4>2. RowsOf(t)' \subseteq recovered[t]
        BY <2>1, <4>1 DEF RowsOf
      <4>3. OnePerChunk(RowsOf(t)')
        BY <4>2, <1>p DEF PassOf, OnePerChunk
      <4>4. scanner'[t] # "merging"
        BY <2>1, <1>t DEF ScannerTypes
      <4> QED BY <3>2, <4>3, <4>4 DEF MergedOnce, OnePerChunk
    <3>3. CASE u # t
      <4>1. RowsOf(u)' = RowsOf(u)
        BY <2>1, <1>p, <3>3 DEF RowsOf, PassOf
      <4>2. scanner'[u] = scanner[u]
        BY <2>1, <3>3, <1>t DEF ScannerTypes
      <4> QED BY <3>1, <4>1, <4>2 DEF MergedOnce, OnePerChunk
    <3> QED BY <3>2, <3>3
  <2> QED BY <2>1, <2>2, <2>3, <2>4, <2>5 DEF LateMerges, LeftBehind
<1> QED BY <1>1, <1>2, <1>3, <1>4, <1>5, <1>6 DEF Scan

LEMMA LateMergesStep ==
    LateMerges /\ [ScannerNext]_scannerVars => LateMerges'
<1> SUFFICES ASSUME LateMerges, [ScannerNext]_scannerVars PROVE LateMerges'
  OBVIOUS
<1> USE ScannerAssumption
<1>t. ScannerTypes
  BY DEF LateMerges
<1>n. token \in Nat /\ start.token \in Nat /\ MaxToken \in Nat
  BY <1>t DEF ScannerTypes
\* What only the token, the target and the check box show leaves the rest.
<1>u. ASSUME UNCHANGED <<table, start, passVars>>, ScannerTypes' PROVE LateMerges'
  BY <1>u DEF LateMerges, LaunchAhead, PassOf, MergedOnce, OnePerChunk, RowsOf, LeftBehind, passVars
<1>1. CASE UNCHANGED scannerVars
  <2>1. ScannerTypes'
    BY <1>1, <1>t DEF scannerVars, targetVars, passVars, ScannerTypes
  <2> QED BY <1>1, <1>u, <2>1 DEF scannerVars
<1>2. CASE StopRuntimeStringScanner
  <2>1. ScannerTypes'
    BY <1>2, <1>t, <1>n DEF StopRuntimeStringScanner, targetVars, passVars, ScannerTypes
  <2> QED BY <1>2, <1>u, <2>1 DEF StopRuntimeStringScanner
<1>3. CASE StartRuntimeStringScanner
  <2>1. /\ token' = token + 1 /\ start' = [token |-> token + 1, at |-> "clear"]
        /\ UNCHANGED <<table, memory, scanner, chunk, recovered>> /\ token + 1 \in Tokens
    BY <1>3, <1>n DEF StartRuntimeStringScanner, passVars, Tokens
  <2>2. ScannerTypes'
    BY <2>1, <1>t, <1>n DEF ScannerTypes
  <2>3. LaunchAhead'
    <3>1. start'.token = token + 1 /\ start.token < token + 1
      BY <2>1, <1>t, <1>n DEF ScannerTypes
    <3>2. \A u \in Tokens : u > token + 1 => u > start.token
      BY <3>1, <1>n DEF Tokens
    <3> QED BY <2>1, <3>1, <3>2, <1>n DEF LateMerges, LaunchAhead
  <2>4. ASSUME NEW u \in Tokens PROVE PassOf(u)'
    BY <2>1 DEF LateMerges, PassOf, OnePerChunk
  <2> QED BY <2>1, <2>2, <2>3, <2>4 DEF LateMerges
<1>4. CASE ClearTable
  <2>1. /\ start.at = "clear" /\ table' = {} /\ start' = [start EXCEPT !.at = "open"]
        /\ UNCHANGED <<token, memory, scanner, chunk, recovered>>
    BY <1>4 DEF ClearTable, targetVars, passVars
  <2>2. start'.token = start.token /\ start'.at = "open"
    BY <2>1, <1>t DEF ScannerTypes
  <2>3. ScannerTypes' /\ LaunchAhead'
    BY <2>1, <2>2, <1>t DEF ScannerTypes, LateMerges, LaunchAhead
  <2>4. ASSUME NEW u \in Tokens PROVE PassOf(u)' /\ MergedOnce(u)'
    BY <2>1 DEF LateMerges, PassOf, MergedOnce, RowsOf, OnePerChunk
  <2> QED BY <2>3, <2>4 DEF LateMerges, LeftBehind
<1>5. CASE OpenTarget
  <2>1. /\ start.at = "open" /\ start' = [start EXCEPT !.at = "resume"]
        /\ UNCHANGED <<token, memory, table, chunk, recovered>>
        /\ scanner' \in {scanner, [scanner EXCEPT ![start.token] = "baseline"]}
    BY <1>5 DEF OpenTarget, targetVars
  <2>2. /\ start'.token = start.token /\ start'.at = "resume"
        /\ start.token \in Tokens /\ scanner[start.token] = "none"
    BY <2>1, <1>t DEF ScannerTypes, LateMerges, LaunchAhead
  <2>3. ScannerTypes'
    BY <2>1, <2>2, <1>t DEF ScannerTypes
  <2>4. LaunchAhead'
    BY <2>1, <2>2, <1>t, <1>n DEF ScannerTypes, LateMerges, LaunchAhead, Tokens
  <2>5. ASSUME NEW u \in Tokens PROVE PassOf(u)'
    BY <2>1, <2>2, <1>t DEF LateMerges, ScannerTypes, PassOf, OnePerChunk
  <2>6. ASSUME NEW u \in LeftBehind PROVE MergedOnce(u)'
    <3>1. u \in Tokens /\ u # start.token
      BY <1>n DEF LeftBehind, Tokens
    <3> QED BY <2>1, <2>2, <3>1, <1>t DEF LateMerges, ScannerTypes, MergedOnce, RowsOf, OnePerChunk
  <2> QED BY <2>2, <2>3, <2>4, <2>5, <2>6 DEF LateMerges, LeftBehind
<1>6. CASE ResumeTarget
  <2>1. /\ start.at = "resume" /\ start' = [start EXCEPT !.at = "idle"]
        /\ UNCHANGED <<table, memory, scanner, chunk, recovered>>
        /\ token' \in {token, token + 1}
    BY <1>6 DEF ResumeTarget, passVars
  <2>2. start'.token = start.token /\ start'.at = "idle"
    BY <2>1, <1>t DEF ScannerTypes
  <2>3. ScannerTypes' /\ LaunchAhead'
    BY <2>1, <2>2, <1>t, <1>n DEF ScannerTypes, LateMerges, LaunchAhead
  <2>4. ASSUME NEW u \in Tokens PROVE PassOf(u)' /\ (u \in LeftBehind => MergedOnce(u)')
    BY <2>1 DEF LateMerges, PassOf, MergedOnce, RowsOf, OnePerChunk
  <2> QED BY <2>2, <2>3, <2>4 DEF LateMerges, LeftBehind
<1>7. ASSUME NEW t \in Tokens, Scan(t) PROVE LateMerges'
  BY <1>7, LateMergesScan
<1>8. ASSUME NEW t \in Tokens, TargetWrites(t) PROVE LateMerges'
  <2>1. ScannerTypes'
    BY <1>8, <1>t DEF TargetWrites, passVars, ScannerTypes
  <2> QED BY <1>8, <1>u, <2>1 DEF TargetWrites
<1>9. ASSUME NEW t \in Tokens, TargetEnds(t) PROVE LateMerges'
  <2>1. ScannerTypes'
    BY <1>9, <1>t DEF TargetEnds, passVars, ScannerTypes
  <2> QED BY <1>9, <1>u, <2>1 DEF TargetEnds
<1>10. CASE ToggleExecutableOnly
  <2>1. ScannerTypes'
    BY <1>10, <1>t DEF ToggleExecutableOnly, targetVars, passVars, ScannerTypes
  <2> QED BY <1>10, <1>u, <2>1 DEF ToggleExecutableOnly
<1> QED BY <1>1, <1>2, <1>3, <1>4, <1>5, <1>6, <1>7, <1>8, <1>9, <1>10 DEF ScannerNext

\* A scanner that an earlier launch left behind puts at most one pass into the
\* table of a later one (MergeRecoveredStrings looks at the token before it takes
\* the lock), for any number of launches, chunks and contents.
THEOREM OneLateMergeHolds == Spec => []OneLateMerge
<1>1. Init => LateMerges
  BY LateMergesInit DEF Init
<1>2. LateMerges /\ [Next]_workerVars => LateMerges'
  <2> SUFFICES ASSUME LateMerges, [Next]_workerVars PROVE LateMerges'
    OBVIOUS
  <2>1. [ScannerNext]_scannerVars
    BY DEF Next, workerVars
  <2> QED BY <2>1, LateMergesStep
<1>3. LateMerges => OneLateMerge
  <2> SUFFICES ASSUME LateMerges, start.at # "clear", NEW x \in table, NEW y \in table,
                      x.token < start.token, x.chunk = y.chunk, x.token = y.token
               PROVE  x = y
    BY DEF OneLateMerge
  <2>1. x.token \in LeftBehind
    BY DEF LateMerges, ScannerTypes, Rows, LeftBehind
  <2>2. x \in RowsOf(x.token) /\ y \in RowsOf(x.token)
    BY DEF RowsOf
  <2> QED BY <2>1, <2>2 DEF LateMerges, MergedOnce, OnePerChunk
<1> QED BY <1>1, <1>2, <1>3, PTL DEF Spec

-----------------------------------------------------------------------------
(* The process watcher and the network watcher: what has been compared,    *)
(* what is over, and what was announced.                                   *)

Fixed(f, g) == \A k, m \in Keys : f[k] = g[m] /\ f[k] # 0 => k = m

\* What is there, and what the listing says of the moment it was taken.
Listed ==
    /\ watcher # "compare" => listing = Nowhere
    /\ \A k \in Keys : item[k] <= begun
    /\ Fixed(item, item) /\ Fixed(listing.items, item) /\ Fixed(listing.items, listing.items)
    /\ listing.at <= begun
    /\ \A k \in Keys : listing.items[k] <= listing.at
    /\ \A k \in Keys : item[k] # 0 /\ item[k] <= listing.at
                       => listing.items[k] = item[k] \/ item[k] \in listing.lost
    /\ listing.lost # {} => gaps > 0
    /\ Process => listing.items = Nothing \/ listing.lost = {}

\* The last comparison was with a full listing, and "live" is what it had.
Known == IF Process THEN live # Nothing ELSE gaps = 0 /\ ~first
\* All that began up to x has been compared.
Past(x) ==
    /\ x <= begun
    /\ watcher = "compare" => x <= listing.at
    /\ Known => \A k \in Keys :
         /\ item[k] # 0 /\ item[k] <= x => live[k] = item[k]
         /\ listing.items[k] # 0 /\ listing.items[k] <= x => live[k] = listing.items[k]
\* x is over, and no key will have it again.
Over(x) == x # 0 /\ x <= begun /\ \A k \in Keys : item[k] # x /\ live[k] # x /\ listing.items[k] # x

\* A row, and one with a later one of the same list.
RowFits(e) ==
    /\ IF Process THEN Past(e.item) ELSE e.gaps <= gaps
    /\ e.item # 0 /\ e.item <= begun
    /\ e.item > e.since \/ (~Process /\ e.gaps > 0)
RowsFit(e, f) == e.item = f.item => ~Process /\ f.gaps > 0 /\ e.gaps < f.gaps
CreatedFits(rows) ==
    /\ \A i \in DOMAIN rows : RowFits(rows[i])
    /\ \A i, j \in DOMAIN rows : i < j => RowsFit(rows[i], rows[j])
EndFits(e) == Process /\ (~e.lost => Over(e.item))
EndedFits(rows) ==
    /\ \A i \in DOMAIN rows : EndFits(rows[i])
    /\ \A i, j \in DOMAIN rows : i < j /\ rows[i].item = rows[j].item => rows[i].lost
\* A connection with an event since the last gap is not announced again.
Announced(x) ==
    /\ \A k \in Keys : item[k] = x => live[k] = x
    /\ \A k \in Keys : listing.items[k] = x => live[k] = x
    /\ watcher = "compare" => \A k \in Keys : item[k] = x => listing.items[k] = x
AllAnnounced == \A i \in DOMAIN created : created[i].gaps = gaps => Announced(created[i].item)

Watched ==
    /\ Past(since)
    /\ Process => /\ Fixed(live, live) /\ Fixed(live, item) /\ Fixed(live, listing.items)
                  /\ \A k \in Keys : Past(live[k])
    /\ ~Process => AllAnnounced
    /\ CreatedFits(created) /\ CreatedFits(exported.created)
    /\ EndedFits(terminated) /\ EndedFits(exported.terminated)

WatchersInv == WatchersTypeOK /\ Listed /\ Watched

LEMMA ItemsAreNumbers == Items \subseteq Nat /\ IsFiniteSet(Items)
<1>1. Items \subseteq Nat
  BY WatchersAssumption DEF Items
<1>2. IsFiniteSet(0 .. MaxItems)
  BY FS_Interval, WatchersAssumption
<1> QED BY <1>1, <1>2 DEF Items

\* t is what is kept of s with the members of R behind it, in some order.
Grown(t, s, R) ==
    /\ \A j \in DOMAIN t : (\E a \in DOMAIN s : t[j] = s[a]) \/ t[j] \in R
    /\ \A i, j \in DOMAIN t : i < j =>
         \/ \E a, c \in DOMAIN s : a < c /\ t[i] = s[a] /\ t[j] = s[c]
         \/ \E a \in DOMAIN s : t[i] = s[a] /\ t[j] \in R
         \/ t[i] \in R /\ t[j] \in R /\ t[i] # t[j]

\* Appending, before anything is trimmed.
LEMMA AppendedGrow ==
    ASSUME NEW S, NEW s \in Seq(S), NEW R \in SUBSET S, Cardinality(R) \in Nat, NEW r \in SetToSeqs(R)
    PROVE  s \o r \in Seq(S) /\ Grown(s \o r, s, R)
<1> DEFINE D == 1 .. Cardinality(R)
<1>1. r \in [D -> R] /\ \A i, j \in D : i # j => r[i] # r[j]
  BY DEF SetToSeqs
<1>2. r \in Seq(S) /\ Len(r) = Cardinality(R) /\ \A i \in 1 .. Len(r) : r[i] \in R
  BY <1>1
<1>3. /\ s \o r \in Seq(S) /\ Len(s \o r) = Len(s) + Len(r)
      /\ \A i \in 1 .. Len(s) + Len(r) : (s \o r)[i] = IF i <= Len(s) THEN s[i] ELSE r[i - Len(s)]
  BY <1>2, ConcatProperties
<1>4. PICK n \in Nat, m \in Nat : n = Len(s) /\ m = Len(r)
  BY <1>2
<1>5. PICK t : t = s \o r
  OBVIOUS
<1>6. /\ t \in Seq(S) /\ DOMAIN t = 1 .. n + m /\ DOMAIN s = 1 .. n
      /\ \A i \in 1 .. n + m : t[i] = IF i <= n THEN s[i] ELSE r[i - n]
      /\ \A i \in 1 .. m : r[i] \in R
      /\ \A i, j \in 1 .. m : i # j => r[i] # r[j]
  BY <1>1, <1>2, <1>3, <1>4, <1>5
<1>7. ASSUME NEW j \in DOMAIN t PROVE (\E a \in DOMAIN s : t[j] = s[a]) \/ t[j] \in R
  <2>1. CASE j <= n
    BY <1>6, <2>1
  <2>2. CASE ~(j <= n)
    <3>1. j - n \in 1 .. m /\ t[j] = r[j - n]
      BY <1>6, <2>2
    <3> QED BY <3>1, <1>6
  <2> QED BY <2>1, <2>2
<1>8. ASSUME NEW i \in DOMAIN t, NEW j \in DOMAIN t, i < j
      PROVE  \/ \E a, c \in DOMAIN s : a < c /\ t[i] = s[a] /\ t[j] = s[c]
             \/ \E a \in DOMAIN s : t[i] = s[a] /\ t[j] \in R
             \/ t[i] \in R /\ t[j] \in R /\ t[i] # t[j]
  <2>1. CASE j <= n
    <3>1. i \in DOMAIN s /\ j \in DOMAIN s /\ t[i] = s[i] /\ t[j] = s[j]
      BY <1>6, <1>8, <2>1
    <3> QED BY <3>1, <1>8
  <2>2. CASE i <= n /\ ~(j <= n)
    <3>1. j - n \in 1 .. m /\ t[j] = r[j - n] /\ i \in DOMAIN s /\ t[i] = s[i]
      BY <1>6, <1>8, <2>2
    <3> QED BY <3>1, <1>6
  <2>3. CASE ~(i <= n)
    <3>1. /\ i - n \in 1 .. m /\ j - n \in 1 .. m /\ i - n # j - n
          /\ t[i] = r[i - n] /\ t[j] = r[j - n]
      BY <1>6, <1>8, <2>3
    <3>2. r[i - n] \in R /\ r[j - n] \in R /\ r[i - n] # r[j - n]
      BY <3>1, <1>6
    <3> QED BY <3>1, <3>2
  <2>4. n \in Nat /\ i \in Nat /\ j \in Nat
    BY <1>6
  <2> QED BY <2>1, <2>2, <2>3, <2>4
<1>9. Grown(t, s, R)
  BY <1>7, <1>8 DEF Grown
<1> QED BY <1>3, <1>5, <1>9

LEMMA TrimmedGrow ==
    ASSUME NEW S, NEW s \in Seq(S), NEW R \in SUBSET S, NEW u \in Seq(S), Grown(u, s, R)
    PROVE  Trimmed(u) \in Seq(S) /\ Grown(Trimmed(u), s, R)
<1>1. CASE Len(u) <= KeepRows
  BY <1>1, WatchersAssumption DEF Trimmed
<1>2. CASE ~(Len(u) <= KeepRows)
  <2>1. PICK n \in Nat, d \in Nat : n = Len(u) /\ d = n - KeepRows /\ n > KeepRows
    BY <1>2, WatchersAssumption
  <2>2. PICK t : t = SubSeq(u, d + 1, n)
    OBVIOUS
  <2>3. \A i \in d + 1 .. n : u[i] \in S
    BY <2>1
  <2>4. /\ SubSeq(u, d + 1, n) \in Seq(S)
        /\ Len(SubSeq(u, d + 1, n)) = IF d + 1 <= n THEN n - (d + 1) + 1 ELSE 0
        /\ \A i \in 1 .. n - (d + 1) + 1 : SubSeq(u, d + 1, n)[i] = u[(d + 1) + i - 1]
    BY <2>1, <2>3, SubSeqProperties
  <2>5. t \in Seq(S) /\ Len(t) = n - d /\ \A i \in 1 .. n - d : t[i] = u[i + d]
    <3>1. d + 1 <= n \/ n - d = 0
      BY <2>1, WatchersAssumption
    <3>2. \A i \in 1 .. n - d : (d + 1) + i - 1 = i + d /\ n - d = n - (d + 1) + 1
      BY <2>1
    <3>3. t \in Seq(S)
      BY <2>2, <2>4
    <3>4. Len(t) = n - d
      BY <2>1, <2>2, <2>4, <3>1
    <3>5. ASSUME NEW i \in 1 .. n - d PROVE t[i] = u[i + d]
      BY <2>2, <2>4, <3>2, <3>5
    <3> QED BY <3>3, <3>4, <3>5
  <2>6. /\ DOMAIN t = 1 .. n - d
        /\ \A i \in DOMAIN t : i + d \in DOMAIN u /\ t[i] = u[i + d]
    BY <2>1, <2>5
  <2>7. \A i, j \in DOMAIN t : i < j => i + d < j + d
    BY <2>1, <2>6
  <2>8. ASSUME NEW j \in DOMAIN t PROVE (\E a \in DOMAIN s : t[j] = s[a]) \/ t[j] \in R
    BY <2>6 DEF Grown
  <2>9. ASSUME NEW i \in DOMAIN t, NEW j \in DOMAIN t, i < j
        PROVE  \/ \E a, c \in DOMAIN s : a < c /\ t[i] = s[a] /\ t[j] = s[c]
               \/ \E a \in DOMAIN s : t[i] = s[a] /\ t[j] \in R
               \/ t[i] \in R /\ t[j] \in R /\ t[i] # t[j]
    BY <2>6, <2>7, <2>9 DEF Grown
  <2>10. Grown(t, s, R)
    BY <2>8, <2>9 DEF Grown
  <2>11. Trimmed(u) = t
    BY <2>1, <2>2, WatchersAssumption DEF Trimmed
  <2> QED BY <2>5, <2>10, <2>11
<1> QED BY <1>1, <1>2

LEMMA CreatedGrow ==
    ASSUME WatchersTypeOK, NEW new \in SetToSeqs(NewRows)
    PROVE  NewRows \subseteq Row /\ Trimmed(created \o new) \in Seq(Row) /\ Grown(Trimmed(created \o new), created, NewRows)
<1>1. NewRows \subseteq Row
  BY DEF NewRows, Row, WatchersTypeOK
<1> DEFINE f == [n \in Items |-> [item |-> n, gaps |-> gaps, since |-> since]]
           T == {f[n] : n \in Items}
<1>2. Cardinality(T) \in Nat /\ IsFiniteSet(T)
  <2>1. f \in Surjection(Items, T)
    BY DEF Surjection
  <2>2. IsFiniteSet(T)
    BY <2>1, ItemsAreNumbers, FS_Surjection
  <2> QED BY <2>2, FS_CardinalityType
<1>3. NewRows \in SUBSET T
  BY DEF NewRows, WatchersTypeOK
<1>4. Cardinality(NewRows) \in Nat
  BY <1>2, <1>3, FS_Subset, FS_CardinalityType
<1>5. created \in Seq(Row)
  BY DEF WatchersTypeOK
<1>6. created \o new \in Seq(Row) /\ Grown(created \o new, created, NewRows)
  BY <1>1, <1>4, <1>5, AppendedGrow
<1>7. Trimmed(created \o new) \in Seq(Row) /\ Grown(Trimmed(created \o new), created, NewRows)
  BY <1>1, <1>5, <1>6, TrimmedGrow
<1> QED BY <1>1, <1>7

LEMMA TerminatedGrow ==
    ASSUME WatchersTypeOK, NEW ended \in SetToSeqs(EndedRows)
    PROVE  EndedRows \subseteq EndRow /\ Trimmed(terminated \o ended) \in Seq(EndRow) /\ Grown(Trimmed(terminated \o ended), terminated, EndedRows)
<1>1. ASSUME NEW e \in EndedRows PROVE e \in EndRow
  <2>1. PICK k \in Keys : e = [item |-> live[k], lost |-> live[k] \in listing.lost]
    BY DEF EndedRows
  <2>2. PICK b \in BOOLEAN : b <=> live[k] \in listing.lost
    BY Zenon
  <2>3. e = [item |-> live[k], lost |-> b]
    BY <2>1, <2>2, Zenon
  <2>4. live[k] \in Items
    BY DEF WatchersTypeOK
  <2> QED BY <2>3, <2>4 DEF EndRow
<1> DEFINE f == [n \in Items |-> [item |-> n, lost |-> n \in listing.lost]]
           T == {f[n] : n \in Items}
<1>2. Cardinality(T) \in Nat /\ IsFiniteSet(T)
  <2>1. f \in Surjection(Items, T)
    BY DEF Surjection
  <2>2. IsFiniteSet(T)
    BY <2>1, ItemsAreNumbers, FS_Surjection
  <2> QED BY <2>2, FS_CardinalityType
<1>3. EndedRows \in SUBSET T
  BY DEF EndedRows, WatchersTypeOK
<1>4. Cardinality(EndedRows) \in Nat
  BY <1>2, <1>3, FS_Subset, FS_CardinalityType
<1>5. terminated \in Seq(EndRow)
  BY DEF WatchersTypeOK
<1>6. terminated \o ended \in Seq(EndRow) /\ Grown(terminated \o ended, terminated, EndedRows)
  BY <1>1, <1>4, <1>5, AppendedGrow
<1>7. Trimmed(terminated \o ended) \in Seq(EndRow) /\ Grown(Trimmed(terminated \o ended), terminated, EndedRows)
  BY <1>1, <1>5, <1>6, TrimmedGrow
<1> QED BY <1>1, <1>7

LEMMA ValuesAre ==
    ASSUME WatchersTypeOK
    PROVE  /\ begun \in Nat /\ since \in Nat /\ gaps \in Nat /\ listing.at \in Nat
           /\ \A k \in Keys : item[k] \in Nat /\ live[k] \in Nat /\ listing.items[k] \in Nat
           /\ \A i \in DOMAIN created : created[i] \in Row
           /\ \A i \in DOMAIN exported.created : exported.created[i] \in Row
           /\ \A i \in DOMAIN terminated : terminated[i] \in EndRow
           /\ \A i \in DOMAIN exported.terminated : exported.terminated[i] \in EndRow
<1>1. listing.at \in Items /\ begun \in Items /\ since \in Items /\ gaps \in 0 .. MaxGaps
  BY DEF WatchersTypeOK
<1>2. \A k \in Keys : item[k] \in Items /\ live[k] \in Items /\ listing.items[k] \in Items
  BY DEF WatchersTypeOK
<1>3. /\ created \in Seq(Row) /\ exported.created \in Seq(Row)
      /\ terminated \in Seq(EndRow) /\ exported.terminated \in Seq(EndRow)
  BY DEF WatchersTypeOK
<1>4. gaps \in Nat
  BY <1>1, WatchersAssumption
<1>5. ASSUME NEW S, NEW s \in Seq(S) PROVE \A i \in DOMAIN s : s[i] \in S
  OBVIOUS
<1>6. begun \in Nat /\ since \in Nat /\ gaps \in Nat /\ listing.at \in Nat
  BY <1>1, <1>4, ItemsAreNumbers
<1>7. \A k \in Keys : item[k] \in Nat /\ live[k] \in Nat /\ listing.items[k] \in Nat
  BY <1>2, ItemsAreNumbers
<1> QED BY <1>3, <1>5, <1>6, <1>7

LEMMA WatchersTypes == ASSUME WatchersTypeOK, [WatchersNext]_watcherVars PROVE WatchersTypeOK'
<1> USE DEF world, tables
<1>1. ASSUME NEW k \in Keys, Begins(k) PROVE WatchersTypeOK'
  <2>1. begun + 1 \in Items
    BY <1>1, WatchersAssumption DEF Begins, WatchersTypeOK, Items
  <2>2. begun' \in Items /\ item' \in [Keys -> Items]
    BY <1>1, <2>1 DEF Begins, WatchersTypeOK
  <2> QED BY <1>1, <2>2 DEF Begins, WatchersTypeOK
<1>2. ASSUME NEW k \in Keys, Ends(k) PROVE WatchersTypeOK'
  <2>1. 0 \in Items
    BY WatchersAssumption DEF Items
  <2> QED BY <1>2, <2>1 DEF Ends, WatchersTypeOK
<1>3. CASE StartWatcher \/ SnapshotFails \/ LookAtHalt \/ StopWatcher
  BY <1>3 DEF StartWatcher, SnapshotFails, LookAtHalt, StopWatcher, WatchersTypeOK
<1>4. CASE TakeListing
  <2>1. PICK lacking \in MayLack :
          LET lost == {k \in lacking : item[k] # 0} IN
          /\ lost = {} \/ gaps < MaxGaps
          /\ listing' = [items |-> [k \in Keys |-> IF k \in lost THEN 0 ELSE item[k]],
                         lost |-> {item[k] : k \in lost}, at |-> begun]
          /\ gaps' = IF lost = {} THEN gaps ELSE gaps + 1
    BY <1>4 DEF TakeListing
  <2>2. PICK lost : lost = {k \in lacking : item[k] # 0}
    OBVIOUS
  <2>3. lost \subseteq Keys
    BY <2>2 DEF MayLack
  <2>4. 0 \in Items
    BY WatchersAssumption DEF Items
  <2>5. [k \in Keys |-> IF k \in lost THEN 0 ELSE item[k]] \in [Keys -> Items]
    BY <2>4 DEF WatchersTypeOK
  <2>6. {item[k] : k \in lost} \subseteq Items
    BY <2>3 DEF WatchersTypeOK
  <2>7. listing' \in [items : [Keys -> Items], lost : SUBSET Items, at : Items]
    BY <2>1, <2>2, <2>5, <2>6 DEF WatchersTypeOK
  <2>8. gaps' \in 0 .. MaxGaps
    BY <2>1, <2>2, WatchersAssumption DEF WatchersTypeOK
  <2> QED BY <1>4, <2>7, <2>8 DEF TakeListing, WatchersTypeOK
<1>5. CASE Compare
  <2>1. Nowhere \in [items : [Keys -> Items], lost : SUBSET Items, at : Items]
    BY WatchersAssumption DEF Nowhere, Nothing, Items
  <2>2. listing.items \in [Keys -> Items] /\ listing.at \in Items
    BY DEF WatchersTypeOK
  <2>3. created' \in Seq(Row) /\ terminated' \in Seq(EndRow) /\ since' \in Items
    <3>1. CASE UNCHANGED <<created, terminated>> /\ since' = listing.at
      BY <2>2, <3>1 DEF WatchersTypeOK
    <3>2. CASE /\ \E new \in SetToSeqs(NewRows) : created' = Trimmed(created \o new)
               /\ \E ended \in SetToSeqs(EndedRows) : terminated' = Trimmed(terminated \o ended)
               /\ UNCHANGED since
      BY <3>2, CreatedGrow, TerminatedGrow DEF WatchersTypeOK
    <3> QED BY <1>5, <3>1, <3>2 DEF Compare
  <2> QED BY <1>5, <2>1, <2>2, <2>3 DEF Compare, WatchersTypeOK
<1>6. CASE ClearRows
  <2>1. Nothing \in [Keys -> Items] /\ <<>> \in Seq(Row) /\ <<>> \in Seq(EndRow)
    BY WatchersAssumption DEF Nothing, Items
  <2>2. live' \in [Keys -> Items] /\ gaps' \in 0 .. MaxGaps
    BY <1>6, <2>1, WatchersAssumption DEF ClearRows, WatchersTypeOK
  <2> QED BY <1>6, <2>1, <2>2 DEF ClearRows, WatchersTypeOK
<1>7. CASE ExportRows
  <2>1. exported' \in [live : [Keys -> Items], created : Seq(Row), terminated : Seq(EndRow)]
    BY <1>7 DEF ExportRows, WatchersTypeOK
  <2> QED BY <1>7, <2>1 DEF ExportRows, WatchersTypeOK
<1>8. CASE ImportRows
  <2>1. exported.live \in [Keys -> Items] /\ exported.created \in Seq(Row) /\ exported.terminated \in Seq(EndRow)
    BY DEF WatchersTypeOK
  <2>2. live' \in [Keys -> Items] /\ gaps' \in 0 .. MaxGaps
    BY <1>8, <2>1, WatchersAssumption DEF ImportRows, WatchersTypeOK
  <2> QED BY <1>8, <2>1, <2>2 DEF ImportRows, WatchersTypeOK
<1>9. CASE UNCHANGED watcherVars
  BY <1>9 DEF watcherVars, WatchersTypeOK
<1> QED BY <1>1, <1>2, <1>3, <1>4, <1>5, <1>6, <1>7, <1>8, <1>9 DEF WatchersNext, WatcherThread

\* Taking a listing, element by element.
LEMMA TakenListing ==
    ASSUME WatchersTypeOK, TakeListing
    PROVE  /\ listing'.at = begun
           /\ \A k \in Keys : listing'.items[k] \in {0, item[k]}
           /\ \A k \in Keys : item[k] # 0 => listing'.items[k] = item[k] \/ item[k] \in listing'.lost
           /\ \/ gaps' = gaps /\ listing'.lost = {} /\ \A k \in Keys : listing'.items[k] = item[k]
              \/ gaps' = gaps + 1
           /\ Process => listing'.items = Nothing \/ listing'.lost = {}
<1>1. PICK lacking \in MayLack :
        LET lost == {k \in lacking : item[k] # 0} IN
        /\ lost = {} \/ gaps < MaxGaps
        /\ listing' = [items |-> [k \in Keys |-> IF k \in lost THEN 0 ELSE item[k]],
                       lost |-> {item[k] : k \in lost}, at |-> begun]
        /\ gaps' = IF lost = {} THEN gaps ELSE gaps + 1
  BY DEF TakeListing
<1>2. PICK lost : lost = {k \in lacking : item[k] # 0}
  OBVIOUS
<1>3. /\ listing'.items = [k \in Keys |-> IF k \in lost THEN 0 ELSE item[k]]
      /\ listing'.lost = {item[k] : k \in lost} /\ listing'.at = begun
      /\ gaps' = IF lost = {} THEN gaps ELSE gaps + 1
  BY <1>1, <1>2
<1>4. Process => listing'.items = Nothing \/ listing'.lost = {}
  <2>1. CASE lacking = {}
    <3>1. lost = {}
      BY <1>2, <2>1
    <3> QED BY <1>3, <3>1
  <2>2. CASE Process /\ lacking = Keys
    <3>1. \A k \in Keys : (IF k \in lost THEN 0 ELSE item[k]) = 0
      BY <1>2, <2>2
    <3> QED BY <1>3, <3>1 DEF Nothing
  <2> QED BY <1>1, <2>1, <2>2 DEF MayLack
<1>5. \A k \in Keys : listing'.items[k] = IF k \in lost THEN 0 ELSE item[k]
  BY <1>3
<1>6. lost = {} => listing'.lost = {} /\ \A k \in Keys : listing'.items[k] = item[k]
  BY <1>3, <1>5
<1>7. \A k \in Keys : k \in lost => item[k] \in listing'.lost
  BY <1>3
<1> QED BY <1>3, <1>4, <1>5, <1>6, <1>7

\* Nothing else touches what is there, nor a listing.
Still == UNCHANGED <<kind, item, begun, listing>> /\ (watcher' = "compare" <=> watcher = "compare")

LEMMA OtherSteps ==
    ASSUME WatchersTypeOK, [WatchersNext]_watcherVars
    PROVE  \/ \E k \in Keys : Begins(k) \/ Ends(k)
           \/ TakeListing \/ Compare
           \/ Still /\ UNCHANGED <<live, created, terminated, exported, gaps, since>>
                    /\ (first' = first \/ Process)
           \/ (ClearRows \/ ImportRows) /\ Still
           \/ ExportRows /\ Still
<1> USE DEF world, tables
<1>1. CASE StartWatcher \/ SnapshotFails \/ LookAtHalt \/ StopWatcher
  BY <1>1 DEF StartWatcher, SnapshotFails, LookAtHalt, StopWatcher, Still
<1>2. CASE ClearRows
  BY <1>2 DEF ClearRows, Still
<1>3. CASE ImportRows
  BY <1>3 DEF ImportRows, Still
<1>4. CASE ExportRows
  BY <1>4 DEF ExportRows, Still
<1>5. CASE UNCHANGED watcherVars
  BY <1>5 DEF watcherVars, Still
<1> QED BY <1>1, <1>2, <1>3, <1>4, <1>5 DEF WatchersNext, WatcherThread

LEMMA ListedKeeps == ASSUME WatchersTypeOK, Listed, [WatchersNext]_watcherVars PROVE Listed'
<1> USE ValuesAre DEF Listed, Fixed, world, tables
<1>1. ASSUME NEW k \in Keys, Begins(k) PROVE Listed'
  <2>1. /\ item'[k] = begun + 1 /\ begun' = begun + 1
        /\ \A m \in Keys : m # k => item'[m] = item[m]
        /\ UNCHANGED <<kind, watcher, listing, gaps>>
    BY <1>1 DEF Begins, WatchersTypeOK
  <2>2. \A m \in Keys : listing.items[m] # begun + 1 /\ item[m] # begun + 1
    OBVIOUS
  <2>3. \A m \in Keys : item'[m] # 0 /\ item'[m] <= listing.at => item'[m] = item[m]
    BY <2>1
  <2>4. \A m \in Keys : item'[m] <= begun'
    BY <2>1
  <2>5. Fixed(item, item)' /\ Fixed(listing.items, item)' /\ Fixed(listing.items, listing.items)'
    BY <2>1, <2>2
  <2> QED BY <2>1, <2>3, <2>4, <2>5 DEF Process
<1>2. ASSUME NEW k \in Keys, Ends(k) PROVE Listed'
  <2>1. /\ item'[k] = 0
        /\ \A m \in Keys : m # k => item'[m] = item[m]
        /\ UNCHANGED <<kind, begun, watcher, listing, gaps>>
    BY <1>2 DEF Ends, WatchersTypeOK
  <2> QED BY <2>1 DEF Process
<1>3. CASE TakeListing
  <2>1. UNCHANGED <<kind, item, begun>> /\ watcher' = "compare"
    BY <1>3 DEF TakeListing
  <2>2. \A k \in Keys : listing'.items[k] \in {0, item[k]}
    BY <1>3, TakenListing
  <2>3. Fixed(item, item)' /\ Fixed(listing.items, item)' /\ Fixed(listing.items, listing.items)'
    BY <2>1, <2>2
  <2>4. \A k \in Keys : listing'.items[k] <= listing'.at
    BY <1>3, <2>2, TakenListing
  <2>5. listing'.lost # {} => gaps' > 0
    BY <1>3, TakenListing
  <2>6. /\ listing'.at = begun
        /\ \A k \in Keys : item[k] # 0 => listing'.items[k] = item[k] \/ item[k] \in listing'.lost
        /\ Process => listing'.items = Nothing \/ listing'.lost = {}
    BY <1>3, TakenListing
  <2> QED BY <2>1, <2>3, <2>4, <2>5, <2>6 DEF Process
<1>4. CASE Compare
  <2>1. UNCHANGED <<kind, item, begun, gaps>> /\ watcher' = "look" /\ listing' = Nowhere
    BY <1>4 DEF Compare
  <2>2. /\ listing'.at = 0 /\ listing'.lost = {} /\ \A k \in Keys : listing'.items[k] = 0
        /\ listing'.items = Nothing
    BY <2>1 DEF Nowhere, Nothing
  <2> QED BY <2>1, <2>2 DEF Process
<1>5. CASE Still /\ gaps' >= gaps
  <2>1. gaps' \in Nat
    BY ValuesAre, WatchersTypes, WatchersAssumption DEF WatchersTypeOK
  <2> QED BY <1>5, <2>1 DEF Still, Process
<1>6. (ClearRows \/ ImportRows \/ ExportRows) => gaps' >= gaps
  BY DEF ClearRows, ImportRows, ExportRows
<1> QED BY <1>1, <1>2, <1>3, <1>4, <1>5, <1>6, OtherSteps

\* Numbers only grow, and a watcher stays of its kind.
LEMMA Onwards ==
    ASSUME WatchersTypeOK, [WatchersNext]_watcherVars
    PROVE  kind' = kind /\ begun' >= begun /\ gaps' >= gaps /\ begun' \in Nat /\ gaps' \in Nat
<1>1. begun \in Nat /\ gaps \in Nat
  BY ValuesAre
<1>2. begun' \in Nat /\ gaps' \in Nat
  BY WatchersTypes, WatchersAssumption DEF WatchersTypeOK, Items
<1>3. ASSUME NEW k \in Keys, Begins(k) \/ Ends(k) PROVE kind' = kind /\ begun' >= begun /\ gaps' >= gaps
  BY <1>1, <1>3 DEF Begins, Ends
<1>4. TakeListing => kind' = kind /\ begun' >= begun /\ gaps' >= gaps
  BY <1>1, TakenListing DEF TakeListing, world
<1>5. Compare => kind' = kind /\ begun' >= begun /\ gaps' >= gaps
  BY <1>1 DEF Compare, world
<1>6. Still => kind' = kind /\ begun' >= begun
  BY <1>1 DEF Still
<1>7. ClearRows \/ ImportRows \/ ExportRows => gaps' >= gaps
  BY <1>1 DEF ClearRows, ImportRows, ExportRows
<1> QED BY <1>1, <1>2, <1>3, <1>4, <1>5, <1>6, <1>7, OtherSteps

\* The GUI thread and the tables: what a watcher needs to know of them.
LEMMA TablesReplaced ==
    ASSUME WatchersTypeOK, ClearRows \/ ImportRows
    PROVE  /\ Process => UNCHANGED <<live, gaps>>
           /\ ~Process => gaps' = gaps + 1
           /\ UNCHANGED <<first, since, exported>>
BY DEF ClearRows, ImportRows, world

\* All that the listing knew of has been compared.
LEMMA Compared ==
    ASSUME WatchersTypeOK, Listed, Compare, NEW x \in Nat, x <= listing.at
    PROVE  Past(x)'
<1>1. UNCHANGED <<kind, item, begun, gaps>> /\ watcher' = "look" /\ first' = FALSE /\ listing' = Nowhere
      /\ live' = listing.items /\ watcher = "compare"
  BY DEF Compare, world
<1>2. \A k \in Keys : listing'.items[k] = 0
  BY <1>1 DEF Nowhere, Nothing
<1>3. Known' => listing.lost = {}
  BY <1>1, ValuesAre DEF Known, Process, Listed
<1>4. x <= begun'
  BY <1>1, ValuesAre DEF Listed
<1>5. ASSUME Known', NEW k \in Keys, item[k] # 0, item[k] <= x PROVE live'[k] = item[k]
  BY <1>1, <1>3, <1>5, ValuesAre DEF Listed
<1> QED BY <1>1, <1>2, <1>4, <1>5 DEF Past

LEMMA PastKeeps ==
    ASSUME WatchersTypeOK, Listed, [WatchersNext]_watcherVars, NEW x \in Nat, Past(x)
    PROVE  Past(x)'
<1> USE ValuesAre
<1>1. ASSUME NEW k \in Keys, Begins(k) \/ Ends(k) PROVE Past(x)'
  <2>1. /\ UNCHANGED <<kind, watcher, first, listing, live, gaps>>
        /\ begun' \in Nat /\ begun' >= begun
        /\ \A m \in Keys : item'[m] \in {item[m], 0, begun + 1}
    <3>1. CASE Begins(k)
      BY <1>1, <3>1, Onwards DEF Begins, WatchersTypeOK, tables
    <3>2. CASE Ends(k)
      BY <1>1, <3>2, Onwards DEF Ends, WatchersTypeOK, tables
    <3> QED BY <1>1, <3>1, <3>2
  <2>2. Known' => Known
    BY <2>1 DEF Known, Process
  <2>3. x <= begun /\ x <= begun' /\ (watcher' = "compare" => x <= listing'.at)
    BY <2>1 DEF Past
  <2>4. ASSUME Known', NEW m \in Keys, item'[m] # 0, item'[m] <= x PROVE live'[m] = item'[m]
    <3>1. item'[m] = item[m]
      BY <2>1, <2>3, <2>4
    <3> QED BY <2>1, <2>2, <2>4, <3>1 DEF Past
  <2>5. ASSUME Known', NEW m \in Keys, listing'.items[m] # 0, listing'.items[m] <= x
        PROVE  live'[m] = listing'.items[m]
    BY <2>1, <2>2, <2>5 DEF Past
  <2> QED BY <2>3, <2>4, <2>5 DEF Past
<1>2. CASE TakeListing
  <2>1. /\ UNCHANGED <<kind, item, begun, first, live>> /\ watcher' = "compare"
        /\ listing'.at = begun /\ \A k \in Keys : listing'.items[k] \in {0, item[k]}
        /\ gaps' \in {gaps, gaps + 1}
    BY <1>2, TakenListing DEF TakeListing, world, tables
  <2>2. Known' => Known
    BY <2>1 DEF Known, Process
  <2> QED BY <2>1, <2>2 DEF Past
<1>3. CASE Compare
  BY <1>3, Compared DEF Past, Compare
<1>4. CASE Still /\ UNCHANGED <<live, gaps>> /\ (first' = first \/ Process)
  <2>1. Known' => Known
    BY <1>4 DEF Known, Process, Still
  <2> QED BY <1>4, <2>1 DEF Past, Still
<1>5. CASE (ClearRows \/ ImportRows) /\ Still
  <2>1. Known' => Known /\ UNCHANGED live
    BY <1>5, TablesReplaced DEF Known, Process, Still
  <2> QED BY <1>5, <2>1 DEF Past, Still
<1>6. ExportRows => UNCHANGED <<live, gaps, first>>
  BY DEF ExportRows, tables
<1> QED BY <1>1, <1>2, <1>3, <1>4, <1>5, <1>6, OtherSteps

\* A process that is over stays so.
LEMMA OverKeeps ==
    ASSUME WatchersTypeOK, Listed, [WatchersNext]_watcherVars, Process, NEW x \in Nat, Over(x)
    PROVE  Over(x)'
<1> USE ValuesAre DEF Over
<1>1. ASSUME NEW k \in Keys, Begins(k) \/ Ends(k) PROVE Over(x)'
  <2>1. /\ UNCHANGED <<listing, live>>
        /\ begun' \in Nat /\ begun' >= begun
        /\ \A m \in Keys : item'[m] \in {item[m], 0, begun + 1}
    <3>1. CASE Begins(k)
      BY <1>1, <3>1, Onwards DEF Begins, WatchersTypeOK, tables
    <3>2. CASE Ends(k)
      BY <1>1, <3>2, Onwards DEF Ends, WatchersTypeOK, tables
    <3> QED BY <1>1, <3>1, <3>2
  <2> QED BY <2>1
<1>2. CASE TakeListing
  <2>1. /\ UNCHANGED <<item, begun, live>> /\ \A k \in Keys : listing'.items[k] \in {0, item[k]}
    BY <1>2, TakenListing DEF TakeListing, world, tables
  <2> QED BY <2>1
<1>3. CASE Compare
  <2>1. UNCHANGED <<item, begun>> /\ live' = listing.items /\ \A k \in Keys : listing'.items[k] = 0
    BY <1>3 DEF Compare, world, Nowhere, Nothing
  <2> QED BY <2>1
<1>4. CASE Still /\ UNCHANGED live
  BY <1>4 DEF Still
<1>5. CASE (ClearRows \/ ImportRows) /\ Still
  BY <1>5, TablesReplaced DEF Still
<1>6. ExportRows => UNCHANGED live
  BY DEF ExportRows, tables
<1> QED BY <1>1, <1>2, <1>3, <1>4, <1>5, <1>6, OtherSteps

\* The pids of what is live.
LEMMA LiveKeeps ==
    ASSUME WatchersTypeOK, Listed, [WatchersNext]_watcherVars, Process, \A k \in Keys : Past(live[k]),
           Fixed(live, live), Fixed(live, item), Fixed(live, listing.items)
    PROVE  Fixed(live, live)' /\ Fixed(live, item)' /\ Fixed(live, listing.items)'
<1> USE ValuesAre DEF Fixed
<1>1. ASSUME NEW k \in Keys, Begins(k) \/ Ends(k)
      PROVE  Fixed(live, live)' /\ Fixed(live, item)' /\ Fixed(live, listing.items)'
  <2>1. /\ UNCHANGED <<listing, live>>
        /\ \A m \in Keys : item'[m] \in {item[m], 0, begun + 1}
    BY <1>1 DEF Begins, Ends, WatchersTypeOK, tables
  <2>2. \A m \in Keys : live[m] <= begun
    BY DEF Past
  <2> QED BY <2>1, <2>2
<1>2. CASE TakeListing
  <2>1. UNCHANGED <<item, live>> /\ \A k \in Keys : listing'.items[k] \in {0, item[k]}
    BY <1>2, TakenListing DEF TakeListing, world, tables
  <2> QED BY <2>1
<1>3. CASE Compare
  <2>1. UNCHANGED item /\ live' = listing.items /\ \A k \in Keys : listing'.items[k] = 0
    BY <1>3 DEF Compare, world, Nowhere, Nothing
  <2> QED BY <2>1 DEF Listed
<1>4. CASE Still /\ UNCHANGED live
  BY <1>4 DEF Still
<1>5. CASE (ClearRows \/ ImportRows) /\ Still
  BY <1>5, TablesReplaced DEF Still
<1>6. ExportRows => UNCHANGED live
  BY DEF ExportRows, tables
<1> QED BY <1>1, <1>2, <1>3, <1>4, <1>5, <1>6, OtherSteps

\* While nothing is missing, a connection is announced once.
LEMMA AnnouncedKeeps ==
    ASSUME WatchersTypeOK, Listed, [WatchersNext]_watcherVars, ~Process, gaps' = gaps,
           NEW x \in Nat, x # 0, x <= begun, Announced(x)
    PROVE  Announced(x)'
<1> USE ValuesAre DEF Announced
<1>1. ASSUME NEW k \in Keys, Begins(k) \/ Ends(k) PROVE Announced(x)'
  <2>1. /\ UNCHANGED <<listing, live, watcher>>
        /\ \A m \in Keys : item'[m] \in {item[m], 0, begun + 1}
    BY <1>1 DEF Begins, Ends, WatchersTypeOK, tables
  <2> QED BY <2>1
<1>2. CASE TakeListing
  <2>1. UNCHANGED <<item, live>> /\ \A k \in Keys : listing'.items[k] = item[k]
    BY <1>2, TakenListing DEF TakeListing, world, tables
  <2> QED BY <2>1
<1>3. CASE Compare
  <2>1. /\ UNCHANGED item /\ live' = listing.items /\ \A k \in Keys : listing'.items[k] = 0
        /\ watcher = "compare" /\ watcher' = "look"
    BY <1>3 DEF Compare, world, Nowhere, Nothing
  <2> QED BY <2>1
<1>4. CASE Still /\ UNCHANGED live
  BY <1>4 DEF Still
<1>5. CASE (ClearRows \/ ImportRows) /\ Still
  BY <1>5, TablesReplaced DEF Still
<1>6. ExportRows => UNCHANGED live
  BY DEF ExportRows, tables
<1> QED BY <1>1, <1>2, <1>3, <1>4, <1>5, <1>6, OtherSteps

\* Rows that stay as they are.
LEMMA CreatedKeeps ==
    ASSUME WatchersTypeOK, Listed, [WatchersNext]_watcherVars, NEW rows \in Seq(Row), CreatedFits(rows)
    PROVE  CreatedFits(rows)'
<1>1. \A i \in DOMAIN rows : rows[i].item \in Nat /\ rows[i].gaps \in Nat
  <2>1. \A i \in DOMAIN rows : rows[i] \in Row
    OBVIOUS
  <2>2. \A e \in Row : e.item \in Items /\ e.gaps \in 0 .. MaxGaps
    BY DEF Row
  <2>3. 0 .. MaxGaps \subseteq Nat
    BY WatchersAssumption
  <2> QED BY <2>1, <2>2, <2>3, ItemsAreNumbers
<1>2. \A j \in DOMAIN rows : Process => Past(rows[j].item)
  BY DEF CreatedFits, RowFits
<1>3. \A j \in DOMAIN rows : Process => Past(rows[j].item)'
  <2> SUFFICES ASSUME NEW j \in DOMAIN rows, Process PROVE Past(rows[j].item)'
    OBVIOUS
  <2>1. PICK x \in Nat : x = rows[j].item
    BY <1>1
  <2>2. Past(x)'
    BY <1>2, <2>1, PastKeeps
  <2> QED BY <2>1, <2>2
<1>4. /\ kind' = kind /\ begun' >= begun /\ gaps' >= gaps
      /\ begun' \in Nat /\ gaps' \in Nat /\ begun \in Nat /\ gaps \in Nat
  BY Onwards, ValuesAre
<1>5. Process' = Process
  BY <1>4 DEF Process
<1>6. ASSUME NEW j \in DOMAIN rows
      PROVE  RowFits(rows[j])'
  <2>1. /\ rows[j].item # 0 /\ rows[j].item <= begun'
        /\ ~Process => rows[j].gaps <= gaps'
    BY <1>1, <1>4 DEF CreatedFits, RowFits
  <2>2. rows[j].item > rows[j].since \/ (~Process /\ rows[j].gaps > 0)
    BY DEF CreatedFits, RowFits
  <2> QED BY <1>3, <1>5, <2>1, <2>2, Zenon DEF RowFits
<1>7. \A i, j \in DOMAIN rows : i < j => RowsFit(rows[i], rows[j])'
  BY <1>5, Zenon DEF CreatedFits, RowsFit
<1> QED BY <1>6, <1>7, Zenon DEF CreatedFits

LEMMA EndedKeeps ==
    ASSUME WatchersTypeOK, Listed, [WatchersNext]_watcherVars, NEW rows \in Seq(EndRow), EndedFits(rows)
    PROVE  EndedFits(rows)'
<1>1. kind' = kind
  BY Onwards
<1>2. \A j \in DOMAIN rows : rows[j].item \in Nat
  <2>1. \A i \in DOMAIN rows : rows[i] \in EndRow
    OBVIOUS
  <2>2. \A e \in EndRow : e.item \in Items
    BY DEF EndRow
  <2> QED BY <2>1, <2>2, ItemsAreNumbers
<1>3. ASSUME NEW j \in DOMAIN rows, ~rows[j].lost PROVE Over(rows[j].item)'
  <2>1. PICK x \in Nat : x = rows[j].item
    BY <1>2
  <2>2. Over(x) /\ Process
    BY <1>3, <2>1 DEF EndedFits, EndFits
  <2>3. Over(x)'
    BY <2>2, OverKeeps
  <2> QED BY <2>1, <2>3
<1>4. \A j \in DOMAIN rows : Process'
  BY <1>1 DEF EndedFits, EndFits, Process
<1>5. \A j \in DOMAIN rows : EndFits(rows[j])'
  BY <1>3, <1>4, Zenon DEF EndFits
<1> QED BY <1>5, Zenon DEF EndedFits

LEMMA ElementsAre ==
    ASSUME NEW rows \in Seq(Row)
    PROVE  \A i \in DOMAIN rows : rows[i].item \in Nat /\ rows[i].gaps \in Nat /\ rows[i].since \in Nat
<1>1. \A i \in DOMAIN rows : rows[i] \in Row
  OBVIOUS
<1>2. \A e \in Row : e.item \in Items /\ e.gaps \in 0 .. MaxGaps /\ e.since \in Items
  BY DEF Row
<1>3. 0 .. MaxGaps \subseteq Nat
  BY WatchersAssumption
<1> QED BY <1>1, <1>2, <1>3, ItemsAreNumbers

\* What a comparison adds to the rows of what began.
LEMMA NewRowIs ==
    ASSUME WatchersTypeOK, NEW e \in NewRows
    PROVE  \E k \in Keys : /\ e = [item |-> listing.items[k], gaps |-> gaps, since |-> since]
                           /\ listing.items[k] # 0 /\ live[k] = 0
BY DEF NewRows

LEMMA NewRowFits ==
    ASSUME WatchersTypeOK, Listed, Watched, Compare, ~TakesSilently, NEW e \in NewRows
    PROVE  RowFits(e)'
<1> USE ValuesAre
<1>1. PICK k \in Keys : /\ e = [item |-> listing.items[k], gaps |-> gaps, since |-> since]
                        /\ listing.items[k] # 0 /\ live[k] = 0
  BY NewRowIs
<1>2. PICK x \in Nat : x = listing.items[k]
  OBVIOUS
<1>3. x <= listing.at /\ x <= begun /\ x # 0
  BY <1>1, <1>2 DEF Listed
<1>4. Past(x)'
  BY <1>3, Compared
<1>5. UNCHANGED <<kind, begun, gaps>>
  BY DEF Compare, world
<1>6. x > since \/ (~Process /\ gaps > 0)
  <2> SUFFICES ASSUME ~(x > since), Process \/ gaps = 0 PROVE FALSE
    OBVIOUS
  <2>1. Known
    BY DEF Known, TakesSilently
  <2>2. Past(since)
    BY DEF Watched
  <2>3. live[k] = listing.items[k]
    BY <1>1, <1>2, <2>1, <2>2 DEF Past
  <2> QED BY <1>1, <2>3
<1>7. e.item = x /\ e.gaps = gaps /\ e.since = since
  BY <1>1, <1>2
<1>8. Process' = Process /\ gaps <= gaps' /\ x <= begun'
  BY <1>3, <1>5 DEF Process
<1> QED BY <1>3, <1>4, <1>6, <1>7, <1>8 DEF RowFits

LEMMA OldAndNewFit ==
    ASSUME WatchersTypeOK, Listed, Watched, NEW a \in DOMAIN created, NEW e \in NewRows,
           ~TakesSilently, created[a].item = e.item
    PROVE  ~Process /\ e.gaps > 0 /\ created[a].gaps < e.gaps
<1> USE ValuesAre
<1>1. PICK k \in Keys : /\ e = [item |-> listing.items[k], gaps |-> gaps, since |-> since]
                        /\ listing.items[k] # 0 /\ live[k] = 0
  BY NewRowIs
<1>2. PICK x \in Nat : x = listing.items[k]
  OBVIOUS
<1>3. created[a].item = x /\ e.gaps = gaps /\ x # 0
  BY <1>1, <1>2
<1>4. RowFits(created[a])
  BY DEF Watched, CreatedFits
<1>5. ~Process
  <2> SUFFICES ASSUME Process PROVE FALSE
    OBVIOUS
  <2>1. Known
    BY DEF Known, TakesSilently
  <2>2. Past(x)
    BY <1>3, <1>4 DEF RowFits
  <2>3. live[k] = listing.items[k]
    BY <1>1, <1>2, <2>1, <2>2 DEF Past
  <2> QED BY <1>1, <2>3
<1>6. created[a].gaps \in Nat /\ created[a].gaps <= gaps
  BY <1>4, <1>5, ElementsAre DEF RowFits, WatchersTypeOK
<1>7. created[a].gaps # gaps
  <2> SUFFICES ASSUME created[a].gaps = gaps PROVE FALSE
    OBVIOUS
  <2>1. Announced(x)
    BY <1>3, <1>5 DEF Watched, AllAnnounced
  <2> QED BY <1>1, <1>2, <2>1 DEF Announced
<1> QED BY <1>3, <1>5, <1>6, <1>7

LEMMA NewRowsDiffer ==
    ASSUME WatchersTypeOK, Listed, NEW e \in NewRows, NEW f \in NewRows, e.item = f.item
    PROVE  e = f
<1>1. PICK k \in Keys : /\ e = [item |-> listing.items[k], gaps |-> gaps, since |-> since]
                        /\ listing.items[k] # 0 /\ live[k] = 0
  BY NewRowIs
<1>2. PICK m \in Keys : /\ f = [item |-> listing.items[m], gaps |-> gaps, since |-> since]
                        /\ listing.items[m] # 0 /\ live[m] = 0
  BY NewRowIs
<1>3. listing.items[k] = listing.items[m]
  BY <1>1, <1>2
<1> QED BY <1>1, <1>2, <1>3

LEMMA CreatedStep ==
    ASSUME WatchersTypeOK, Listed, Watched, [WatchersNext]_watcherVars, Compare, ~TakesSilently,
           NEW t \in Seq(Row), Grown(t, created, NewRows)
    PROVE  CreatedFits(t)'
<1>1. PICK s : s = created
  OBVIOUS
<1>2. s \in Seq(Row) /\ CreatedFits(s)
  BY <1>1 DEF WatchersTypeOK, Watched
<1>3. CreatedFits(s)'
  BY <1>2, CreatedKeeps
<1>4. PICK R : R = NewRows
  OBVIOUS
<1>5. Grown(t, s, R)
  BY <1>1, <1>4
<1>6. \A e \in R : RowFits(e)'
  BY <1>4, NewRowFits
<1>7. \A a \in DOMAIN s, e \in R : RowsFit(s[a], e)
  BY <1>1, <1>4, OldAndNewFit DEF RowsFit
<1>8. \A e, f \in R : e # f => RowsFit(e, f)
  BY <1>4, NewRowsDiffer DEF RowsFit
<1>9. kind' = kind
  BY DEF Compare, world
<1>10. /\ \A a \in DOMAIN s, e \in R : RowsFit(s[a], e)'
       /\ \A e, f \in R : e # f => RowsFit(e, f)'
  BY <1>7, <1>8, <1>9 DEF RowsFit, Process
<1>11. \A j \in DOMAIN t : RowFits(t[j])'
  BY <1>3, <1>5, <1>6, Zenon DEF Grown, CreatedFits
<1>12. ASSUME NEW i \in DOMAIN t, NEW j \in DOMAIN t, i < j PROVE RowsFit(t[i], t[j])'
  <2>1. CASE \E a, c \in DOMAIN s : a < c /\ t[i] = s[a] /\ t[j] = s[c]
    BY <1>3, <2>1, Zenon DEF CreatedFits
  <2>2. CASE \E a \in DOMAIN s : t[i] = s[a] /\ t[j] \in R
    BY <1>10, <2>2, Zenon
  <2>3. CASE t[i] \in R /\ t[j] \in R /\ t[i] # t[j]
    BY <1>10, <2>3, Zenon
  <2> QED BY <1>5, <1>12, <2>1, <2>2, <2>3, Zenon DEF Grown
<1> QED BY <1>11, <1>12, Zenon DEF CreatedFits

\* After a comparison, what the last listing had is live.
LEMMA AnnouncedStep ==
    ASSUME WatchersTypeOK, Listed, Watched, [WatchersNext]_watcherVars, Compare, ~TakesSilently, ~Process,
           NEW t \in Seq(Row), Grown(t, created, NewRows), NEW j \in DOMAIN t, t[j].gaps = gaps'
    PROVE  Announced(t[j].item)'
<1> USE ValuesAre
<1>1. gaps' = gaps
  BY DEF Compare
<1>2. CASE t[j] \in NewRows
  <2>1. PICK k \in Keys : /\ t[j] = [item |-> listing.items[k], gaps |-> gaps, since |-> since]
                          /\ listing.items[k] # 0 /\ live[k] = 0
    BY <1>2, NewRowIs
  <2>2. PICK x \in Nat : x = listing.items[k]
    OBVIOUS
  <2>3. /\ UNCHANGED item /\ live' = listing.items /\ \A m \in Keys : listing'.items[m] = 0
        /\ watcher' = "look"
    BY DEF Compare, world, Nowhere, Nothing
  <2>4. Announced(x)'
    BY <2>1, <2>2, <2>3 DEF Announced, Listed, Fixed
  <2> QED BY <2>1, <2>2, <2>4
<1>3. CASE \E a \in DOMAIN created : t[j] = created[a]
  <2>1. PICK a \in DOMAIN created : t[j] = created[a]
    BY <1>3
  <2>2. RowFits(created[a]) /\ Announced(created[a].item)
    BY <1>1, <2>1 DEF Watched, CreatedFits, AllAnnounced
  <2>3. PICK x \in Nat : x = created[a].item
    BY ElementsAre DEF WatchersTypeOK
  <2>4. x # 0 /\ x <= begun /\ Announced(x)
    BY <2>2, <2>3 DEF RowFits
  <2>5. Announced(x)'
    BY <1>1, <2>4, AnnouncedKeeps
  <2> QED BY <2>1, <2>3, <2>5
<1> QED BY <1>2, <1>3 DEF Grown

-----------------------------------------------------------------------------

LEMMA EndedRowIs ==
    ASSUME NEW e \in EndedRows
    PROVE  \E k \in Keys : /\ e = [item |-> live[k], lost |-> live[k] \in listing.lost]
                           /\ Process /\ live[k] # 0 /\ listing.items[k] = 0
BY DEF EndedRows

LEMMA EndedRowFits ==
    ASSUME WatchersTypeOK, Listed, Watched, Compare, NEW e \in EndedRows
    PROVE  EndFits(e)'
<1> USE ValuesAre
<1>1. PICK k \in Keys : /\ e = [item |-> live[k], lost |-> live[k] \in listing.lost]
                        /\ Process /\ live[k] # 0 /\ listing.items[k] = 0
  BY EndedRowIs
<1>2. PICK x \in Nat : x = live[k]
  OBVIOUS
<1>3. Process'
  BY <1>1 DEF Compare, world, Process
<1>4. ASSUME ~e.lost PROVE Over(x)'
  <2>1. x \notin listing.lost
    BY <1>1, <1>2, <1>4
  <2>2. Past(x) /\ x # 0
    BY <1>1, <1>2 DEF Watched
  <2>3. watcher = "compare" /\ x <= listing.at /\ x <= begun
    BY <2>2 DEF Past, Compare
  <2>4. /\ UNCHANGED <<item, begun>> /\ live' = listing.items
        /\ \A m \in Keys : listing'.items[m] = 0
    BY DEF Compare, world, Nowhere, Nothing
  <2>5. Fixed(live, item) /\ Fixed(live, listing.items)
    BY <1>1 DEF Watched
  <2>6. \A m \in Keys : item[m] # x
    BY <1>1, <1>2, <2>1, <2>2, <2>3, <2>5 DEF Fixed, Listed
  <2>7. \A m \in Keys : listing.items[m] # x
    BY <1>1, <1>2, <2>2, <2>5 DEF Fixed
  <2> QED BY <2>2, <2>3, <2>4, <2>6, <2>7 DEF Over
<1>5. e.item = x
  BY <1>1, <1>2
<1> QED BY <1>3, <1>4, <1>5 DEF EndFits

LEMMA OldEndFits ==
    ASSUME WatchersTypeOK, Watched, NEW a \in DOMAIN terminated, NEW e \in EndedRows,
           terminated[a].item = e.item
    PROVE  terminated[a].lost
<1>1. PICK k \in Keys : /\ e = [item |-> live[k], lost |-> live[k] \in listing.lost]
                        /\ Process /\ live[k] # 0 /\ listing.items[k] = 0
  BY EndedRowIs
<1>2. EndFits(terminated[a])
  BY DEF Watched, EndedFits
<1>3. e.item = live[k]
  BY <1>1
<1> QED BY <1>2, <1>3 DEF EndFits, Over

LEMMA EndedRowsDiffer ==
    ASSUME Watched, NEW e \in EndedRows, NEW f \in EndedRows, e.item = f.item
    PROVE  e = f
<1>1. PICK k \in Keys : /\ e = [item |-> live[k], lost |-> live[k] \in listing.lost]
                        /\ Process /\ live[k] # 0 /\ listing.items[k] = 0
  BY EndedRowIs
<1>2. PICK m \in Keys : /\ f = [item |-> live[m], lost |-> live[m] \in listing.lost]
                        /\ Process /\ live[m] # 0 /\ listing.items[m] = 0
  BY EndedRowIs
<1>3. live[k] = live[m]
  BY <1>1, <1>2
<1> QED BY <1>1, <1>2, <1>3, Zenon

LEMMA TerminatedStep ==
    ASSUME WatchersTypeOK, Listed, Watched, [WatchersNext]_watcherVars, Compare,
           NEW t \in Seq(EndRow), Grown(t, terminated, EndedRows)
    PROVE  EndedFits(t)'
<1>1. PICK s : s = terminated
  OBVIOUS
<1>2. s \in Seq(EndRow) /\ EndedFits(s)
  BY <1>1 DEF WatchersTypeOK, Watched
<1>3. EndedFits(s)'
  BY <1>2, EndedKeeps
<1>4. PICK R : R = EndedRows
  OBVIOUS
<1>5. Grown(t, s, R)
  BY <1>1, <1>4
<1>6. \A e \in R : EndFits(e)'
  BY <1>4, EndedRowFits
<1>7. \A a \in DOMAIN s, e \in R : s[a].item = e.item => s[a].lost
  BY <1>1, <1>4, OldEndFits
<1>8. \A e, f \in R : e # f => e.item # f.item
  BY <1>4, EndedRowsDiffer
<1>9. \A j \in DOMAIN t : EndFits(t[j])'
  BY <1>3, <1>5, <1>6, Zenon DEF Grown, EndedFits
<1>10. ASSUME NEW i \in DOMAIN t, NEW j \in DOMAIN t, i < j, t[i].item = t[j].item PROVE t[i].lost
  <2>1. CASE \E a, c \in DOMAIN s : a < c /\ t[i] = s[a] /\ t[j] = s[c]
    BY <1>2, <1>10, <2>1, Zenon DEF EndedFits
  <2>2. CASE \E a \in DOMAIN s : t[i] = s[a] /\ t[j] \in R
    BY <1>7, <1>10, <2>2, Zenon
  <2>3. CASE t[i] \in R /\ t[j] \in R /\ t[i] # t[j]
    BY <1>8, <1>10, <2>3, Zenon
  <2> QED BY <1>5, <1>10, <2>1, <2>2, <2>3, Zenon DEF Grown
<1> QED BY <1>9, <1>10, Zenon DEF EndedFits

-----------------------------------------------------------------------------

LEMMA WatchedInit == WatchersInit => WatchersInv
<1> SUFFICES ASSUME WatchersInit PROVE WatchersInv
  OBVIOUS
<1> USE DEF WatchersInit
<1>1. 0 \in Items /\ 0 \in 0 .. MaxGaps
  BY WatchersAssumption DEF Items
<1>2. WatchersTypeOK
  <2>1. Nothing \in [Keys -> Items] /\ <<>> \in Seq(Row) /\ <<>> \in Seq(EndRow)
    BY <1>1 DEF Nothing
  <2>2. Nowhere \in [items : [Keys -> Items], lost : SUBSET Items, at : Items]
    BY <1>1, <2>1 DEF Nowhere
  <2>3. Unsaved \in [live : [Keys -> Items], created : Seq(Row), terminated : Seq(EndRow)]
    BY <2>1 DEF Unsaved
  <2> QED BY <1>1, <2>1, <2>2, <2>3 DEF WatchersTypeOK
<1>3. Listed
  BY DEF Listed, Fixed, Nowhere, Nothing
<1>4. Watched
  <2>1. DOMAIN created = {} /\ DOMAIN terminated = {}
    OBVIOUS
  <2>2. DOMAIN exported.created = {} /\ DOMAIN exported.terminated = {}
    BY DEF Unsaved
  <2>3. Past(0) /\ Fixed(live, live) /\ Fixed(live, item) /\ Fixed(live, listing.items)
    BY DEF Past, Fixed, Nothing, Nowhere
  <2>4. \A k \in Keys : live[k] = 0
    BY DEF Nothing
  <2>5. CreatedFits(created) /\ CreatedFits(exported.created)
    BY <2>1, <2>2 DEF CreatedFits
  <2>6. EndedFits(terminated) /\ EndedFits(exported.terminated)
    BY <2>1, <2>2 DEF EndedFits
  <2>7. AllAnnounced
    BY <2>1 DEF AllAnnounced
  <2>8. ASSUME NEW k \in Keys PROVE Past(live[k])
    BY <2>3, <2>4
  <2> QED BY <2>3, <2>5, <2>6, <2>7, <2>8 DEF Watched
<1> QED BY <1>2, <1>3, <1>4 DEF WatchersInv

\* What became of the rows.
LEMMA RowsStep ==
    ASSUME WatchersTypeOK, Listed, Watched, [WatchersNext]_watcherVars
    PROVE  /\ CreatedFits(created)' /\ CreatedFits(exported.created)'
           /\ EndedFits(terminated)' /\ EndedFits(exported.terminated)'
<1>1. PICK c, x, e, y : c = created /\ x = exported.created /\ e = terminated /\ y = exported.terminated
  OBVIOUS
<1>2. c \in Seq(Row) /\ x \in Seq(Row) /\ e \in Seq(EndRow) /\ y \in Seq(EndRow)
  BY <1>1 DEF WatchersTypeOK
<1>3. CreatedFits(c)' /\ CreatedFits(x)' /\ EndedFits(e)' /\ EndedFits(y)'
  BY <1>1, <1>2, CreatedKeeps, EndedKeeps DEF Watched
<1>4. CreatedFits(<<>>)' /\ EndedFits(<<>>)'
  BY DEF CreatedFits, EndedFits
<1>5. CASE UNCHANGED <<created, terminated, exported>>
  BY <1>1, <1>3, <1>5, Zenon
<1>6. CASE Compare
  <2>1. UNCHANGED exported
    BY <1>6 DEF Compare
  <2>2. CASE ~UNCHANGED <<created, terminated>>
    <3>1. PICK new \in SetToSeqs(NewRows), ended \in SetToSeqs(EndedRows) :
            created' = Trimmed(created \o new) /\ terminated' = Trimmed(terminated \o ended)
      BY <1>6, <2>2 DEF Compare
    <3>2. ~TakesSilently
      BY <1>6, <2>2 DEF Compare
    <3>3. PICK s, t : s = Trimmed(created \o new) /\ t = Trimmed(terminated \o ended)
      OBVIOUS
    <3>4. s \in Seq(Row) /\ Grown(s, created, NewRows) /\ t \in Seq(EndRow) /\ Grown(t, terminated, EndedRows)
      BY <3>3, CreatedGrow, TerminatedGrow
    <3>5. CreatedFits(s)' /\ EndedFits(t)'
      BY <1>6, <3>2, <3>4, CreatedStep, TerminatedStep
    <3> QED BY <1>1, <1>3, <2>1, <3>1, <3>3, <3>5, Zenon
  <2> QED BY <1>5, <2>1, <2>2
<1>7. CASE ClearRows
  <2>1. created' = <<>> /\ terminated' = <<>> /\ exported' = exported
    BY <1>7 DEF ClearRows
  <2> QED BY <1>1, <1>3, <1>4, <2>1, Zenon
<1>8. CASE ImportRows
  <2>1. created' = x /\ terminated' = y /\ exported' = exported
    BY <1>1, <1>8 DEF ImportRows
  <2> QED BY <1>1, <1>3, <2>1, Zenon
<1>9. CASE ExportRows
  <2>1. created' = c /\ terminated' = e /\ exported'.created = c /\ exported'.terminated = e
    BY <1>1, <1>9 DEF ExportRows, tables
  <2> QED BY <1>3, <2>1, Zenon
<1>10. ASSUME NEW k \in Keys, Begins(k) \/ Ends(k) PROVE UNCHANGED <<created, terminated, exported>>
  BY <1>10 DEF Begins, Ends, tables
<1>11. TakeListing => UNCHANGED <<created, terminated, exported>>
  BY DEF TakeListing, tables
<1> QED BY <1>5, <1>6, <1>7, <1>8, <1>9, <1>10, <1>11, OtherSteps

LEMMA AnnouncedRows ==
    ASSUME WatchersTypeOK, Listed, Watched, [WatchersNext]_watcherVars, ~Process,
           NEW s, s = created', NEW i \in DOMAIN s, s[i].gaps = gaps'
    PROVE  Announced(s[i].item)'
<1>1. gaps' >= gaps /\ gaps' \in Nat /\ gaps \in Nat
  BY Onwards, ValuesAre
<1>2. \A j \in DOMAIN created : RowFits(created[j]) /\ created[j].gaps \in Nat /\ created[j].item \in Nat
  BY ElementsAre DEF WatchersTypeOK, Watched, CreatedFits
<1>3. ASSUME UNCHANGED created PROVE Announced(s[i].item)'
  <2>1. i \in DOMAIN created /\ s[i] = created[i]
    BY <1>3
  <2>2. created[i].gaps <= gaps
    BY <1>2, <2>1 DEF RowFits
  <2>3. gaps' = gaps
    BY <1>1, <1>2, <2>1, <2>2
  <2>4. PICK x \in Nat : x = s[i].item
    BY <1>2, <2>1
  <2>5. x # 0 /\ x <= begun /\ Announced(x)
    BY <1>2, <2>1, <2>3, <2>4 DEF RowFits, Watched, AllAnnounced
  <2>6. Announced(x)'
    BY <2>3, <2>5, AnnouncedKeeps
  <2> QED BY <2>4, <2>6
<1>4. CASE Compare /\ ~UNCHANGED created
  <2>1. PICK new \in SetToSeqs(NewRows) : created' = Trimmed(created \o new)
    BY <1>4 DEF Compare
  <2>2. ~TakesSilently
    BY <1>4 DEF Compare
  <2>3. s = Trimmed(created \o new)
    BY <2>1
  <2>4. s \in Seq(Row) /\ Grown(s, created, NewRows)
    BY <2>3, CreatedGrow
  <2> QED BY <1>4, <2>2, <2>4, AnnouncedStep
<1>5. ClearRows => s = <<>>
  BY DEF ClearRows
<1>6. CASE ImportRows
  <2>1. s = exported.created /\ gaps' = gaps + 1
    BY <1>6, TablesReplaced DEF ImportRows
  <2>2. RowFits(exported.created[i])
    BY <2>1 DEF Watched, CreatedFits
  <2>3. exported.created[i].gaps <= gaps
    BY <2>2 DEF RowFits
  <2> QED BY <1>1, <2>1, <2>3
<1>7. ASSUME NEW k \in Keys, Begins(k) \/ Ends(k) PROVE UNCHANGED created
  BY <1>7 DEF Begins, Ends, tables
<1>8. TakeListing \/ ExportRows => UNCHANGED created
  BY DEF TakeListing, ExportRows, tables
<1> QED BY <1>3, <1>4, <1>5, <1>6, <1>7, <1>8, OtherSteps

LEMMA WatchedKeeps ==
    ASSUME WatchersTypeOK, Listed, Watched, [WatchersNext]_watcherVars
    PROVE  Watched'
<1> USE ValuesAre
<1>1. kind' = kind
  BY Onwards
<1>2. Past(since)'
  <2>1. PICK x \in Nat : x = since
    OBVIOUS
  <2>2. Past(x)'
    BY <2>1, PastKeeps DEF Watched
  <2>3. CASE Compare /\ since' = listing.at
    <3>1. PICK y \in Nat : y = listing.at
      OBVIOUS
    <3>2. Past(y)'
      BY <2>3, <3>1, Compared
    <3> QED BY <2>3, <3>1, <3>2
  <2>4. since' = since \/ (Compare /\ since' = listing.at)
    <3>1. ASSUME NEW k \in Keys, Begins(k) \/ Ends(k) PROVE since' = since
      BY <3>1 DEF Begins, Ends
    <3>2. TakeListing \/ ExportRows => since' = since
      BY DEF TakeListing, ExportRows
    <3>3. ClearRows \/ ImportRows => since' = since
      BY TablesReplaced
    <3>4. Compare => since' = since \/ since' = listing.at
      BY DEF Compare
    <3> QED BY <3>1, <3>2, <3>3, <3>4, OtherSteps
  <2> QED BY <2>1, <2>2, <2>3, <2>4
<1>3. ASSUME Process
      PROVE  /\ Fixed(live, live)' /\ Fixed(live, item)' /\ Fixed(live, listing.items)'
             /\ \A k \in Keys : Past(live[k])'
  <2>1. Fixed(live, live)' /\ Fixed(live, item)' /\ Fixed(live, listing.items)'
    BY <1>3, LiveKeeps DEF Watched
  <2>2. ASSUME NEW k \in Keys PROVE Past(live[k])'
    <3>1. PICK x \in Nat, y \in Nat : x = live[k] /\ y = listing.items[k]
      OBVIOUS
    <3>2. Past(x)'
      BY <1>3, <3>1, PastKeeps DEF Watched
    <3>3. CASE Compare
      <4>1. y <= listing.at /\ live'[k] = y
        BY <3>1, <3>3 DEF Listed, Compare
      <4>2. Past(y)'
        BY <3>3, <4>1, Compared
      <4> QED BY <4>1, <4>2
    <3>4. UNCHANGED live \/ Compare
      <4>1. ASSUME NEW m \in Keys, Begins(m) \/ Ends(m) PROVE UNCHANGED live
        BY <4>1 DEF Begins, Ends, tables
      <4>2. TakeListing \/ ExportRows => UNCHANGED live
        BY DEF TakeListing, ExportRows, tables
      <4>3. ClearRows \/ ImportRows => UNCHANGED live
        BY <1>3, TablesReplaced
      <4> QED BY <4>1, <4>2, <4>3, OtherSteps
    <3>5. UNCHANGED live => live'[k] = x
      BY <3>1
    <3> QED BY <3>2, <3>3, <3>4, <3>5
  <2> QED BY <2>1, <2>2
<1>4. ASSUME ~Process PROVE AllAnnounced'
  <2>1. PICK s : s = created'
    OBVIOUS
  <2>2. \A i \in DOMAIN s : s[i].gaps = gaps' => Announced(s[i].item)'
    BY <1>4, <2>1, AnnouncedRows
  <2> QED BY <2>1, <2>2, Zenon DEF AllAnnounced
<1>5. /\ CreatedFits(created)' /\ CreatedFits(exported.created)'
      /\ EndedFits(terminated)' /\ EndedFits(exported.terminated)'
  BY RowsStep
<1>6. Process' = Process
  BY <1>1 DEF Process
<1> QED BY <1>2, <1>3, <1>4, <1>5, <1>6, Zenon DEF Watched

LEMMA WatchersInvStep == WatchersInv /\ [WatchersNext]_watcherVars => WatchersInv'
BY WatchersTypes, ListedKeeps, WatchedKeeps DEF WatchersInv

\* What the invariant says of the rows is the property.
LEMMA WatchersTell == WatchersInv => WatchersTellHistory
<1> SUFFICES ASSUME WatchersInv PROVE WatchersTellHistory
  OBVIOUS
<1>1. CreationsTrue
  <2>1. ASSUME NEW i \in DOMAIN created, NEW j \in DOMAIN created
        PROVE  /\ created[j].item > created[j].since \/ (~Process /\ created[j].gaps > 0)
               /\ i < j /\ created[i].item = created[j].item
                  => ~Process /\ created[j].gaps > 0 /\ created[i].gaps < created[j].gaps
    BY DEF WatchersInv, Watched, CreatedFits, RowFits, RowsFit
  <2> QED BY <2>1, Zenon DEF CreationsTrue
<1>2. EndsTrue
  <2>1. ASSUME NEW j \in DOMAIN terminated, There(terminated[j].item) PROVE terminated[j].lost
    BY <2>1 DEF WatchersInv, Watched, EndedFits, EndFits, Over, There
  <2>2. \A i, j \in DOMAIN terminated : i < j /\ terminated[i].item = terminated[j].item => terminated[i].lost
    BY DEF WatchersInv, Watched, EndedFits
  <2> QED BY <2>1, <2>2, Zenon DEF EndsTrue
<1> QED BY <1>1, <1>2 DEF WatchersTellHistory

\* What the watchers tell has happened (ProcessWatcherScanOnce, NetWatcherScanOnce),
\* for any pids, connections and limits, however items begin and end between a
\* listing and its comparison, and whatever is exported, cleared and imported.
THEOREM WatchersTellHistoryHolds == Spec => []WatchersTellHistory
<1>1. Init => WatchersInv
  BY WatchedInit DEF Init
<1>2. WatchersInv /\ [Next]_workerVars => WatchersInv'
  <2>1. [Next]_workerVars => [WatchersNext]_watcherVars
    BY DEF Next, workerVars
  <2> QED BY <2>1, WatchersInvStep
<1> QED BY <1>1, <1>2, WatchersTell, PTL DEF Spec

=============================================================================
