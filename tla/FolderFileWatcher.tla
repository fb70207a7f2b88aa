-------------------------- MODULE FolderFileWatcher --------------------------
(***************************************************************************)
(* The threads of the folder watcher and their end (src/src/controller/    *)
(* gui.cpp: FolderFileWatcherMainThread, FolderFileWatcherThreadForRoot,   *)
(* StartFolderFileWatcher, StopFolderFileWatcher).                         *)
(*                                                                         *)
(* The thread of a root waits for changes in ReadDirectoryChangesW, which  *)
(* is synchronous.  Stopping sets a flag and cancels what is being read,   *)
(* twice: in the GUI thread and in the main thread of the watcher.  A      *)
(* thread that has looked at the flag but does not read yet misses both    *)
(* and ends with the next change of its folder.  The rows that the changes *)
(* make are left out.                                                      *)
(***************************************************************************)
CONSTANT Roots

VARIABLES
    stop,           \* g_FolderFileWatcherStop
    handles, open,  \* g_FolderFileWatcherHandles; the directories that are open
    changed,        \* the directories with changes that nobody has read
    worker,         \* of each root: what its thread does next
    main, gui       \* what the watcher's main thread and the GUI thread do next

folderVars == <<stop, handles, open, changed, worker, main, gui>>

FolderInit ==
    /\ stop = FALSE /\ handles = {} /\ open = {} /\ changed = {}
    /\ worker = [r \in Roots |-> "none"] /\ main = "none" /\ gui = "start"

WorkerGoes(r, from, to) == worker[r] = from /\ worker' = [worker EXCEPT ![r] = to]

\* CancelIoEx on every handle of the list, whose lock is held.
CancelReads ==
    worker' = [r \in Roots |-> IF worker[r] = "read" /\ r \in handles THEN "failed" ELSE worker[r]]

-----------------------------------------------------------------------------
(* FolderFileWatcherThreadForRoot.                                         *)

OpenRoot(r) ==
    /\ \/ WorkerGoes(r, "open", "register") /\ open' = open \cup {r}
       \/ WorkerGoes(r, "open", "ended") /\ UNCHANGED open
    /\ UNCHANGED <<stop, handles, changed, main, gui>>
RegisterHandle(r) ==
    /\ WorkerGoes(r, "register", "loop")
    /\ handles' = handles \cup {r}
    /\ UNCHANGED <<stop, open, changed, main, gui>>
LookAtStop(r) ==
    /\ WorkerGoes(r, "loop", IF stop THEN "erase" ELSE "read")
    /\ UNCHANGED <<stop, handles, open, changed, main, gui>>
ReadChanges(r) ==
    /\ WorkerGoes(r, "read", "loop")
    /\ r \in changed /\ changed' = changed \ {r}
    /\ UNCHANGED <<stop, handles, open, main, gui>>
\* The read fails, or too many changes have come to tell them.
ReadFails(r) ==
    /\ WorkerGoes(r, "read", "failed")
    /\ changed' = changed \ {r}
    /\ UNCHANGED <<stop, handles, open, main, gui>>
AfterFailure(r) ==
    /\ WorkerGoes(r, "failed", IF stop THEN "erase" ELSE "loop")
    /\ UNCHANGED <<stop, handles, open, changed, main, gui>>

\* Variant of EraseHandle: the directory is closed first.
EraseHandleClosed(r) ==
    /\ WorkerGoes(r, "erase", "close")
    /\ open' = open \ {r}
    /\ UNCHANGED <<stop, handles, changed, main, gui>>

EraseHandle(r) ==
    /\ WorkerGoes(r, "erase", "close")
    /\ handles' = handles \ {r}
    /\ UNCHANGED <<stop, open, changed, main, gui>>
CloseRoot(r) ==
    /\ WorkerGoes(r, "close", "ended")
    /\ open' = open \ {r} /\ changed' = changed \ {r}
    /\ UNCHANGED <<stop, handles, main, gui>>

Worker(r) ==
    \/ OpenRoot(r) \/ RegisterHandle(r) \/ LookAtStop(r) \/ ReadChanges(r)
    \/ AfterFailure(r) \/ EraseHandle(r) \/ CloseRoot(r)

-----------------------------------------------------------------------------
(* FolderFileWatcherMainThread.                                            *)

MainStarts ==
    /\ main = "start" /\ main' = "loop"
    /\ worker' = [r \in Roots |-> "open"]
    /\ UNCHANGED <<stop, handles, open, changed, gui>>
MainSeesStop ==
    /\ main = "loop" /\ stop /\ main' = "cancel"
    /\ UNCHANGED <<stop, handles, open, changed, worker, gui>>

MainCancels ==
    /\ main = "cancel" /\ main' = "join"
    /\ CancelReads
    /\ UNCHANGED <<stop, handles, open, changed, gui>>
MainJoins ==
    /\ main = "join" /\ \A r \in Roots : worker[r] = "ended"
    /\ main' = "ended"
    /\ UNCHANGED <<stop, handles, open, changed, worker, gui>>

Main == MainStarts \/ MainSeesStop \/ MainCancels \/ MainJoins

-----------------------------------------------------------------------------
(* The GUI thread, at its start and in ShutdownGui.                        *)

StartFolderFileWatcher ==
    /\ gui = "start" /\ gui' = "watching"
    /\ stop' = FALSE /\ main' = "start"
    /\ UNCHANGED <<handles, open, changed, worker>>

\* Variant of StopFolderFileWatcher: the flag is not set.
StopFlagForgotten ==
    /\ gui = "watching" /\ gui' = "cancel"
    /\ UNCHANGED <<stop, handles, open, changed, worker, main>>

StopFolderFileWatcher ==
    /\ gui = "watching" /\ gui' = "cancel"
    /\ stop' = TRUE
    /\ UNCHANGED <<handles, open, changed, worker, main>>
StopCancels ==
    /\ gui = "cancel" /\ gui' = "join"
    /\ CancelReads
    /\ UNCHANGED <<stop, handles, open, changed, main>>
StopJoins ==
    /\ gui = "join" /\ main = "ended" /\ gui' = "stopped"
    /\ UNCHANGED <<stop, handles, open, changed, worker, main>>

Gui == StartFolderFileWatcher \/ StopCancels \/ StopJoins

\* Windows keeps the changes of an open directory until they are read.
FolderChanges(r) ==
    /\ r \in open /\ r \notin changed
    /\ changed' = changed \cup {r}
    /\ UNCHANGED <<stop, handles, open, worker, main, gui>>

FolderNext ==
    \/ \E r \in Roots : Worker(r) \/ ReadFails(r) \/ FolderChanges(r)
    \/ Main \/ Gui \/ StopFolderFileWatcher

FolderFairness ==
    (\A r \in Roots : WF_folderVars(Worker(r))) /\ WF_folderVars(Main) /\ WF_folderVars(Gui)

-----------------------------------------------------------------------------
WorkerPlaces ==
    {"none", "open", "register", "loop", "read", "failed", "erase", "close", "ended"}

FolderTypeOK ==
    /\ stop \in BOOLEAN
    /\ handles \subseteq Roots /\ open \subseteq Roots /\ changed \subseteq Roots
    /\ worker \in [Roots -> WorkerPlaces]
    /\ main \in {"none", "start", "loop", "cancel", "join", "ended"}
    /\ gui \in {"start", "watching", "cancel", "join", "stopped"}

\* A handle that may be cancelled is open: CancelIoEx, from whichever of the two
\* threads, never gets a handle that was closed and may be somebody else's now.
CancelledHandlesOpen ==
    /\ handles \subseteq open
    /\ \A r \in Roots : worker[r] = "read" => r \in handles

\* Stopping ends if a folder that is read changes again some day.  Without a
\* further change it need not end: the read that began after both
\* cancellations, by a thread that saw the flag before it was set, goes on.
StopEnds ==
    (\A r \in Roots : (worker[r] = "read") ~> (worker[r] # "read" \/ r \in changed))
    => ((gui = "cancel") ~> (gui = "stopped"))

=============================================================================
