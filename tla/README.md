# InspecThor: a verification project

InspecThor is a Windows tool for the dynamic analysis of programs. A GUI *controller* creates a
target suspended, injects an *agent* DLL into it, reads the agent's telemetry from named pipes,
records kernel ETW events about the target's process tree, injects the agent into the target's
children, and shows and exports what it has seen as an *analysis session*.

This directory holds TLA+ models of that program's own logic. TLC checks them on small instances,
and TLAPS proves some of the results for every value of the constants. Paths like `gui.cpp:11364`
are relative to `src/src/controller` unless another directory is named; a definition's source
lines are in `PROJECT.json` under `map`, and each module's first comment names the code it is
about.

| module | what it models | run(s) | proofs |
|---|---|---|---|
| `ProcessTreeManager`, `SessionHistory` | the session record, and what it promises | `process_tree` | `ProcessTreeManagerProofs` |
| `SessionLifecycle` | the threads around Start Analysis and the end of the target | `session`, `stale_watch`, `stale_reader` | `SessionProofs` |
| `EtwMonitor` | the kernel trace, its consumer thread and its buffer | `etw`, `etw_restart` | `EtwProofs` |
| `AgentPipe`, `HookManager`, composed by `MonitoredProcess` | agent, hooked threads, handshakes and the pipe's reader; the hooks and MinHook | `agent`; `armed_child` (`AgentPipe` alone) | `MonitoredProcessProofs` |
| `TargetLaunch`, `PipeListeners`, composed by `LaunchAndListen` | creation of the target, injection, helper processes; the listeners for additional pipes | `launch` | `LaunchAndListenProofs` |
| `StringScanner`, `StaticAnalysis`, `FolderFileWatcher`, `SystemWatchers`, composed by `BackgroundWorkers` | the GUI's background workers | `workers` | `WorkersProofs` |
| `FileActivity`, `ProcessActivity`, `RegistryActivity`, composed by `ActivityViews` | what three views make of the target's calls | `activity_views`, `complete_files` | `ActivityProofs` |

`InductionLemmas` holds the lemmas about numbers and lists that several proofs need. The modules named `MC...` give the
constants of a run their values where a `.cfg` cannot, and some name the sub-space that a behaviour of
the run looks at (`focus`).
To check one module: `tlc -config <run's cfg> <module>.tla`; to check its proofs: `tlapm <module>.tla`.


## 1. The system: inventory

### Processes and threads

* **Controller** (`controller.cpp`, `gui.cpp`): the UI thread with its frame loop; the launch
  worker started by Start Analysis; one pipe reader per launch and one listener per extra pid; one
  exit watch per process of a session; an auto-terminate timer per launch; the ETW consumer
  thread; an injection thread per child; the static-analysis thread; the string scanner; the
  folder, process, network and Sysmon workers; the AI request. Most of them are *detached*: nobody
  waits for them, they outlive the session they were started for, and they tell sessions apart by a
  token or not at all. That is where most of the hard behaviour of this program comes from.
* **Agent** (`src/src/agent`): one thread in the monitored process, plus every thread of that
  process while it is in a detour.
* **Loader** (`src/src/loader`): a short-lived helper that injects into a process of the other
  architecture, or hosts a DLL target. **Shellcode runner**: the host of a raw code file.

### Components

For each: its state; its operations; whom it talks to; what is hard; what makes it correct.

1. **Analysis session and process tree** (`process_tree_manager.cpp`, `analysis_session.h`).
   A record (rows of the tree, root, launcher and primary pid, sets of pids, active flag) and a
   generation, behind one mutex. `BeginSession`, `RegisterRoot`, `ObserveChild`,
   `MarkInjectionResult`, `MarkExited`, `StopSession`, `Snapshot`, `Reset`, `Restore`. Called by the
   launch worker, the ETW callback, exit watches, injection threads, Export and Import. Hard: calls
   arrive in any order, for pids that Windows has used again, for sessions that are over. Correct:
   the tree is a history; rows, flags and sets agree; nothing waits for a process that has gone.
2. **Analysis lifecycle** (`gui.cpp` 11300-11820, 19298-19313, `SetTargetProcess`,
   `PipeReaderThread`). `g_Target` (active, pid), a plain struct without a lock; `g_LaunchingTarget`;
   `g_RunTimerToken`. Hard: check-then-act over unprotected state by detached threads. Correct:
   a launch starts alone and ends, the target's end is noticed, ETW stops at the end, a late thread
   of one session does nothing to the next.
3. **ETW telemetry** (`etw_monitor.cpp`). Trace handles, `g_EtwRunning`, the consumer thread,
   the set of target pids, the "keep until the target is known" flag, a buffer of 10000 events.
   Start, stop, add a target, prune, clear, export, import, and the callback with three
   critical sections. Reports process starts and exits to 1 and 2. Hard: start against stop, the
   gaps between the callback's sections, the ring's limit. Correct: no thread is left or assigned
   over, the buffer has the target's events, in order, and no one else's.
4. **Agent thread, telemetry transport, handshakes** (`agent.cpp`, `hooks.cpp` 389-450,
   `pipe_io.h`, `injector.cpp` handshake, `controller.cpp` readers). `g_PipeHandle`, `g_PipeMutex`,
   `g_CallbackMutex`, the callback, the hooks' state. Register, configuration, installation of hooks,
   readiness, status messages, the monitor loop that peeks at the pipe, removal and unloading.
   Hard: every thread of the target sends; the agent's own calls are hooked; either end dies at
   any moment. Correct: messages stay whole, no call is lost or blocks for ever, nobody is served
   without hooks, and hooks do not stay behind.
5. **Target launch and injection** (`injector.cpp`, `loader.cpp`). Handles, remote memory, remote
   threads, helper processes with inheritable output pipes. Every step may fail. Correct: a failed
   launch leaves nothing behind, memory is not freed under a remote thread, a launch ends.
6. **Additional pipe listeners** (`controller.cpp` 20-171 and `main`): the set of pids, one thread
   per pid that serves one agent after the other, the list of threads. `StartAdditionalPipeListener`,
   `...ForPid`, the stop before each launch and at the end, which wakes listeners by connecting to
   their pipes. Hard: pids come back while their old listener is about to end; reads have no limit;
   the end of `main` races threads that are being added. Correct: whoever was asked for is listened
   to, whoever has registered is served, with the right configuration, and what is stopped ends.
7. **Telemetry hooks** (`hooks.cpp`): about 420 detours, a re-entrancy guard per thread, the
   caller filter in front of every event; an installer that records each hook's status, a remover,
   and hooks on OpenSSL that any thread adds. Correct: what is called hooked leads into the agent,
   and nothing does any more when the hooks have been removed.
8. **Caller filter** (`agent/filter.cpp`): a cache of module paths, and a decision from the
   caller's module and the trace mode.
9. **Child instrumentation policy** (`child_instrumentation_policy.cpp`): a pure decision (inject,
   log the command only, ignore) from image, path, launcher and mode.
10. **Telemetry ingestion, snapshots, views** (`gui.cpp` 3600-15000): the event list, and builders
    that group events into processes, files, registry, network, memory, DLL, IPC, service, injection,
    anti-analysis, crypto and COM rows; the **specialized activity store** (three lists, 1000, 1000
    and 5000 rows at most, one mutex).
11. **Runtime string scanner** (`gui.cpp` 5817-5920): token, table, chunk hashes per scanner.
    Correct: strings of one target do not mix into the next, and what stands in memory is found.
12. **Static analysis** (`gui.cpp` 2554-2596, 11316-11338, 19272-19450): request number, result,
    thread. Correct: what is shown belongs to the selected file; closing the window ends.
13. **Folder watcher** (`gui.cpp` 10976-11087): one thread per watched root with a synchronous
    directory read, a list of handles to cancel, a stop flag. Correct: only open handles are
    cancelled; stopping ends.
14. **Process watcher and network watcher** (`gui.cpp` 10773-10863, 11160-11290): pollers that
    compare a listing with the previous one and keep rows of what began and ended. Correct: the rows
    tell what happened, once.
15. **Sysmon assistant** (`gui.cpp` 21798-22960): install, refresh and filter with flags and two
    detached threads. The refresh's check-then-set is done by the UI thread only, so it is no race.
16. **Export and import**: JSON of everything above; an import replaces the session, the ETW buffer
    and the tables while threads of the present session may be about.
17. **Target and Office resolver**: path, type and registry to a launcher's command line.
18. **AI client**: configuration file, one HTTPS request at a time on a detached thread.
19. **Shellcode runner**, **GUI drawing**, **signature generator and third-party code** (imgui,
    minhook, nlohmann json, the API dictionary): not this project's subject.

### How they interact

Start Analysis (2) stops the previous session, begins a session (1), and leaves the rest to the
launch worker, which arms ETW (3), creates and injects the target (5), completes the handshake
(4), activates the target, registers the root (1), starts the watch and the reader and resumes the
target. ETW's callback reports children: the policy (9) decides, a row is added (1), a
watch is started (2), a listener (6) and an injection (5) are queued, whose result goes back to the
row (1). Any of reader, watch, timer, ETW or the analyst may be first to notice the end and the
others then see a session that is over, or the next one.

Each module keeps of its neighbours only what it reads of them. `SessionLifecycle` has rows
that are absent, live or exited, where `ProcessTreeManager` has all of a row; it has one bit
of ETW, where `EtwMonitor` has all of it; `TargetLaunch` has one step for the handshake that
`AgentPipe` has in full.


## 2. The modules

### ProcessTreeManager

Every public method holds the mutex from its first to its last statement: one action each. Its
callers are unconstrained except where the code constrains them (`RegisterRoot` only by a launch
worker that began the session; import only of what export wrote), because detached threads may
deliver a result or an exit for any pid at any time. Pids are reused freely. Texts, times and exit
codes are left out, and so are `commandOnlyPids` and `skippedPids`, which no code reads.

`process_tree` checks that below one root a pid names at most one live row
(`LivePidsUnique`), that rows hang together (`DescendsFromRoot`), that no exited row waits for an
injection (`PendingIsLive`), that flags, statuses and sets agree, also after an import rebuilt
them from texts (`SetsMatchRows`), that at most one child of a launcher is
promoted (`OnePrimary`), and that the module implements `SessionHistory` (`ImplementsHistory`): rows
are only added, exits are permanent, an import brings back what was saved. Two ordinary pids,
the controller's, three rows, an export of one row and two sessions let a pid be reused, a
session be replaced with threads of the old one about, and an import meet a running launch.
Two ordinary pids are symmetric. After an import during a launch, the tree has two roots; the code
does allow that, so the invariants about uniqueness say what holds below a single root.

### SessionLifecycle

One step is one access to shared state: `g_Target`'s two fields, the token, ETW's flag and the
session's two questions (`HasLiveProcesses`, `active`) are read and written apart, as the code does.
Threads are the UI thread (`ui`), the launch worker (`worker`) and the detached ones (`at`).

`session` looks at one of two things in a behaviour (`MCSessionLifecycle`, `focus`). One launch with a
duration, one child and a reader that may break: every live row has a watch that will mark it, and
exited means gone (`RowsFollowProcesses`), the launch ends (`LaunchEnds`), the end of the target is
noticed (`TargetEndNoticed`), and ETW stops when the last process is gone whoever marks it last
(`EtwStopsAtTheEnd`). One child is enough for both orders of root and child ending and for a child
reported after its own end or its parent's. Or two launches without child and duration, up to the
moment when the second worker is about to begin: a launch begins with no other worker and an inactive
target (`LaunchesAlone`), however the threads of the first are still about.
`stale_watch` and `stale_reader` show what *does* go wrong between two launches; see section 4.
They leave out children, timers and broken pipes, so that their traces are short.
Pid reuse is left out here (it is in `ProcessTreeManager`), and `OpenProcess` in a watch fails only
for a process that is gone: the controller runs elevated and watches processes it created. The row
of a child and the start of its watch (`gui.cpp` 11420-11430), two calls of one thread, are one step
(`OnChildProcessSpawned`).

### EtwMonitor

The three critical sections of the callback, the ring of `MaxEvents` that drops `Evicted` at once
(10000 and 1000 in the code, 2 and 1 here), start, stop by the threads that saw a target end, stop
by a failed launch (which does not take `stopMutex`), and the consumer thread with all of its ways:
`OpenTrace` may fail, in which case the thread stops the trace session, clears the handle and the flag
in two more steps and ends un-joined (`OpenTraceFails`, `GiveUp`, `ThreadEnds`; 610-619), and
`ProcessTrace` may return unasked (`ProcessTraceStops`; 623-632). A stop then returns early, and a
start assigns over a joinable thread: the program ends, and the analyst starts it again
(`ProgramEnds`). Threads that stop ETW when a target ends (`watched`) outlive the launch they were
started for and may stop it at any moment of the next one (`TargetEnds`; `gui.cpp` 11343-11366).

`etw` looks at two launches whose traces may fail and are stopped by whomever ("trace"), or at a buffer
that overflows in one launch ("record"). It checks that nothing is left behind a flag that says
stopped, however many stopped at once (`QuiescentIsStopped`), that a stop gets out of its join
(`StopEnds`), that order and the target's events survive everything that prunes, clears and
replaces the buffer (`TargetEventsKept`), and that at most one event of a stranger gets in
(`AtMostOneStray`). The first two have one exception, which a history variable states: `doubt` holds
from the moment when the thread gives up unasked, a stop meets a start, or the program ends over
a thread, until the trace is next wholly off. In doubt the flag may say stopped with a thread still
there (`etw_restart` shows it for a trace that cannot be opened), and a stop may find itself joining the
thread of a launch that started after it looked. Two launches, three events and three pids
(target, child, stranger) make a stop of the first launch meet every step of the second's start, the ring
overflow, and every kind of event occur.

### AgentPipe and HookManager

**AgentPipe**: one monitored process, a launched root or an injected child, with two hooked threads
and the agent's, `g_CallbackMutex` and `g_PipeMutex`, and both directions of the pipe. A message is
two writes (header, payload) and the pipe holds two writes, so every write may wait. Both handshakes
are there with all ways out; their time-outs may strike at any moment, which covers every duration.
The agent's peek while holding `g_PipeMutex` is hooked too; the caller filter keeps it from waiting
for itself, and the mutant that drops that filter deadlocks.

**HookManager**: `InstallHooks` and `RemoveHooks` function by function, with MinHook's list of hooks
and its calls that fail, beside threads that load and unload modules. Each load of an OpenSSL
module makes the loading thread add and enable hooks of its own (`TryInstallOpenSslHooks`), before,
during or after the installation and the removal.

The two share no more than "the hooks are active" and "the pipe is closed", so that
`MonitoredProcess` takes one of them at a time (`half`). `agent` checks `WholeMessages`,
`ServedMeansTracing`, `NothingMissed`, `DetourReturns`, `HooksRemoved` of the first half, and of
the second that what is listed as hooked is patched (`HookedIsActive`) and that nothing leads into
the agent once the hooks have been removed (`RemovalComplete`); `armed_child` is a finding. Two calls
per thread are enough for two messages of two threads to interleave in every way, and for calls
before, during and after the handshake. Two loading threads, two OpenSSL modules, one pinned module
and one unloadable module before and after OpenSSL in the order of installation let a thread add
hooks at every point of the installation and of the removal, and modules go between any two steps.

### TargetLaunch and PipeListeners

**TargetLaunch**: two jobs at once: a launch (executable or DLL) and the injection into a child with
its attempts; each either directly or through a helper process whose output is read to the end. The
write ends of output pipes are inheritable and spread to whatever process is created meanwhile
(`Inherit`). `launch` checks that a job leaves nothing behind (`CleanOutcome`), that remote memory is
not freed under its reader (`NotFreedInUse`), and that the launch ends (`LaunchesEnd`). The code tries
three times, the run two: the second attempt already runs beside the remote thread that the first one
left behind after its time-out, and the theorem below holds for any number.

**PipeListeners**: the launch worker and the thread that has seen a child start listeners; each
listener creates its pipe, waits for an agent, shakes hands and hands the pipe to a reader; the GUI
thread stops them all before a launch and at the end, where `main` detaches the threads and returns.
Agents come, stall, fail and die at any step. `launch` checks `AskedIsListened`,
`ServedAreConfigured`, `RegisteredIsServed`, `ExitDetachesAll` and `StoppedListenersEnd`, whose second
alternatives say what the code leaves open: a start that meets a listener of the previous session
after its last look at the flag is lost; a stalled agent keeps its listener for ever, for no read has
a limit; and a thread added to `g_PipeThreads` after `main` has detached the others ends the program
in `std::terminate`, which needs a handshake or a start under way as the window is closed (`busy`).
One pid, two agents and three events of launching and loading let a pid come back, two agents meet
at one pipe, and a stop fall between any two steps. More pids add no interaction, for listeners of
different pids share only the set of pids and the list of threads; the theorems hold for any number.

One thing is simpler than in the code: `WriteConfig` takes `g_ActiveTraceConfig` at once, where the
code copies a struct without a lock (`controller.cpp:54`) that a launch assigns (`gui.cpp:11747`), so
that a mixture of two configurations is not among its outcomes.

To a listener an agent is there or it is not, and to a launch its listener is not, so that
`LaunchAndListen` takes one of the two at a time (`part`).

### BackgroundWorkers

`StringScanner`, `StaticAnalysis`, `FolderFileWatcher` and `SystemWatchers` share no state, so the
run takes one of them at a time (`which`). The scanner: a token per launch, a baseline of the
suspended target, passes
limited in bytes, a merge that looks at the token before it takes the lock, and no join at all.
`OneLateMerge` says exactly how much a scanner left behind may still do. `WhatStandsIsRecovered` is
the promise of the view: what the target writes and lets stand gets into the table, unless the table
is full, the page is excluded, or the place lies beyond what a pass reads. `ShownIsSelected`: the
result on screen is that of the selected file. `CancelledHandlesOpen`: no closed handle is
cancelled. `StoppedWorkersEnd`: a scanner whose token has passed ends; closing the window ends; the
folder watcher ends if a folder that is still read changes again, and need not end otherwise.
The process watcher and the network watcher are one module, for both compare a listing with the last
one. `WatchersTellHistory`: a Created row is of a process that began after the watch's first
listing, a Terminated row of one that has ended, and no process has two of either, save that an empty
listing is taken for the end of all (`lost`), who then come back unannounced; an event is of a
connection that was made since the watch began, and none has two unless a table could not be
read, was cleared or was replaced before it (`gaps`).
Bounds: two tokens (the present scanner and one left behind), one chunk with two contents, two
rows, two files and five selections (two analyses overlap with the two steps of a selection), two
folders; two keys and two items, so that a pid is used again, and one gap.

### FileActivity, ProcessActivity, RegistryActivity

The builders run in every frame over the lists of events and share nothing else; `ActivityViews`
takes one view at a time (`view`), in the run `activity_views`.

`BuildFileActivitySnapshot` folds the event list: it follows handles to files, keeps its own idea of
each handle's pointer, and rebuilds written files from the captured buffers, each called "Complete"
or "Partial" in the view. The module has that loop, one `See...` operator per branch, beside the
files, handles and pointers of the target itself. The target's calls are external; each comes
with its report, so reports arrive in the order of the calls.
The reports determine every content that is not older than the first of them (`older`) and every
pointer: reads report what they transferred, and seeks their distance and origin. Whatever the view
gets wrong about another file is its own error, and it makes some: `CompleteIsTrue`, that what it calls
complete is what stands in the file, does not hold (`complete_files`, section 4).
**FileActivity**: `ReconstructionExact` says that these are all. A history variable, `mistaken`, holds
the files in which the loop has made one of four errors, each at the call where it makes it: a write
or a cut where it believes a pointer to be that a read, an untold seek or `CreateFileMapping` has left
elsewhere; a new file for which it keeps the reconstruction of a deleted one; the
extension of an empty file, of which it sees no content; and an empty file moved over one whose
reconstruction it keeps. In every other file, what has content is reconstructed, and what is
called complete is what stands in it, through handles and names that are used again, moves, gaps,
overlapped writes and partial captures. Of a deleted file nothing is said: the view keeps its
reconstruction on purpose.
Two files, two handles, seven calls and a capture limit of one unit let a handle or a name be used
again after every one of these, with two handles in one file.

**ProcessActivity**: the same beginning or end comes from a hook, as late as the agent's own
injection into the child takes, and from ETW; `OneRowPerProcess` says that the two become one row
whichever is first, unless the call's report comes more than the view's two seconds after the event,
or the pid begins or ends twice within them. Two pids, two processes and three moments give every
order, and lateness on either side of the window.

**RegistryActivity**: handles to keys, creations, deletions and values, reported after the call while
other threads go on. `FinalStateTrue`: the state shown last of a key or a value is the one it has,
unless the reports leave it in doubt: two threads changed it at once, it went or came with another
key, or its handle was misread because the handle's closing was reported late. Two threads, two
handles, nested keys and four calls let each of these cases happen.


## 3. Fairness

* Threads of the program are weakly fair: Windows runs a runnable thread. Each is fair on its own,
  so that no thread's progress stands in for another's.
* Entering `g_PipeMutex` or `g_CallbackMutex` is *strongly* fair (`SendLock`): a contended
  `std::mutex` is taken and released again and again, and Windows hands it to a waiting thread
  in the end.
* Nothing is promised of the target, the analyst, the kernel's events or a remote
  `LoadLibraryW`: processes need not end, need not call anything, and may end at any moment.
* Waits that the code limits (`WaitForSingleObject` with a time-out, `PeekNamedPipe` loops) may give
  up at any time; waits it does not limit are waited for.
* The exact condition under which the folder watcher's end depends on a further change of a folder
  is part of its property (`FolderFileWatcher!StopEnds`), not of the fairness.
* A composition adds the fairness of each part; what is enabled from the start is fair only in the
  behaviours of its part.


## 4. What the code does that it does not say

Each of these is a run that must end in a violation, and a finding in `PROJECT.json`.

* `stale_watch`: an exit watch of the previous target stops the *new* session, before any of its
  processes exists, and logs that its final process has exited (`gui.cpp:11364`).
* `stale_reader`: the pipe reader of the previous target reports the new one, which runs, as ended
  (`controller.cpp:100`, `gui.cpp:11601`).
* `etw_restart`: a trace that could not be opened is reported and the program goes on, but its thread
  is never joined and the next launch assigns over it, which ends the program (`etw_monitor.cpp:695`).
* `complete_files`: the File Activity view calls a reconstruction complete that is not what stands in
  the file, after a seek whose caller did not ask for the new pointer, say (`gui.cpp:6257`).
* `armed_child`: in a running child telemetry overtakes the readiness message, the listener
  takes it for a failed handshake, and an agent whose hooks are active is turned away
  (`src/src/agent/agent.cpp:206`).

`README.md:15` of the repository promises ETW telemetry scoped to the target's process tree. That is
true but for one event: of an unrelated process, accepted while no target was known and added after
the buffer was pruned (`etw_monitor.cpp:592`). `AtMostOneStray` says that there is never a second.

Two more are premises of properties of `HookManager`. When the target has unloaded a module with
hooks (`winhttp`, say), `MH_DisableHook(MH_ALL_HOOKS)` stops at the first function that cannot be
written, later hooks stay patched, `MH_Uninitialize` fails for the same reason, and
`FreeLibraryAndExitThread` then unmaps the agent under them (`agent.cpp:270`; `lost = {}` in
`RemovalComplete`). And a hook that another thread adds between the installer's `MH_EnableHook` of all
and its setting of `g_HooksActivated` is listed as hooked but never enabled (`hooks.cpp:7623`;
`between` in `HookedIsActive`).


## 5. What is proved

All theorems hold for every value of the constants; they rest on the modules' named `ASSUME`s and
on nothing else. Those say of a constant what the code gives: bounds are numbers, the tables of hooked
functions are lists (`HookAssumption`), keys are paths below a predefined handle that is no other
handle's value (`RegistryAssumption`). Every safety property of a passing run is the subject of a
theorem. Where a run checks a composition of parts that share no state, a theorem says so of the
composition: `HalvesHold`, `LaunchHolds`, `ViewsHold`.

**ProcessTreeManagerProofs.** `IInv` is types, the row invariants of the live rows, *the same of the
exported rows*, and the two agreements. The exported rows have to be in it because an import may
bring them back at any time, and the types because the rows are indexed by sequence positions. Rows
change in three ways only (replaced, extended, changed in one place), and each has a lemma; the
actions are then instances. Results: `TypeCorrect`, `LivePidsUniqueHolds`, `DescendsFromRootHolds`,
`PendingIsLiveHolds`, `SetsAgree` (both agreements), and `HistoryImplemented`, the refinement of
`SessionHistory`: initial states map to initial states, every step to a step or a stutter.
`OnePrimaryHolds` has an invariant of its own, `Primaries`: the property of the live rows and of the
exported ones. A second root makes the property empty, so only the first row and the children of
one launcher are left to compare.

**SessionProofs.** `RowsFollowProcessesHolds` and `LaunchesAloneHolds`, for any number of launches and
processes. Beside types and the property the invariant says that whoever prepares a launch is alone
and finds, or has made, the target inactive (`Alone`), and that the launch worker's process has no
row before it is registered and exists by then (`RootsRow`, `RowsCreated`): without these the worker
could overwrite a row that a watch of an earlier launch answers for.

**EtwProofs.** There are two invariants, and neither assumes anything of who stops the trace, when, or
whether it can be opened. `QuiescentIsStoppedHolds` rests on `IInv`: out of doubt, the trace is
wholly on or wholly off as long as no stop has touched it and no start is under way, and otherwise each
stop has undone, and the start has made, as much as its place says (`Sound`). Several stops may be at
work at once, each at another place, so that `StopDone` says of each what it may count on. In doubt
it says nothing; that a trace which becomes wholly off is out of doubt again makes it inductive.
The other is about the buffer, which has its own mutex whoever stops what: `TargetEventsKeptHolds`,
`AtMostOneStrayHolds` and, with the first, `EtwTypes`. `Recorded` says that the buffer's events are in order and
all older than the one on its way in, that every event about a target has been kept or was dropped with
everything before it (`Numbered`), and that a stray in the buffer leaves no other on its way
(`Scoped`). What pruning keeps, a recursion over the buffer, is proved of every buffer by
induction over its length.

**MonitoredProcessProofs.** Of the pipe: `WholeMessagesHolds` and `ServedMeansTracingHolds`, for any number of threads and
calls, any size of the pipe and all failures. Messages stay whole because whoever writes holds
`g_PipeMutex` (`OneWriter`) and because the handshake's messages, which are written without it, are
read before any telemetry is (`Stages`); `Stream` then says of the content of the pipe that every
header is followed by its payload and that the last is a header exactly while somebody has its
payload still to write. `NothingMissedHolds` follows each number from the call to the reader
(`Numbered`): of each thread, what the reader has handed over and what stands before a message in the
pipe are the numbers up to that message, without a gap, and after the last one all that was sent for;
and a launched target calls nothing before its agent has been told to trace (`Callers`).

Of the hooks: `HookedIsActiveHolds` and `RemovalCompleteHolds`, for any modules, functions and loading
threads. The invariant relates three lists of the same functions: what is patched, what MinHook has in
its list, and what InspecThor has in its own. Up to the removal, MinHook's list has every
hooked function whose module has stayed, and what is enabled there is patched (`Active`); as long as no
hooked module has gone, nothing is patched that MinHook does not have as enabled (`Patches`). That is
why `MH_Uninitialize` takes back all of them, and why it is enough to except the functions in `lost`.

**LaunchAndListenProofs.** Of the launch: `NotFreedInUseHolds`: no path is freed under the remote thread that reads
it, for any number of attempts. The invariant is stated job by job (`JobInv`), since a step of one
job leaves the other's untouched (`UntouchedKeeps`): later attempts have made no remote call, the
present one has made none before the step that makes it, its memory is allocated by then, and a
helper is alive only while its job waits for it. The last is what keeps a helper's late write from
belonging to a later attempt. `CleanOutcomeHolds` rests on that invariant and three more: what a job
has open is a function of what it does next, but for the two output pipes, which may not have been
made (`Holds`); the controller has a write end open only between the step that makes the pipe and
the one that creates its process, whichever process inherits it meanwhile (`WritersInv`); and the
target is suspended until the launch is over (`TargetInv`).

Of the listeners: all four safety properties, for any pids and agents and any
number of launches. `OneListener` (a pid is in the set exactly while it has a listener, or one start
is about to add it) gives `AskedIsListenedHolds`; `ConfigTaken` (only the launch worker, before it has
taken the configuration, is ahead of it) with `AgentInv` gives `ServedAreConfiguredHolds`; `Client` and
`ClientInv` say which agent is at the pipe of a listener in the middle of a handshake and how far it
has come, which `RegisteredIsServedHolds` needs to exclude every other end of a step; `Exit` says
that after the window has been closed with nothing under way nothing begins any more.

**WorkersProofs.** `CancelledHandlesOpenHolds`, for any number of folders: a worker is in a
read only while its handle is registered, and unregisters it before it closes it.
`ShownIsSelectedHolds`, for any number of files and requests: what is shown, completed, or on its way
under the present request number is of the selected file (`ResultsFit`). Between the two steps of
`PrepareStaticAnalysisTarget` a completed result may be of another file, and nothing is shown then;
the second step drops it. A thread of an earlier request carries an earlier number.
`OneLateMergeHolds`, for any number of launches: a pass has one content of each chunk (`PassOf`), and a
scanner that has been left behind in the middle of a merge has nothing in the table yet (`MergedOnce`),
because the table was cleared after its token had passed.
`WatchersTellHistoryHolds`, for any keys, items and limits of the lists. Items are numbered as they
begin, so that what has been compared is an initial segment (`Past`): the watch's first listing and
every row of a Created lie in it, and what begins later is announced once. An item that is over is in no
listing and on no key any more (`Over`), so that it cannot end twice. What a list still has after rows were
appended and the oldest trimmed is one lemma (`Grown`) for all the lists, for the order of the
new rows among themselves is not known.

**ActivityProofs.** `ReconstructionExactHolds`, for any files, handles, data and capture limit.
Beside the property the invariant says that the view follows every handle to its file and that what is
open exists (`Followed`). A write to an unwritten file starts from an empty reconstruction; that is
right because the property itself says that such a file is empty. A write that is neither overlapped nor
of a mistaken file goes where the pointer is, so that an untouched prefix, a gap and a capture that
is too short are all that can make it differ, and the last two take away the name complete.
`OneRowPerProcessHolds`, for any pids and any lateness. The view's two loops are followed by a relation
between the rows and the events taken so far (`Joined`): the first rows are the calls, each marked with
what it has been joined with, and the others are the kernel's events that fit no call. That relation is
proved for all lists by induction over their lengths. The invariant of the processes
themselves is small: each source tells of each beginning and each end once (`ToldOnce`).
`FinalStateTrueHolds`, for any threads, handles, keys and calls. The view knows the key of each open handle
that is not misread and whose opening has been reported (`Following`); a call that has been made and
not reported keeps its handle open and its key (`Calling`); and what it is going to say is still so when
it is reported, or its item is in doubt (`Reporting`). Without the last the property is not
inductive: a report may arrive after any number of other calls. All calls about a key share one
description (`Makes`), and all steps that are not about one another (`Elsewhere`).

**InductionLemmas.** The induction theorems of the library take an operator as a parameter, which
the installed provers cannot instantiate. Stated of sets, with the well-foundedness of the numbers, they
can be used: a set of numbers has a least element (`Smallest`), and a set that holds 0 and the next of
each holds them all (`Climbing`). `Recursion` gives the values of a recursive function over `0 .. L`.

**Only model-checked**: all liveness (`LaunchEnds`, `TargetEndNoticed`, `EtwStopsAtTheEnd`, `StopEnds`,
`DetourReturns`, `HooksRemoved`, `LaunchesEnd`, `StoppedListenersEnd`, `StoppedWorkersEnd`,
`WhatStandsIsRecovered`), since the prover has no rule for fairness and `ENABLED`; and the findings of
section 4, which are runs that end in a violation. No module proved about has a `RECURSIVE` operator:
recursion is written as recursive functions.


## 6. Not modelled, and what is left open

`PROJECT.json` lists every component with what is left out of it and why, and every hazard at
its line; a note there says which part of it no property covers. Not listed there are three milder
ones: a child injected by its parent's agent and by the controller as well; strings of late
telemetry under the token of the moment (`gui.cpp:5934`); and the caller filter's cache, which keeps
the path of a module after another has taken its place in memory (`src/src/agent/filter.cpp:68`).

* **Caller filter, child policy**: decisions without state but for that cache. Their outcomes are inputs
  of `AgentPipe` (`ShouldTrace`) and `ProcessTreeManager`; a property of either would repeat its table.
* **Detours**: about 420 functions that save and restore what the original returns. What all have in
  common, the guard, the filter and the callback, is in `AgentPipe`; each family's parameters are data.
* **Network view**: per address, the last call that named it; `recvfrom` and `accept` with no address
  leave it out. The views of memory, DLLs, IPC, services, injections, anti-analysis, cryptography
  and COM filter and count calls by name: their result is wording.
* **Sysmon assistant**: other programs do the work; its refresh is started by the GUI thread alone.
* **Specialized activity store**: three lists with a limit, each method one critical section.
* **Target resolver, AI client, shellcode runner, GUI drawing, generated and third-party code**: a
  function from texts to a text; one request to a service; a host of foreign code; output; not this
  program's own logic.

Left out on purpose: texts, formats and layout; decoding of ETW records; what a string is; what a
static analysis finds; JSON as text; network and AI services; the behaviour of Windows beyond the
outcomes a call may have. The race on the folder watcher's sets of known files (`gui.cpp:10921`
reads one without the lock while other threads insert) belongs to the rows of changes, which are
not modelled.


## 7. What could come next

| step | modules | properties and theorems |
|---|---|---|
| 1 | proofs | the abstract specifications below, each with the refinement as a theorem; the safety half of the liveness properties: from which states a thread can always go on |
| 2 | `FolderFileWatcher` | the rows of changes: a rename is one row, whichever thread reads its second half |
| 3 | `RegistryActivity` | keys that are renamed, and hives that are loaded |

Abstract specifications worth stating beside `SessionHistory`: a lossless ordered channel that
`AgentPipe` implements for a launched target; a single-owner trace (stopped, starting, running,
stopping) that `EtwMonitor` implements; and "at most one analysis at a time" for `SessionLifecycle`,
which the stale threads of section 4 refute today and which a repaired program should meet.
