---------------------------- MODULE PipeListeners ----------------------------
(***************************************************************************)
(* The additional pipe listeners of the controller and the agents that     *)
(* come to them (src/src/controller/controller.cpp: the listener threads,  *)
(* StartAdditionalPipeListener, StartAdditionalPipeListenerForPid,         *)
(* StopAdditionalPipeListener and main; AgentThread in src/src/agent/      *)
(* agent.cpp).                                                             *)
(*                                                                         *)
(* A session has one listener per pid under which agents may come: that of *)
(* its root, or of every child when the root has no agent.  A listener     *)
(* serves one handshake at a time and leaves a reader thread behind.  It   *)
(* is told to stop by a flag that it reads between two handshakes, and by  *)
(* a connection that is closed at once.                                    *)
(*                                                                         *)
(* A pid may come back in a later session.  Time-outs may strike at any    *)
(* moment, and an agent may stall, die or fail at any.                     *)
(***************************************************************************)
EXTENDS Naturals, FiniteSets

CONSTANTS
    Pids, NoPid,    \* pids that listeners are asked for; the pid of no target
    Agents,         \* the agents that are loaded into processes
    MaxLoad         \* bounds the launches and the agents loaded

ASSUME ListenersAssumption ==
    /\ NoPid \notin Pids
    /\ Agents \cap {"none", "listening", "left", "stop"} = {}
    /\ MaxLoad \in Nat

Starters == {"launch", "child"}

VARIABLES
    listening,      \* g_AdditionalPipeListenerRunning
    pids,           \* g_AdditionalPipePids
    listener,       \* of each pid: what its listener thread does next
    instance,       \* of each pid: who is at the pipe instance of its listener
    readers,        \* the agents whose pipe a reader thread has
    joinable,       \* g_PipeThreads has threads that are not detached
    session,        \* the launches so far
    target,         \* g_Target.pid: one of Pids, or another or none
    config,         \* g_ActiveTraceConfig: the launch it was made for
    starter,        \* who starts a listener: the launch, and who has seen a child
    window,         \* the main thread: the GUI thread, up to the end of main
    stage,          \* of each agent: what it does next
    pipeOf,         \* of each agent: the pid of its pipe
    said, got,      \* of each agent: what it wrote that is not read, the config it has
    asked, busy,    \* history: the pids asked for; what was under way at the last stop
    born            \* history: the session in which an agent was loaded

threadVars == <<listening, pids, listener, instance, readers, joinable>>
sessionVars == <<session, target, config, starter, window>>
agentVars == <<stage, pipeOf, said, got, born>>
historyVars == <<asked, busy>>
listenerVars == <<threadVars, sessionVars, agentVars, historyVars>>

ListenersInit ==
    /\ listening = FALSE /\ pids = {}
    /\ listener = [p \in Pids |-> "none"] /\ instance = [p \in Pids |-> "none"]
    /\ readers = {} /\ joinable = FALSE
    /\ session = 0 /\ target = NoPid /\ config = 0
    /\ starter = [s \in Starters |-> [at |-> "idle", pid |-> NoPid]]
    /\ window = [at |-> "open", left |-> {}, next |-> "launch"]
    /\ stage = [a \in Agents |-> "none"] /\ pipeOf = [a \in Agents |-> NoPid]
    /\ said = [a \in Agents |-> "nothing"] /\ got = [a \in Agents |-> 0]
    /\ born = [a \in Agents |-> 0]
    /\ asked = {} /\ busy = FALSE

Begun == session + Cardinality({a \in Agents : stage[a] # "none"})
           + IF window.at # "open" /\ window.next = "launch" THEN 1 ELSE 0
\* The process of an agent is gone, or the agent has closed its end.
Over(a) == stage[a] \in {"gave up", "lost", "failed", "dead"}
Connected(a) == instance[pipeOf[a]] = a \/ a \in readers
ListenerGoes(p, from, to) == listener[p] = from /\ listener' = [listener EXCEPT ![p] = to]
\* main keeps g_PipeThreadsMutex from the detaching to its return.
ThreadsLocked == window.at = "leave"

-----------------------------------------------------------------------------
(* AdditionalPipeListenerThread and PerformAdditionalPipeHandshake.        *)

\* Variant of LookAtRunning: a listener goes on while its pid is in the set.
LookAtPids(p) ==
    /\ ListenerGoes(p, "loop", IF p \in pids THEN "create" ELSE "erase")
    /\ UNCHANGED <<listening, pids, instance, readers, joinable>>
LookAtRunning(p) ==
    /\ ListenerGoes(p, "loop", IF listening THEN "create" ELSE "erase")
    /\ UNCHANGED <<listening, pids, instance, readers, joinable>>
CreatePipe(p) ==
    /\ \/ ListenerGoes(p, "create", "connect") /\ instance' = [instance EXCEPT ![p] = "listening"]
       \/ ListenerGoes(p, "create", "loop") /\ UNCHANGED instance
    /\ UNCHANGED <<listening, pids, readers, joinable>>
LookAtDeadline(p) ==
    /\ \/ listening /\ ListenerGoes(p, "connect", "poll")
       \/ ListenerGoes(p, "connect", "close")
    /\ UNCHANGED <<listening, pids, instance, readers, joinable>>
\* A client that has come and gone makes the instance useless until the deadline.
ConnectPipe(p) ==
    /\ \/ /\ \/ instance[p] = "stop"
             \/ instance[p] \in Agents /\ ~Over(instance[p])
          /\ ListenerGoes(p, "poll", "register")
       \/ /\ \/ instance[p] \in {"listening", "left"}
             \/ instance[p] \in Agents /\ Over(instance[p])
          /\ ListenerGoes(p, "poll", "connect")
       \/ ListenerGoes(p, "poll", "close")
    /\ UNCHANGED <<listening, pids, instance, readers, joinable>>

\* ReadPipeExact waits, without a limit, for what the client writes or for its end.
ReadFrom(p, place, what, to) ==
    \E a \in Agents :
        /\ instance[p] = a /\ said[a] = what
        /\ ListenerGoes(p, place, to)
        /\ said' = [said EXCEPT ![a] = "nothing"]
ReadEnds(p, place) ==
    /\ \/ instance[p] = "left"
       \/ \E a \in Agents : instance[p] = a /\ said[a] = "nothing" /\ Over(a)
    /\ ListenerGoes(p, place, "close")
    /\ UNCHANGED said

ReadRegistration(p) ==
    /\ ReadFrom(p, "register", "register", "config") \/ ReadEnds(p, "register")
    /\ UNCHANGED <<listening, pids, instance, readers, joinable, got>>

\* Variant of WriteConfig: no configuration once the listeners are stopped.
WriteConfigRunning(p) ==
    \E a \in Agents :
        /\ instance[p] = a
        /\ ListenerGoes(p, "config", IF Over(a) \/ ~listening THEN "close" ELSE "ready")
        /\ got' = IF Over(a) THEN got ELSE [got EXCEPT ![a] = config]
        /\ UNCHANGED <<listening, pids, instance, readers, joinable, said>>

WriteConfig(p) ==
    \E a \in Agents :
        /\ instance[p] = a
        /\ ListenerGoes(p, "config", IF Over(a) THEN "close" ELSE "ready")
        /\ got' = IF Over(a) THEN got ELSE [got EXCEPT ![a] = config]
        /\ UNCHANGED <<listening, pids, instance, readers, joinable, said>>
ReadReady(p) ==
    /\ \/ ReadFrom(p, "ready", "ready", "hand over")
       \/ ReadFrom(p, "ready", "error", "close")
       \/ ReadEnds(p, "ready")
    /\ UNCHANGED <<listening, pids, instance, readers, joinable, got>>

\* Variant of HandOver: the listener ends with its first handshake.
HandOverOnce(p) ==
    /\ ~ThreadsLocked
    /\ ListenerGoes(p, "hand over", "erase")
    /\ readers' = readers \cup {instance[p]} /\ joinable' = TRUE
    /\ instance' = [instance EXCEPT ![p] = "none"]
    /\ UNCHANGED <<listening, pids>>

HandOver(p) ==
    /\ ~ThreadsLocked
    /\ ListenerGoes(p, "hand over", "loop")
    /\ readers' = readers \cup {instance[p]} /\ joinable' = TRUE
    /\ instance' = [instance EXCEPT ![p] = "none"]
    /\ UNCHANGED <<listening, pids>>
ClosePipe(p) ==
    /\ ListenerGoes(p, "close", "loop")
    /\ instance' = [instance EXCEPT ![p] = "none"]
    /\ UNCHANGED <<listening, pids, readers, joinable>>
ErasePid(p) ==
    /\ ListenerGoes(p, "erase", "none")
    /\ pids' = pids \ {p}
    /\ UNCHANGED <<listening, instance, readers, joinable>>

ListenerThread(p) ==
    /\ \/ /\ \/ LookAtRunning(p) \/ CreatePipe(p) \/ LookAtDeadline(p) \/ ConnectPipe(p)
             \/ HandOver(p) \/ ClosePipe(p) \/ ErasePid(p)
          /\ UNCHANGED <<said, got>>
       \/ ReadRegistration(p) \/ WriteConfig(p) \/ ReadReady(p)
    /\ UNCHANGED <<sessionVars, stage, pipeOf, born, historyVars>>

\* PipeReaderThread, whose reading AgentPipe has: it ends with its agent.
ReaderGoes(a) ==
    /\ a \in readers /\ Over(a)
    /\ readers' = readers \ {a}
    /\ UNCHANGED <<listening, pids, listener, instance, joinable, sessionVars, agentVars, historyVars>>

-----------------------------------------------------------------------------
(* Starting: StartAdditionalPipeListener in the launch worker, and         *)
(* StartAdditionalPipeListenerForPid in it and in QueueChildProcess-       *)
(* Instrumentation.                                                        *)

StarterGoes(s, from, to) ==
    /\ starter[s].at = from
    /\ starter' = [starter EXCEPT ![s] = [at |-> to, pid |-> IF to = "idle" THEN NoPid ELSE @.pid]]

\* The worker launches the target, which may fail; a root with an agent gets a
\* reader, whose thread is added to the list.
Launches ==
    \/ /\ StarterGoes("launch", "configure", "start") /\ target' \in Pids \cup {NoPid}
       /\ UNCHANGED joinable \/ (~ThreadsLocked /\ joinable' = TRUE)
    \/ StarterGoes("launch", "configure", "idle") /\ UNCHANGED <<target, joinable>>

\* Variant of TakeConfig: the configuration of the first launch stays.
TakeConfigOnce ==
    /\ Launches
    /\ config' = IF config = 0 THEN session ELSE config
    /\ UNCHANGED <<listening, pids, listener, instance, readers, session, window, agentVars, historyVars>>

TakeConfig ==
    /\ Launches
    /\ config' = session
    /\ UNCHANGED <<listening, pids, listener, instance, readers, session, window, agentVars, historyVars>>

\* SetTargetProcess({}) of a reader of an earlier session may come before it.
StartAdditionalPipeListener ==
    /\ target' \in {target, NoPid}
    /\ IF listening
       THEN StarterGoes("launch", "start", "idle") /\ UNCHANGED <<listening, asked>>
       ELSE /\ starter["launch"].at = "start"
            /\ starter' = [starter EXCEPT !["launch"] = [at |-> "ask", pid |-> target']]
            /\ listening' = TRUE /\ asked' = {}
    /\ UNCHANGED <<pids, listener, instance, readers, joinable, session, config, window, agentVars, busy>>

\* QueueChildProcessInstrumentation, when the root has no agent.
QueueChild(p) ==
    /\ session > 0 /\ p # target /\ starter["child"].at = "idle"
    /\ starter' = [starter EXCEPT !["child"] = [at |-> "ask", pid |-> p]]
    /\ UNCHANGED <<threadVars, session, target, config, window, agentVars, historyVars>>

LookAtPid(s) ==
    /\ StarterGoes(s, "ask", IF starter[s].pid # NoPid /\ listening THEN "insert" ELSE "idle")
    /\ UNCHANGED <<threadVars, session, target, config, window, agentVars, historyVars>>

\* The pid of a listener that is about to end is still in the set: that start
\* is lost, and does not count as asked.
InsertPid(s) ==
    LET p == starter[s].pid
    IN  /\ StarterGoes(s, "insert", IF p \in pids THEN "idle" ELSE "push")
        /\ pids' = pids \cup {p}
        /\ asked' = IF listening /\ listener[p] # "erase" THEN asked \cup {p} ELSE asked
        /\ UNCHANGED <<listening, listener, instance, readers, joinable, session, target, config,
                       window, agentVars, busy>>
PushListener(s) ==
    /\ ~ThreadsLocked
    /\ StarterGoes(s, "push", "idle")
    /\ listener' = [listener EXCEPT ![starter[s].pid] = "loop"]
    /\ joinable' = TRUE
    /\ UNCHANGED <<listening, pids, instance, readers, session, target, config, window, agentVars, historyVars>>

Starter(s) == LookAtPid(s) \/ InsertPid(s) \/ PushListener(s)
LaunchWorker == TakeConfig \/ StartAdditionalPipeListener

-----------------------------------------------------------------------------
(* Stopping, by a new launch and by the end of the program, and main.      *)

\* A handshake that has a client, or a start, is under way.
UnderWay ==
    \/ \E p \in Pids : listener[p] \in {"poll", "register", "config", "ready", "hand over"}
    \/ \E s \in Starters : starter[s].at # "idle"

\* Variant of StopAdditionalPipeListener: the flag is left alone.
StopListenersQuietly(next) ==
    /\ window.at = "open"
    /\ next = "launch" => Begun < MaxLoad /\ starter["launch"].at = "idle"
    /\ asked' = {} /\ busy' = (next = "exit" /\ UnderWay)
    /\ window' = [at |-> IF listening THEN "snapshot" ELSE "poke", left |-> {}, next |-> next]
    /\ UNCHANGED <<threadVars, session, target, config, starter, agentVars>>

StopAdditionalPipeListener(next) ==
    /\ window.at = "open"
    /\ next = "launch" => Begun < MaxLoad /\ starter["launch"].at = "idle"
    /\ listening' = FALSE /\ asked' = {} /\ busy' = (next = "exit" /\ UnderWay)
    /\ window' = [at |-> IF listening THEN "snapshot" ELSE "poke", left |-> {}, next |-> next]
    /\ UNCHANGED <<pids, listener, instance, readers, joinable, session, target, config, starter, agentVars>>

SnapshotPids ==
    /\ window.at = "snapshot"
    /\ window' = [window EXCEPT !.at = "poke", !.left = pids]
    /\ UNCHANGED <<threadVars, session, target, config, starter, agentVars, historyVars>>

\* CreateFileW reaches an instance that waits for a client, and no other.
PokePipe(p) ==
    /\ window.at = "poke" /\ p \in window.left
    /\ window' = [window EXCEPT !.at = IF instance[p] = "listening" THEN "hang up" ELSE "poke",
                                !.left = @ \ {p}]
    /\ instance' = IF instance[p] = "listening" THEN [instance EXCEPT ![p] = "stop"] ELSE instance
    /\ UNCHANGED <<listening, pids, listener, readers, joinable, session, target, config, starter, agentVars, historyVars>>
\* The listener may have closed the instance already.
HangUp ==
    /\ window.at = "hang up"
    /\ window' = [window EXCEPT !.at = "poke"]
    /\ instance' = [p \in Pids |-> IF instance[p] = "stop" THEN "left" ELSE instance[p]]
    /\ UNCHANGED <<listening, pids, listener, readers, joinable, session, target, config, starter, agentVars, historyVars>>

\* The launch worker begins, or main goes on.
StopEnds ==
    /\ window.at = "poke" /\ window.left = {}
    /\ IF window.next = "launch"
       THEN /\ window' = [window EXCEPT !.at = "open"]
            /\ starter' = [starter EXCEPT !["launch"].at = "configure"]
            /\ session' = session + 1
       ELSE window' = [window EXCEPT !.at = "detach"] /\ UNCHANGED <<session, starter>>
    /\ UNCHANGED <<threadVars, target, config, agentVars, historyVars>>

DetachThreads ==
    /\ window.at = "detach"
    /\ window' = [window EXCEPT !.at = "leave"]
    /\ joinable' = FALSE
    /\ UNCHANGED <<listening, pids, listener, instance, readers, session, target, config, starter, agentVars, historyVars>>
\* main returns and gives the lock back; then the vector of threads is destroyed.
Leave ==
    /\ \/ window.at = "leave" /\ window' = [window EXCEPT !.at = "returned"]
       \/ window.at = "returned" /\ window' = [window EXCEPT !.at = "destroyed"]
    /\ UNCHANGED <<threadVars, session, target, config, starter, agentVars, historyVars>>

Window ==
    SnapshotPids \/ (\E p \in Pids : PokePipe(p)) \/ HangUp \/ StopEnds \/ DetachThreads \/ Leave

-----------------------------------------------------------------------------
(* AgentThread, up to its last loop; what follows is in AgentPipe.         *)

AgentGoes(a, from, to) == stage[a] = from /\ stage' = [stage EXCEPT ![a] = to]

\* Agents are loaded into processes of a target that runs; which of those that
\* are all alike is no choice.
LoadAgent(a, p) ==
    /\ a = CHOOSE b \in Agents : stage[b] = "none"
    /\ Begun < MaxLoad /\ session > 0 /\ starter["launch"].at = "idle"
    /\ AgentGoes(a, "none", "connect")
    /\ pipeOf' = [pipeOf EXCEPT ![a] = p] /\ born' = [born EXCEPT ![a] = session]
    /\ UNCHANGED <<threadVars, sessionVars, said, got, historyVars>>
\* It tries fifteen times and then leaves the process as it is.
TryPipe(a) ==
    /\ stage[a] = "connect"
    /\ IF instance[pipeOf[a]] = "listening"
       THEN /\ AgentGoes(a, "connect", "register")
            /\ instance' = [instance EXCEPT ![pipeOf[a]] = a]
       ELSE AgentGoes(a, "connect", "gave up") /\ UNCHANGED instance
    /\ UNCHANGED <<listening, pids, listener, readers, joinable, sessionVars, pipeOf, said, got, born, historyVars>>
\* A write, after which the agent goes on, or its end when the pipe is gone.
Write(a, from, what, to) ==
    /\ stage[a] = from
    /\ stage' = [stage EXCEPT ![a] = IF Connected(a) THEN to ELSE "lost"]
    /\ said' = IF Connected(a) THEN [said EXCEPT ![a] = what] ELSE said
WriteRegistration(a) ==
    /\ Write(a, "register", "register", "read config")
    /\ UNCHANGED <<threadVars, sessionVars, pipeOf, got, born, historyVars>>
\* Without an answer the agent goes on with the default configuration.
ReadAnswer(a) ==
    /\ AgentGoes(a, "read config", "install")
    /\ got[a] # 0 \/ ~Connected(a)
    /\ UNCHANGED <<threadVars, sessionVars, pipeOf, said, got, born, historyVars>>
ActivateHooks(a) ==
    /\ \E to \in {"report ready", "report error"} : AgentGoes(a, "install", to)
    /\ UNCHANGED <<threadVars, sessionVars, pipeOf, said, got, born, historyVars>>
ReportHooks(a) ==
    /\ \/ Write(a, "report ready", "ready", "trace")
       \/ Write(a, "report error", "error", "failed")
    /\ UNCHANGED <<threadVars, sessionVars, pipeOf, got, born, historyVars>>

AgentSteps(a) ==
    \/ TryPipe(a) \/ WriteRegistration(a) \/ ReadAnswer(a) \/ ActivateHooks(a)
    \/ ReportHooks(a)

ProcessDies(a) ==
    /\ stage[a] # "none" /\ ~Over(a)
    /\ stage' = [stage EXCEPT ![a] = "dead"]
    /\ UNCHANGED <<threadVars, sessionVars, pipeOf, said, got, born, historyVars>>

-----------------------------------------------------------------------------
\* The end of the process ends every thread.
ListenersNext ==
    /\ window.at # "destroyed"
    /\ \/ \E p \in Pids : ListenerThread(p) \/ QueueChild(p)
       \/ \E a \in Agents :
             \/ AgentSteps(a) \/ ReaderGoes(a) \/ ProcessDies(a)
             \/ \E p \in Pids : stage[a] = "none" /\ LoadAgent(a, p)
       \/ LaunchWorker \/ Window
       \/ \E s \in Starters : Starter(s)
       \/ \E next \in {"launch", "exit"} : StopAdditionalPipeListener(next)

\* Threads run; the analyst need not launch or close, and agents may stall.
ListenersFairness ==
    /\ \A p \in Pids : WF_listenerVars(window.at # "destroyed" /\ ListenerThread(p))
    /\ \A s \in Starters : WF_listenerVars(window.at # "destroyed" /\ Starter(s))
    /\ WF_listenerVars(LaunchWorker) /\ WF_listenerVars(Window)

ListenerPlaces ==
    {"none", "loop", "create", "connect", "poll", "register", "config", "ready",
     "hand over", "close", "erase"}
AgentPlaces ==
    {"none", "connect", "register", "read config", "install", "report ready",
     "report error", "trace", "gave up", "lost", "failed", "dead"}

ListenersTypeOK ==
    /\ listening \in BOOLEAN /\ pids \subseteq Pids
    /\ listener \in [Pids -> ListenerPlaces]
    /\ instance \in [Pids -> {"none", "listening", "left", "stop"} \cup Agents]
    /\ readers \subseteq Agents /\ joinable \in BOOLEAN
    /\ session \in 0 .. MaxLoad /\ target \in Pids \cup {NoPid} /\ config \in 0 .. session
    /\ starter \in [Starters -> [at : {"idle", "configure", "start", "ask", "insert", "push"},
                                 pid : Pids \cup {NoPid}]]
    /\ window \in [at : {"open", "snapshot", "poke", "hang up", "detach", "leave", "returned", "destroyed"},
                   left : SUBSET Pids, next : {"launch", "exit"}]
    /\ stage \in [Agents -> AgentPlaces] /\ pipeOf \in [Agents -> Pids \cup {NoPid}]
    /\ said \in [Agents -> {"nothing", "register", "ready", "error"}]
    /\ got \in [Agents -> 0 .. session] /\ born \in [Agents -> 0 .. session]
    /\ asked \subseteq Pids /\ busy \in BOOLEAN

\* A pid has one listener at most, and none more is started while it has one.
\* While the listeners run, every pid that was asked for has one that goes on;
\* only a start that met the listener of an earlier session between its last
\* look at the flag and its leaving of the set has been lost.
AskedIsListened ==
    /\ \A p \in Pids :
          Cardinality({s \in Starters : starter[s].at = "push" /\ starter[s].pid = p})
             + (IF listener[p] = "none" THEN 0 ELSE 1) = IF p \in pids THEN 1 ELSE 0
    /\ listening =>
          \A p \in asked :
             \/ listener[p] \notin {"none", "erase"}
             \/ \E s \in Starters : starter[s].at = "push" /\ starter[s].pid = p

\* A process whose pipe a reader serves has its hooks, with the configuration
\* of the launch that it belongs to or of a later one.
ServedAreConfigured ==
    \A a \in readers :
        stage[a] \in {"trace", "dead"} /\ got[a] > 0 /\ got[a] >= born[a]

\* main detaches every thread: none that could be joined is left when the list
\* is destroyed, which would end the program by std::terminate, unless a
\* handshake or a start was under way when the window was closed.
ExitDetachesAll == window.at = "destroyed" /\ joinable => busy

\* A handshake whose registration was read ends with a reader thread for the
\* agent, even if the listeners are stopped or the deadline passes before it is
\* done; only an agent whose hooks fail or whose process ends is turned away.
RegisteredIsServed ==
    [][\A p \in Pids, a \in Agents :
          listener[p] \in {"config", "ready", "hand over"} /\ instance[p] = a
          => \/ listener'[p] \in {"config", "ready", "hand over"} /\ instance'[p] = a
             \/ a \in readers' \/ Over(a)]_listenerVars

\* Listeners that are stopped end, unless one waits for what an agent that
\* has stalled never writes: no time-out ends that.
StoppedListenersEnd ==
    \A p \in Pids :
        ~listening ~>
            \/ listening \/ listener[p] = "none" \/ window.at = "destroyed"
            \/ \E a \in Agents :
                  /\ instance[p] = a /\ listener[p] \in {"register", "ready"}
                  /\ ~Over(a) /\ said[a] = "nothing"

=============================================================================
