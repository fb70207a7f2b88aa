------------------------------- MODULE AgentPipe -------------------------------
(***************************************************************************)
(* The agent in one monitored process and the controller's end of its pipe: *)
(* the handshake (AgentThread in src/src/agent/agent.cpp against             *)
(* PerformPipeHandshake in injector.cpp or PerformAdditionalPipeHandshake in *)
(* controller.cpp), the telemetry that the process's threads send from its   *)
(* hooked calls (LogTelemetry in hooks.cpp, SendJsonPayload), the reader     *)
(* that hands it to the controller (PipeReaderThread), and the way out when  *)
(* either end goes away.                                                    *)
(*                                                                         *)
(* A root is created suspended and served by the injector, which terminates *)
(* it when the handshake fails and resumes it once a reader serves its pipe. *)
(* A child runs while it is injected and is served by a listener, which     *)
(* only closes the pipe.                                                    *)
(*                                                                         *)
(* The pipe carries one item per WriteFile, so a message is a header and,   *)
(* when it has one, a payload.  A message is known by who sent it and by    *)
(* its number; the JSON text, the trace configuration and the names of the  *)
(* hooks are left out, and time-outs may strike at any moment.              *)
(***************************************************************************)
EXTENDS Integers, Sequences

CONSTANTS
    Threads,         \* the threads of the process that make hooked calls
    AgentThread,     \* the agent's own thread
    Nobody,          \* holder of a free mutex
    Kinds,           \* which processes are looked at: "root", "child"
    PipeSize,        \* writes that the pipe holds before WriteFile waits
    MaxCalls,        \* bound: hooked calls per thread
    Statuses,        \* messages that the agent sends after it is ready
    MayFail          \* hooks may fail, processes and the controller may end

ASSUME PipeAssumption ==
    /\ AgentThread \notin Threads /\ Nobody \notin Threads \cup {AgentThread}
    /\ Kinds \subseteq {"root", "child"}
    /\ PipeSize \in Nat \ {0} /\ MaxCalls \in Nat /\ Statuses \in Nat
    /\ MayFail \in BOOLEAN

Senders == Threads \cup {AgentThread}

VARIABLES
    kind,            \* root or child
    proc,            \* the process: suspended, running or gone
    agent,           \* AgentThread: what it does next
    hooks,           \* the detours are active
    callback,        \* g_TelemetryCallback is set
    at,              \* what each thread does next in a detour or in SendJsonPayload
    callbackMutex,   \* holder of g_CallbackMutex
    pipeMutex,       \* holder of g_PipeMutex
    made,            \* number of the last call or status of each thread
    client,          \* the agent's end of the pipe, g_PipeHandle
    server,          \* the controller's end: what its thread does next
    toServer,        \* what the agent wrote and the controller has not read
    toAgent,         \* what the controller wrote and the agent has not read
    header,          \* the header whose payload the reader wants, <<>> if none
    received         \* what the reader has handed over

process == <<kind, proc>>
locks   == <<callbackMutex, pipeMutex>>
pipe    == <<client, toServer, toAgent>>
reader  == <<server, header, received>>
vars    == <<process, agent, hooks, callback, at, locks, made, pipe, reader>>

Init ==
    /\ kind \in Kinds
    /\ proc = IF kind = "root" THEN "suspended" ELSE "running"
    /\ agent = "connect" /\ hooks = FALSE /\ callback = FALSE
    /\ at = [s \in Senders |-> "out"]
    /\ callbackMutex = Nobody /\ pipeMutex = Nobody
    /\ made = [s \in Senders |-> 0]
    /\ client = "none" /\ toServer = <<>> /\ toAgent = <<>>
    /\ server = "connect" /\ header = <<>> /\ received = <<>>

ServerOpen == server \notin {"failed", "ended"}
PipeWorks == client = "open" /\ ServerOpen
Item(what, s) == [what |-> what, by |-> s, n |-> made[s]]

\* WritePipeExact: WriteFile waits while the pipe is full.
WritePipe(what, s) ==
    /\ PipeWorks /\ Len(toServer) < PipeSize
    /\ toServer' = Append(toServer, Item(what, s))
    /\ UNCHANGED <<client, toAgent>>
WriteFails == ~PipeWorks /\ UNCHANGED pipe

-----------------------------------------------------------------------------
(* SendJsonPayload, by a thread in a detour or by the agent's thread.      *)

Goto(s, label) == at' = [at EXCEPT ![s] = label]
Release(mutex, s) == IF mutex = s THEN Nobody ELSE mutex
Return(s) ==
    /\ Goto(s, "out")
    /\ pipeMutex' = Release(pipeMutex, s)
    /\ callbackMutex' = Release(callbackMutex, s)

\* Variants of SendLock: without the mutex, and without waiting for it.
SendLockUnguarded(s) ==
    /\ at[s] = "lock"
    /\ Goto(s, "header")
    /\ UNCHANGED <<process, agent, hooks, callback, locks, made, pipe, reader>>
SendLockOrDrop(s) ==
    /\ at[s] = "lock"
    /\ IF pipeMutex = Nobody
       THEN pipeMutex' = s /\ Goto(s, "header") /\ UNCHANGED callbackMutex
       ELSE Return(s)
    /\ UNCHANGED <<process, agent, hooks, callback, made, pipe, reader>>

SendLock(s) ==
    /\ at[s] = "lock"
    /\ pipeMutex = Nobody
    /\ pipeMutex' = s
    /\ Goto(s, "header")
    /\ UNCHANGED <<process, agent, hooks, callback, callbackMutex, made, pipe, reader>>
SendHeader(s) ==
    /\ at[s] = "header"
    /\ \/ WritePipe("telemetry", s) /\ Goto(s, "payload") /\ UNCHANGED locks
       \/ WriteFails /\ Return(s)
    /\ UNCHANGED <<process, agent, hooks, callback, made, reader>>
SendPayload(s) ==
    /\ at[s] = "payload"
    /\ WritePipe("payload", s) \/ WriteFails
    /\ Return(s)
    /\ UNCHANGED <<process, agent, hooks, callback, made, reader>>

SendJsonPayload(s) == SendLock(s) \/ SendHeader(s) \/ SendPayload(s)

-----------------------------------------------------------------------------
(* A hooked call of the process: the detour and LogTelemetry.              *)

\* Variant of ShouldTrace: the agent's own calls are not excluded.
ShouldTraceAnyone(s) == TRUE

\* CallerFilter::ShouldTrace excludes the agent's own module.
ShouldTrace(s) == s # AgentThread

Call(t) ==
    /\ proc = "running" /\ at[t] = "out" /\ made[t] < MaxCalls
    /\ made' = [made EXCEPT ![t] = @ + 1]
    /\ Goto(t, IF hooks /\ ShouldTrace(t) THEN "log" ELSE "out")
    /\ UNCHANGED <<process, agent, hooks, callback, locks, pipe, reader>>

LogTelemetry(s) ==
    /\ at[s] = "log"
    /\ callbackMutex = Nobody
    /\ IF callback
       THEN callbackMutex' = s /\ Goto(s, "lock")
       ELSE UNCHANGED callbackMutex /\ Goto(s, "out")
    /\ UNCHANGED <<process, agent, hooks, callback, pipeMutex, made, pipe, reader>>

\* The code of a detour is gone with the agent's module: going on in it is an
\* access violation that ends the process.
Crash(t) ==
    /\ agent = "unloaded" /\ at[t] # "out"
    /\ proc' = "gone"
    /\ client' = "closed"
    /\ UNCHANGED <<kind, agent, hooks, callback, at, locks, made, toServer, toAgent, reader>>

Detour(t) ==
    /\ proc # "gone"
    /\ \/ agent # "unloaded" /\ (LogTelemetry(t) \/ SendJsonPayload(t))
       \/ Crash(t)

-----------------------------------------------------------------------------
(* AgentThread.                                                            *)

\* Fifteen attempts; the listener may be busy with other processes.
Connect ==
    /\ agent = "connect"
    /\ \/ /\ server = "connect"
          /\ client' = "open" /\ agent' = "register"
       \/ /\ ~ServerOpen \/ kind = "child"
          /\ agent' = "ended" /\ UNCHANGED client
    /\ UNCHANGED <<process, hooks, callback, at, locks, made, toServer, toAgent, reader>>

CloseClient == client' = "closed" /\ UNCHANGED <<toServer, toAgent>>

Register ==
    /\ agent = "register"
    /\ \/ WritePipe("register", AgentThread) /\ agent' = "config"
       \/ ~PipeWorks /\ CloseClient /\ agent' = "ended"
    /\ UNCHANGED <<process, hooks, callback, at, locks, made, reader>>

\* When the pipe breaks here the agent goes on with the default configuration.
ReadConfig ==
    /\ agent = "config"
    /\ IF toAgent # <<>> THEN toAgent' = Tail(toAgent)
                         ELSE ~ServerOpen /\ UNCHANGED toAgent
    /\ agent' = "install"
    /\ UNCHANGED <<process, hooks, callback, at, locks, made, client, toServer, reader>>

\* Variant of InstallHooks: no callback is registered.
InstallHooksOnly ==
    /\ agent = "install"
    /\ hooks' = TRUE
    /\ agent' = "ready"
    /\ UNCHANGED <<process, callback, at, locks, made, pipe, reader>>

InstallHooks ==
    /\ agent = "install"
    /\ \/ hooks' = TRUE /\ agent' = "callback"
       \/ MayFail /\ agent' = "error" /\ UNCHANGED hooks
    /\ UNCHANGED <<process, callback, at, locks, made, pipe, reader>>
RegisterTelemetryCallback ==
    /\ agent = "callback"
    /\ callbackMutex = Nobody
    /\ callback' = TRUE
    /\ agent' = "ready"
    /\ UNCHANGED <<process, hooks, at, locks, made, pipe, reader>>

\* Variant of Ready: the hooks stay when the controller is gone.
ReadyKeepsHooks ==
    /\ agent = "ready"
    /\ \/ WritePipe("ready", AgentThread) /\ agent' = "status"
       \/ ~PipeWorks /\ CloseClient /\ agent' = "ended"
    /\ UNCHANGED <<process, hooks, callback, at, locks, made, reader>>

\* The readiness message is written without g_PipeMutex.
Ready ==
    /\ agent = "ready"
    /\ \/ WritePipe("ready", AgentThread) /\ agent' = "status" /\ UNCHANGED hooks
       \/ ~PipeWorks /\ CloseClient /\ agent' = "ended" /\ hooks' = FALSE
    /\ UNCHANGED <<process, callback, at, locks, made, reader>>

\* AgentError and its text, then the pipe is closed.
ErrorHeader ==
    /\ agent = "error"
    /\ \/ WritePipe("error", AgentThread) /\ agent' = "error text"
       \/ ~PipeWorks /\ CloseClient /\ agent' = "ended"
    /\ UNCHANGED <<process, hooks, callback, at, locks, made, reader>>
ErrorText ==
    /\ agent = "error text"
    /\ \/ WritePipe("payload", AgentThread) /\ agent' = "close"
       \/ ~PipeWorks /\ CloseClient /\ agent' = "ended"
    /\ UNCHANGED <<process, hooks, callback, at, locks, made, reader>>
ErrorClose ==
    /\ agent = "close"
    /\ CloseClient
    /\ agent' = "ended"
    /\ UNCHANGED <<process, hooks, callback, at, locks, made, reader>>

\* SendAgentReadyStatus, SendAgentDiagnostic and SendHookStatuses.
SendStatus ==
    /\ agent = "status" /\ at[AgentThread] = "out"
    /\ IF made[AgentThread] < Statuses
       THEN /\ made' = [made EXCEPT ![AgentThread] = @ + 1]
            /\ Goto(AgentThread, "lock") /\ UNCHANGED agent
       ELSE agent' = "monitor" /\ UNCHANGED <<at, made>>
    /\ UNCHANGED <<process, hooks, callback, locks, pipe, reader>>

MonitorLock ==
    /\ agent = "monitor"
    /\ pipeMutex = Nobody
    /\ pipeMutex' = AgentThread
    /\ agent' = "peek"
    /\ Goto(AgentThread, IF hooks /\ ShouldTrace(AgentThread) THEN "log" ELSE "out")
    /\ UNCHANGED <<process, hooks, callback, callbackMutex, made, pipe, reader>>

\* PeekNamedPipe is hooked itself: it returns when its detour does.
MonitorPeek ==
    /\ agent = "peek" /\ at[AgentThread] = "out"
    /\ IF ServerOpen THEN agent' = "monitor" /\ UNCHANGED pipe
                     ELSE agent' = "remove" /\ CloseClient
    /\ pipeMutex' = Nobody
    /\ UNCHANGED <<process, hooks, callback, at, callbackMutex, made, reader>>
RemoveHooks ==
    /\ agent = "remove"
    /\ hooks' = FALSE
    /\ agent' = "unload"
    /\ UNCHANGED <<process, callback, at, locks, made, pipe, reader>>
Unload ==
    /\ agent = "unload"
    /\ agent' = "unloaded"
    /\ UNCHANGED <<process, hooks, callback, at, locks, made, pipe, reader>>

Agent ==
    /\ proc # "gone"
    /\ \/ Connect \/ Register \/ ReadConfig
       \/ InstallHooks \/ RegisterTelemetryCallback \/ Ready
       \/ ErrorHeader \/ ErrorText \/ ErrorClose
       \/ SendStatus \/ SendJsonPayload(AgentThread) \/ LogTelemetry(AgentThread)
       \/ MonitorLock \/ MonitorPeek \/ RemoveHooks \/ Unload

-----------------------------------------------------------------------------
(* The controller's end of the pipe.                                       *)

Clients == <<agent, hooks, callback, at, locks, made>>

\* The injector terminates the target, the listener only closes the pipe.
Refuse ==
    /\ server' = "failed"
    /\ proc' = IF kind = "root" THEN "gone" ELSE proc
    /\ client' = IF kind = "root" /\ client = "open" THEN "closed" ELSE client

\* A read finds an item, or that the agent has closed its end.
Broken == client = "closed" /\ toServer = <<>>

ServerConnect ==
    /\ server = "connect" /\ client # "none"
    /\ server' = "register"
    /\ UNCHANGED <<process, Clients, pipe, header, received>>
ServerRegister ==
    /\ server = "register"
    /\ \/ /\ toServer # <<>>
          /\ toServer' = Tail(toServer)
          /\ IF Head(toServer).what = "register"
             THEN server' = "config" /\ UNCHANGED <<proc, client>>
             ELSE Refuse
       \/ Broken /\ Refuse /\ UNCHANGED toServer
    /\ UNCHANGED <<kind, Clients, toAgent, header, received>>

ServerConfig ==
    /\ server = "config"
    /\ \/ /\ client = "open" /\ toAgent' = Append(toAgent, "config")
          /\ server' = "ready" /\ UNCHANGED <<proc, client>>
       \/ client = "closed" /\ Refuse /\ UNCHANGED toAgent
    /\ UNCHANGED <<kind, Clients, toServer, header, received>>

\* Whatever comes first must be the readiness message.
ServerReady ==
    /\ server = "ready"
    /\ \/ /\ toServer # <<>>
          /\ toServer' = Tail(toServer)
          /\ IF Head(toServer).what = "ready"
             THEN server' = "header" /\ UNCHANGED <<proc, client>>
             ELSE Refuse
       \/ Broken /\ Refuse /\ UNCHANGED toServer
    /\ UNCHANGED <<kind, Clients, toAgent, header, received>>

\* The injector waits for each message with a time-out, the listener only for
\* a client, and until it is stopped.
ServerTimesOut ==
    /\ server \in IF kind = "root" THEN {"connect", "register", "ready"} ELSE {"connect"}
    /\ kind = "root" \/ client # "none"
    /\ Refuse
    /\ UNCHANGED <<kind, Clients, toServer, toAgent, header, received>>

\* LaunchAndInject has succeeded: a reader serves the pipe, the target resumes.
Resume ==
    /\ proc = "suspended" /\ server \in {"header", "payload"}
    /\ proc' = "running"
    /\ UNCHANGED <<kind, Clients, pipe, reader>>

ReadHeader ==
    /\ server = "header" /\ toServer # <<>>
    /\ header' = Head(toServer) /\ toServer' = Tail(toServer)
    /\ server' = "payload"
    /\ UNCHANGED <<process, Clients, client, toAgent, received>>
ReadPayload ==
    /\ server = "payload" /\ toServer # <<>>
    /\ received' = Append(received, <<header, Head(toServer)>>)
    /\ header' = <<>> /\ toServer' = Tail(toServer)
    /\ server' = "header"
    /\ UNCHANGED <<process, Clients, client, toAgent>>
ReaderEnds ==
    /\ server \in {"header", "payload"} /\ Broken
    /\ server' = "ended"
    /\ UNCHANGED <<process, Clients, pipe, header, received>>

Server ==
    \/ ServerConnect \/ ServerRegister \/ ServerConfig \/ ServerReady
    \/ Resume \/ ReadHeader \/ ReadPayload \/ ReaderEnds

\* The process ends, or the controller does.
ProcessExits ==
    /\ MayFail
    /\ proc = "running"
    /\ proc' = "gone"
    /\ client' = IF client = "open" THEN "closed" ELSE client
    /\ UNCHANGED <<kind, Clients, toServer, toAgent, reader>>
ControllerExits ==
    /\ MayFail
    /\ ServerOpen
    /\ server' = "ended"
    /\ UNCHANGED <<process, Clients, pipe, header, received>>

Next ==
    \/ \E t \in Threads : Call(t) \/ Detour(t)
    \/ Agent \/ Server \/ ServerTimesOut
    \/ ProcessExits \/ ControllerExits

\* Threads that have started something go on; calls, time-outs and ends are
\* not promised.  The monitor loop holds g_PipeMutex for a moment every half a
\* second, so who waits for it gets it between two rounds.
Fairness ==
    /\ \A t \in Threads :
         WF_vars(Detour(t)) /\ SF_vars(proc # "gone" /\ agent # "unloaded" /\ SendLock(t))
    /\ WF_vars(Agent) /\ WF_vars(Server)

Spec == Init /\ [][Next]_vars /\ Fairness

-----------------------------------------------------------------------------
Items == [what : {"register", "ready", "error", "telemetry", "payload"},
          by : Senders, n : 0 .. MaxCalls + Statuses]

TypeOK ==
    /\ kind \in Kinds /\ proc \in {"suspended", "running", "gone"}
    /\ agent \in {"connect", "register", "config", "install", "callback", "ready",
                  "error", "error text", "close", "status", "monitor", "peek",
                  "remove", "unload", "ended", "unloaded"}
    /\ hooks \in BOOLEAN /\ callback \in BOOLEAN
    /\ at \in [Senders -> {"out", "log", "lock", "header", "payload"}]
    /\ callbackMutex \in Senders \cup {Nobody} /\ pipeMutex \in Senders \cup {Nobody}
    /\ made \in [Senders -> 0 .. MaxCalls + Statuses]
    /\ client \in {"none", "open", "closed"}
    /\ server \in {"connect", "register", "config", "ready", "header", "payload",
                   "failed", "ended"}
    /\ toServer \in Seq(Items) /\ Len(toServer) <= PipeSize
    /\ toAgent \in {<<>>, <<"config">>}
    /\ header \in Items \cup {<<>>}
    /\ received \in Seq(Items \X Items)

\* What the reader hands over is the payload that was written for its header,
\* however many threads send at once.
WholeMessages ==
    \A i \in DOMAIN received :
        LET h == received[i][1]  p == received[i][2]
        IN  h.what = "telemetry" /\ p = [h EXCEPT !.what = "payload"]

\* "Notify Controller only after hooks are active": a served process traces.
ServedMeansTracing == server \in {"header", "payload"} => hooks /\ callback

\* Every call a launched target makes reaches the reader, each thread's in
\* order, from the first instruction of the resumed main thread on.
NothingMissed ==
    kind = "root" =>
        \A i \in DOMAIN received :
            LET m == received[i][1]
                earlier == {j \in 1 .. i - 1 : received[j][1].by = m.by}
            IN  m.n > 0 /\ {received[j][1].n : j \in earlier} = 1 .. m.n - 1

\* A hooked call returns to the program: nobody waits for ever on the two
\* mutexes and the pipe, the agent's thread, whose own calls are hooked, included.
DetourReturns ==
    \A t \in Threads : at[t] # "out" ~> (at[t] = "out" \/ proc = "gone")

\* "If the pipe closes or is disconnected, we remove hooks": a process that the
\* controller no longer serves ends up without hooks, wherever its agent was.
HooksRemoved == ~ServerOpen ~> [](~hooks \/ proc = "gone")

\* "child process monitoring armed": an agent whose hooks are active is not
\* turned away while it waits to be told so.
ArmedIsMonitored ==
    [][server = "ready" /\ hooks /\ callback => server' # "failed"]_vars

=============================================================================
