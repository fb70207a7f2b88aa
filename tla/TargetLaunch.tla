----------------------------- MODULE TargetLaunch -----------------------------
(***************************************************************************)
(* How a target is created with an agent in it, and what is left of a launch *)
(* that fails half-way (src/src/controller/injector.cpp, the launch worker   *)
(* of gui.cpp and inject_pid of src/src/loader/loader.cpp).                  *)
(*                                                                         *)
(* Two jobs run at once: "launch" is LaunchAndInject or LaunchDll with the   *)
(* launch worker's use of what it returns, "inject" is the injection into a  *)
(* child of the session that QueueChildProcessInstrumentation tries again.   *)
(* Each injects directly or, into a process of the other architecture,       *)
(* through a helper process whose output it reads to the end.  The write     *)
(* ends of the output pipes are inheritable, so a process that one job       *)
(* creates may hold the pipe of the other.                                   *)
(*                                                                         *)
(* Every call that can fail may fail.  Paths, command lines and texts are    *)
(* left out, and the handshake (module AgentPipe) is one step.               *)
(***************************************************************************)
EXTENDS Naturals

CONSTANT Attempts    \* 3, the injections tried into a child

ASSUME AttemptsAssumption == Attempts \in Nat \ {0}

Jobs == {"launch", "inject"}
Subject(j) == IF j = "launch" THEN "target" ELSE "child"
Helper(j) == IF j = "launch" THEN "launch helper" ELSE "inject helper"
Helpers == {Helper(j) : j \in Jobs}
Procs == {"target", "child"} \cup Helpers
Outputs == {"target"} \cup Helpers       \* whose output a pipe takes
Controller == "controller"
Loads == Jobs \X (1 .. Attempts)         \* the remote LoadLibraryW calls

VARIABLES
    pc,         \* what a job does next
    direct,     \* the subject has the controller's architecture
    tries,      \* the attempt of a job, from 1
    timedOut,   \* the job has terminated its helper
    handles,    \* handles that a job has open
    proc,       \* none, suspended, running, gone
    helper,     \* what a helper process does next, and how it ended
    writers,    \* who holds the write end of an output pipe
    memory,     \* the path written into the subject: none, allocated, freed
    load,       \* the remote thread: none, running, loaded, refused
    output      \* the thread that reads the target's output

subject == <<proc, helper, writers, memory, load>>
vars == <<pc, direct, tries, timedOut, handles, subject, output>>

Init ==
    /\ pc = [launch |-> "validate", inject |-> "open"]
    /\ direct \in [Jobs -> BOOLEAN]
    /\ tries = [j \in Jobs |-> 1] /\ timedOut = [j \in Jobs |-> FALSE]
    /\ handles = [j \in Jobs |-> {}]
    /\ proc = [p \in Procs |-> IF p = "child" THEN "running" ELSE "none"]
    /\ helper = [j \in Jobs |-> "none"]
    /\ writers = [o \in Outputs |-> {}]
    /\ memory = [l \in Loads |-> "none"] /\ load = [l \in Loads |-> "none"]
    /\ output = "none"

Alive(p) == proc[p] \in {"suspended", "running"}
Load(j) == <<j, tries[j]>>
Goto(j, label) == pc' = [pc EXCEPT ![j] = label]
Open(j, hs) == handles' = [handles EXCEPT ![j] = @ \cup hs]
Close(j, hs) == handles' = [handles EXCEPT ![j] = @ \ hs]

\* A process ends: its memory and its handles go.
Ends(p) ==
    /\ proc' = [proc EXCEPT ![p] = IF Alive(p) THEN "gone" ELSE @]
    /\ writers' = [o \in Outputs |-> writers[o] \ {p}]

OutputOf(p) == IF p = "target" THEN "target output" ELSE "helper output"

\* CreateHiddenOutputPipe for the process p; without it p gets no pipe.
CreateOutput(j, p) ==
    \/ /\ writers' = [writers EXCEPT ![p] = {Controller}]
       /\ Open(j, {OutputOf(p)})
    \/ UNCHANGED <<writers, handles>>

\* Variant of Inherit: the controller keeps the write end.
InheritKept(p) ==
    [o \in Outputs |->
        writers[o] \cup (IF Controller \in writers[p] /\ Controller \in writers[o]
                         THEN {p} ELSE {})]

\* CreateProcessW: p inherits every write end the controller has open, then
\* the controller closes the one made for p.
Inherit(p) ==
    [o \in Outputs |->
        (writers[o] \cup (IF Controller \in writers[p] /\ Controller \in writers[o]
                          THEN {p} ELSE {}))
        \ (IF o = p THEN {Controller} ELSE {})]

CloseWrite(p) == [writers EXCEPT ![p] = @ \ {Controller}]

-----------------------------------------------------------------------------
(* LaunchAndInject and LaunchDll.                                          *)

Validate ==
    /\ pc["launch"] = "validate"
    /\ \E l \in {"output", "done"} : Goto("launch", l)
    /\ UNCHANGED <<direct, tries, timedOut, handles, subject, output>>
TargetOutput ==
    /\ pc["launch"] = "output"
    /\ CreateOutput("launch", "target")
    /\ Goto("launch", "create")
    /\ UNCHANGED <<direct, tries, timedOut, proc, helper, memory, load, output>>
CreateTarget ==
    /\ pc["launch"] = "create"
    /\ \/ /\ proc' = [proc EXCEPT !["target"] = "suspended"]
          /\ writers' = Inherit("target")
          /\ Open("launch", {"process", "thread"})
          /\ Goto("launch", "telemetry pipe")
       \/ /\ writers' = CloseWrite("target")
          /\ Close("launch", {"target output"})
          /\ Goto("launch", "done") /\ UNCHANGED proc
    /\ UNCHANGED <<direct, tries, timedOut, helper, memory, load, output>>

\* Variant of GiveUp: the output pipe is forgotten.
GiveUpKeepsOutput ==
    /\ Ends("target")
    /\ Close("launch", {"process", "thread", "telemetry pipe"})
    /\ Goto("launch", "done")
    /\ UNCHANGED <<direct, tries, timedOut, helper, memory, load, output>>

\* TerminateProcess and every CloseHandle of a launch that fails later.
GiveUp ==
    /\ Ends("target")
    /\ Close("launch", {"process", "thread", "telemetry pipe", "target output"})
    /\ Goto("launch", "done")
    /\ UNCHANGED <<direct, tries, timedOut, helper, memory, load, output>>

CreateTelemetryPipe ==
    /\ pc["launch"] = "telemetry pipe"
    /\ Open("launch", {"telemetry pipe"})
    /\ Goto("launch", "inject")
    /\ UNCHANGED <<direct, tries, timedOut, subject, output>>
TelemetryPipeFails == pc["launch"] = "telemetry pipe" /\ GiveUp

LaunchInjected ==
    /\ pc["launch"] = "injected"
    /\ Goto("launch", "handshake")
    /\ UNCHANGED <<direct, tries, timedOut, handles, subject, output>>
LaunchNotInjected == pc["launch"] = "not injected" /\ GiveUp

\* Only an agent that is in the target answers.
Handshake ==
    /\ pc["launch"] = "handshake"
    /\ Alive("target") /\ load[Load("launch")] = "loaded"
    /\ Goto("launch", "launched")
    /\ UNCHANGED <<direct, tries, timedOut, handles, subject, output>>
HandshakeFails == pc["launch"] = "handshake" /\ GiveUp

\* The launch worker: the readers take over the pipes, the target resumes.
TakeOver ==
    /\ pc["launch"] = "launched"
    /\ Close("launch", {"telemetry pipe", "target output"})
    /\ output' = IF "target output" \in handles["launch"] THEN "reading" ELSE "none"
    /\ Goto("launch", "resume")
    /\ UNCHANGED <<direct, tries, timedOut, subject>>
ResumeTarget ==
    /\ pc["launch"] = "resume"
    /\ \/ /\ proc["target"] = "suspended"
          /\ proc' = [proc EXCEPT !["target"] = "running"]
          /\ UNCHANGED writers
       \/ Ends("target")
    /\ Close("launch", {"thread", "process"})
    /\ Goto("launch", "done")
    /\ UNCHANGED <<direct, tries, timedOut, helper, memory, load, output>>

\* StartProcessOutputReader: the pipe ends with its last writer.
OutputEnds ==
    /\ output = "reading"
    /\ writers["target"] = {}
    /\ output' = "ended"
    /\ UNCHANGED <<pc, direct, tries, timedOut, handles, subject>>

-----------------------------------------------------------------------------
(* InjectAgentIntoProcess, tried again by QueueChildProcessInstrumentation. *)

Again == IF tries["inject"] < Attempts THEN "open" ELSE "done"

NextTry == tries' = [tries EXCEPT !["inject"] = IF @ < Attempts THEN @ + 1 ELSE @]

OpenChild ==
    /\ pc["inject"] = "open"
    /\ \/ /\ Alive("child")
          /\ Open("inject", {"process"}) /\ Goto("inject", "inject")
          /\ UNCHANGED tries
       \/ NextTry /\ Goto("inject", Again) /\ UNCHANGED handles
    /\ UNCHANGED <<direct, timedOut, subject, output>>
ChildInjected ==
    /\ pc["inject"] = "injected"
    /\ Close("inject", {"process"}) /\ Goto("inject", "done")
    /\ UNCHANGED <<direct, tries, timedOut, subject, output>>
\* Also when the image cannot be read.
ChildNotInjected ==
    /\ pc["inject"] \in {"inject", "not injected"}
    /\ Close("inject", {"process"}) /\ Goto("inject", Again) /\ NextTry
    /\ UNCHANGED <<direct, timedOut, subject, output>>

Inject(j) ==
    /\ pc[j] = "inject"
    /\ Goto(j, IF direct[j] THEN "allocate" ELSE "helper output")
    /\ timedOut' = [timedOut EXCEPT ![j] = FALSE]
    /\ UNCHANGED <<direct, tries, handles, subject, output>>

-----------------------------------------------------------------------------
(* DirectInject.                                                           *)

Allocate(j) ==
    /\ pc[j] = "allocate"
    /\ \/ /\ Alive(Subject(j))
          /\ memory' = [memory EXCEPT ![Load(j)] = "allocated"]
          /\ Goto(j, "remote thread")
       \/ Goto(j, "not injected") /\ UNCHANGED memory
    /\ UNCHANGED <<direct, tries, timedOut, handles, proc, helper, writers, load, output>>
RemoteThread(j) ==
    /\ pc[j] = "remote thread"
    /\ \/ /\ Alive(Subject(j))
          /\ load' = [load EXCEPT ![Load(j)] = "running"]
          /\ Open(j, {"remote thread"}) /\ Goto(j, "wait load")
          /\ UNCHANGED memory
       \/ /\ memory' = [memory EXCEPT ![Load(j)] = "freed"]
          /\ Goto(j, "not injected") /\ UNCHANGED <<handles, load>>
    /\ UNCHANGED <<direct, tries, timedOut, proc, helper, writers, output>>

\* Variant of WaitLoadTimesOut: the memory is freed all the same.
WaitLoadTimesOutFrees(j) ==
    /\ pc[j] = "wait load" /\ load[Load(j)] = "running"
    /\ memory' = [memory EXCEPT ![Load(j)] = "freed"]
    /\ Close(j, {"remote thread"}) /\ Goto(j, "not injected")
    /\ UNCHANGED <<direct, tries, timedOut, proc, helper, writers, load, output>>

WaitLoad(j) ==
    /\ pc[j] = "wait load"
    /\ load[Load(j)] # "running" \/ ~Alive(Subject(j))
    /\ memory' = [memory EXCEPT ![Load(j)] = "freed"]
    /\ Close(j, {"remote thread"})
    /\ Goto(j, IF load[Load(j)] = "loaded" THEN "injected" ELSE "not injected")
    /\ UNCHANGED <<direct, tries, timedOut, proc, helper, writers, load, output>>
\* After five seconds the memory is left to the thread that still needs it.
WaitLoadTimesOut(j) ==
    /\ pc[j] = "wait load" /\ load[Load(j)] = "running"
    /\ Close(j, {"remote thread"}) /\ Goto(j, "not injected")
    /\ UNCHANGED <<direct, tries, timedOut, subject, output>>

DirectInject(j) ==
    Allocate(j) \/ RemoteThread(j) \/ WaitLoad(j) \/ WaitLoadTimesOut(j)

-----------------------------------------------------------------------------
(* HelperInject and the helper process, inject_pid of the loader.          *)

HelperOutput(j) ==
    /\ pc[j] = "helper output"
    /\ CreateOutput(j, Helper(j))
    /\ Goto(j, "create helper")
    /\ UNCHANGED <<direct, tries, timedOut, proc, helper, memory, load, output>>
CreateHelper(j) ==
    /\ pc[j] = "create helper"
    /\ \/ /\ proc' = [proc EXCEPT ![Helper(j)] = "running"]
          /\ helper' = [helper EXCEPT ![j] = "start"]
          /\ writers' = Inherit(Helper(j))
          /\ Open(j, {"helper"}) /\ Goto(j, "wait helper")
       \/ /\ writers' = CloseWrite(Helper(j))
          /\ Close(j, {"helper output"})
          /\ Goto(j, "not injected") /\ UNCHANGED <<proc, helper>>
    /\ UNCHANGED <<direct, tries, timedOut, memory, load, output>>
WaitHelper(j) ==
    /\ pc[j] = "wait helper" /\ ~Alive(Helper(j))
    /\ Goto(j, "read helper")
    /\ UNCHANGED <<direct, tries, timedOut, handles, subject, output>>
\* After fifteen seconds the helper is terminated.
WaitHelperTimesOut(j) ==
    /\ pc[j] = "wait helper" /\ Alive(Helper(j))
    /\ Ends(Helper(j))
    /\ timedOut' = [timedOut EXCEPT ![j] = TRUE]
    /\ Goto(j, "read helper")
    /\ UNCHANGED <<direct, tries, handles, helper, memory, load, output>>
\* ReadPipeToString returns when nobody can write any more.
ReadHelper(j) ==
    /\ pc[j] = "read helper"
    /\ "helper output" \in handles[j] => writers[Helper(j)] = {}
    /\ Close(j, {"helper", "helper output"})
    /\ Goto(j, IF helper[j] = "exit 0" /\ ~timedOut[j] THEN "injected" ELSE "not injected")
    /\ UNCHANGED <<direct, tries, timedOut, subject, output>>

HelperInject(j) ==
    \/ HelperOutput(j) \/ CreateHelper(j)
    \/ WaitHelper(j) \/ WaitHelperTimesOut(j) \/ ReadHelper(j)

LoaderStarts(j) ==
    /\ helper[j] = "start" /\ Alive(Helper(j))
    /\ \/ /\ Alive(Subject(j))
          /\ memory' = [memory EXCEPT ![Load(j)] = "allocated"]
          /\ load' = [load EXCEPT ![Load(j)] = "running"]
          /\ helper' = [helper EXCEPT ![j] = "wait"]
          /\ UNCHANGED <<proc, writers>>
       \/ /\ helper' = [helper EXCEPT ![j] = "exit 1"]
          /\ Ends(Helper(j)) /\ UNCHANGED <<memory, load>>
    /\ UNCHANGED <<pc, direct, tries, timedOut, handles, output>>
\* What the remote LoadLibraryW returned is not looked at.
LoaderSucceeds(j) ==
    /\ helper[j] = "wait" /\ Alive(Helper(j))
    /\ load[Load(j)] # "running" \/ ~Alive(Subject(j))
    /\ memory' = [memory EXCEPT ![Load(j)] = "freed"]
    /\ helper' = [helper EXCEPT ![j] = "exit 0"]
    /\ Ends(Helper(j))
    /\ UNCHANGED <<pc, direct, tries, timedOut, handles, load, output>>

Loader(j) == LoaderStarts(j) \/ LoaderSucceeds(j)

-----------------------------------------------------------------------------
(* Windows: a remote LoadLibraryW returns, or not; a process ends.         *)

RemoteLoad(l) ==
    /\ load[l] = "running" /\ Alive(Subject(l[1]))
    /\ \E result \in {"loaded", "refused"} : load' = [load EXCEPT ![l] = result]
    /\ UNCHANGED <<pc, direct, tries, timedOut, handles, proc, helper, writers, memory, output>>
ProcessExits(p) ==
    /\ proc[p] \in {"suspended", "running"} /\ p \in {"target", "child"}
    /\ Ends(p)
    /\ UNCHANGED <<pc, direct, tries, timedOut, handles, helper, memory, load, output>>

Launch ==
    \/ Validate \/ TargetOutput \/ CreateTarget \/ CreateTelemetryPipe \/ TelemetryPipeFails
    \/ LaunchInjected \/ LaunchNotInjected \/ Handshake \/ HandshakeFails
    \/ TakeOver \/ ResumeTarget
    \/ Inject("launch") \/ DirectInject("launch") \/ HelperInject("launch")
InjectChild ==
    \/ OpenChild \/ ChildInjected \/ ChildNotInjected
    \/ Inject("inject") \/ DirectInject("inject") \/ HelperInject("inject")

Next ==
    \/ Launch \/ InjectChild \/ OutputEnds
    \/ \E j \in Jobs : Loader(j)
    \/ \E l \in Loads : RemoteLoad(l)
    \/ \E p \in Procs : ProcessExits(p)

\* The jobs go on, every wait of theirs being limited; nothing is promised of
\* the processes they inject into, nor of the remote LoadLibraryW.
Fairness == WF_vars(Launch) /\ WF_vars(InjectChild) /\ WF_vars(OutputEnds)

Spec == Init /\ [][Next]_vars /\ Fairness

-----------------------------------------------------------------------------
HandleNames == {"process", "thread", "telemetry pipe", "remote thread", "helper",
                "target output", "helper output"}

TypeOK ==
    /\ pc \in [Jobs -> {"validate", "output", "create", "telemetry pipe", "open", "inject",
                        "injected", "not injected", "handshake", "launched", "resume", "done",
                        "allocate", "remote thread", "wait load", "helper output",
                        "create helper", "wait helper", "read helper"}]
    /\ direct \in [Jobs -> BOOLEAN] /\ timedOut \in [Jobs -> BOOLEAN]
    /\ tries \in [Jobs -> 1 .. Attempts] /\ tries["launch"] = 1
    /\ handles \in [Jobs -> SUBSET HandleNames]
    /\ proc \in [Procs -> {"none", "suspended", "running", "gone"}]
    /\ helper \in [Jobs -> {"none", "start", "wait", "exit 0", "exit 1"}]
    /\ writers \in [Outputs -> SUBSET (Procs \cup {Controller})]
    /\ memory \in [Loads -> {"none", "allocated", "freed"}]
    /\ load \in [Loads -> {"none", "running", "loaded", "refused"}]
    /\ output \in {"none", "reading", "ended"}

\* Whatever fails, and wherever, a finished job has closed what it opened and
\* no target is left suspended; a launch that goes on has the agent in a target
\* that has not yet run.
CleanOutcome ==
    /\ \A j \in Jobs :
         pc[j] = "done" => handles[j] = {} /\ \A o \in {Helper(j), Subject(j)} \cap Outputs :
                                                  Controller \notin writers[o]
    /\ pc["launch"] = "done" => proc["target"] # "suspended"
    /\ pc["launch"] = "launched" =>
         /\ load[<<"launch", 1>>] = "loaded" /\ proc["target"] # "running"
         /\ handles["launch"] \ {"target output"} = {"process", "thread", "telemetry pipe"}

\* The path that a remote LoadLibraryW reads is not freed under it.
NotFreedInUse ==
    \A l \in Loads :
        load[l] = "running" /\ Alive(Subject(l[1])) => memory[l] = "allocated"

\* Every launch ends, whoever holds the other ends of its pipes: it waits for no
\* process that lives on, its own suspended target least of all.
LaunchEnds == (pc["launch"] # "done") ~> (pc["launch"] = "done")

=============================================================================
