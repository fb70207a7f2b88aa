------------------------------- MODULE EtwProofs -------------------------------
(***************************************************************************)
(* Theorems of EtwMonitor, for any number of events, processes and         *)
(* launches, whoever stops the trace and whenever, and whether or not the  *)
(* trace can be opened: what is left of it once the flag says stopped, and *)
(* the events that the buffer holds and those it has dropped.              *)
(***************************************************************************)
EXTENDS EtwMonitor, FiniteSetTheorems, InductionLemmas, TLAPS

Flags == /\ running \in BOOLEAN /\ handle \in BOOLEAN /\ tracing \in BOOLEAN /\ traced \in BOOLEAN
         /\ stop \in [Stoppers -> {"idle", "check", "close", "control", "join", "finish"}]

Controlled ==
    /\ Flags
    /\ was \in BOOLEAN /\ armed \in BOOLEAN /\ watched \in BOOLEAN /\ doubt \in BOOLEAN
    /\ thread \in {"none", "open", "process", "give up", "flag", "ended"}
    /\ launcher \in {"idle", "arm", "start trace", "spawn", "launch", "register"}
    /\ starts \in 0 .. MaxStarts

LEMMA ControlledStep == ASSUME Controlled, [Next]_vars PROVE Controlled'
<1> USE DEF trace, worker, StopGoto
<1>0. Flags /\ was \in BOOLEAN /\ armed \in BOOLEAN /\ watched \in BOOLEAN /\ doubt' \in BOOLEAN
  <2>1. doubt' \in BOOLEAN
    BY DEF Controlled, Next, Judge, vars
  <2> QED BY <2>1 DEF Controlled
<1>1. CASE BeginTargetSession
  <2>1. starts' \in 0 .. MaxStarts
    <3>1. starts \in 0 .. MaxStarts /\ starts < MaxStarts /\ starts' = starts + 1
      BY <1>0, <1>1 DEF BeginTargetSession, Controlled
    <3> QED BY <3>1, EtwAssumption
  <2> QED BY <1>0, <1>1, <2>1 DEF BeginTargetSession, Controlled, Flags
<1>2. CASE Arm \/ StartTrace \/ StartTraceFails \/ SpawnThread
  BY <1>0, <1>2 DEF Arm, StartTrace, StartTraceFails, SpawnThread, Controlled, Flags
<1>3. CASE LaunchFails \/ RegisterRoot \/ RegisterTargets
  BY <1>0, <1>3 DEF LaunchFails, RegisterRoot, RegisterTargets, Controlled, Flags
<1>4. CASE TargetEnds
  BY <1>0, <1>4 DEF TargetEnds, Controlled, Flags
<1>5. ASSUME NEW s \in Stoppers, Stop(s) PROVE Controlled'
  <2>1. /\ stop' \in [Stoppers -> {"idle", "check", "close", "control", "join", "finish"}]
        /\ UNCHANGED worker
    BY <1>0, <1>5 DEF Stop, StopCheck, StopClose, StopControl, StopJoin, StopFinish, Flags
  <2>2. running' \in BOOLEAN /\ handle' \in BOOLEAN /\ tracing' \in BOOLEAN /\ traced' \in BOOLEAN
    BY <1>0, <1>5 DEF Stop, StopCheck, StopClose, StopControl, StopJoin, StopFinish, Flags
  <2>3. thread' \in {thread, "none"}
    BY <1>5 DEF Stop, StopCheck, StopClose, StopControl, StopJoin, StopFinish
  <2> QED BY <1>0, <2>1, <2>2, <2>3 DEF Controlled, Flags
<1>6. CASE OpenTrace \/ OpenTraceFails \/ GiveUp \/ ProcessTraceReturns \/ ProcessTraceStops \/ ThreadEnds
  <2>1. tracing' \in BOOLEAN /\ traced' \in BOOLEAN /\ running' \in BOOLEAN /\ handle' \in BOOLEAN
    BY <1>0, <1>6 DEF OpenTrace, OpenTraceFails, GiveUp, ProcessTraceReturns, ProcessTraceStops,
                      ThreadEnds, Flags
  <2>2. thread' \in {"process", "give up", "flag", "ended"} /\ UNCHANGED <<worker, stop>>
    BY <1>6 DEF OpenTrace, OpenTraceFails, GiveUp, ProcessTraceReturns, ProcessTraceStops, ThreadEnds
  <2> QED BY <1>0, <2>1, <2>2 DEF Controlled, Flags
<1>7. CASE ProgramEnds
  <2>1. stop' \in [Stoppers -> {"idle", "check", "close", "control", "join", "finish"}]
    BY <1>7 DEF ProgramEnds
  <2> QED BY <1>0, <1>7, <2>1 DEF ProgramEnds, Controlled, Flags
<1>8. CASE UNCHANGED <<trace, worker, stop>>
  BY <1>0, <1>8 DEF Controlled, Flags
<1>9. CASE \/ Report \/ Decide \/ Push \/ Clear \/ Replace \/ UNCHANGED vars
           \/ \E p \in Pids : TelemetryAddsTargets(p)
           \/ \E kind, pid, subject : Deliver(kind, pid, subject)
  <2>1. UNCHANGED <<trace, worker, stop>>
    BY <1>9 DEF Report, Decide, Push, Clear, Replace, vars, code, TelemetryAddsTargets, Deliver
  <2> QED BY <2>1, <1>8
<1>11. Launcher => Controlled'
  BY <1>2, <1>3 DEF Launcher
<1>12. Thread => Controlled'
  BY <1>6, <1>9 DEF Thread
<1>13. \/ BeginTargetSession \/ Launcher \/ TargetEnds \/ Thread \/ ProcessTraceStops \/ ProgramEnds
       \/ Clear \/ Replace \/ UNCHANGED vars
       \/ \E s \in Stoppers : Stop(s)
       \/ \E p \in Pids : TelemetryAddsTargets(p)
       \/ \E kind, pid, subject : Deliver(kind, pid, subject)
  BY DEF Next, Step
<1> QED BY <1>1, <1>4, <1>5, <1>6, <1>7, <1>9, <1>11, <1>12, <1>13

On == /\ running = TRUE /\ handle = TRUE /\ traced = TRUE
      /\ thread = "open" \/ (thread = "process" /\ tracing = TRUE)
Off == running = FALSE /\ handle = FALSE /\ traced = FALSE /\ thread = "none"

\* Nobody who stops the trace has touched it yet.
Untouched == \A s \in Stoppers : stop[s] \in {"idle", "check"}

\* Who stops has done this much of it.
StopDone ==
    \A s \in Stoppers :
        /\ stop[s] \in {"join", "finish"} => handle = FALSE /\ traced = FALSE
        /\ stop[s] = "finish" => thread = "none"
\* And who starts, alone.
StartDone ==
    /\ launcher # "idle" => stop["failed launch"] = "idle"
    /\ Starting => (running = TRUE /\ thread = "none" /\ \A s \in Stoppers : stop[s] = "idle")
    /\ launcher = "start trace" => handle = FALSE /\ traced = FALSE
    /\ launcher = "spawn" => handle = TRUE /\ traced = TRUE
Sound == StopDone /\ StartDone /\ (Untouched /\ ~Starting => On \/ Off)

\* Unless something is in doubt, the trace is wholly on or wholly off, or as far
\* on its way as those who start or stop it.
IInv == Controlled /\ (~doubt => Sound)

LEMMA IInvInit == Init => IInv
<1> SUFFICES ASSUME Init PROVE IInv
  OBVIOUS
<1>1. 0 \in 0 .. MaxStarts
  BY EtwAssumption
<1>2. Controlled
  BY <1>1 DEF Init, Controlled, Flags
<1>3. Sound
  BY DEF Init, Sound, StopDone, StartDone, Starting, Untouched, On, Off
<1> QED BY <1>2, <1>3 DEF IInv

\* Whoever leaves the trace and those who start and stop it alone.
LEMMA Others == ASSUME Sound, UNCHANGED <<trace, launcher, stop>> PROVE Sound'
BY DEF trace, Sound, StopDone, StartDone, Starting, Untouched, On, Off, Stoppers

\* Nobody at work and nothing left.
LEMMA WhollyOffSound == ASSUME Controlled', WhollyOff' PROVE Sound'
<1>1. (\A s \in Stoppers : stop'[s] = "idle") /\ "failed launch" \in Stoppers
  BY DEF WhollyOff, Stopping, Stoppers
<1>2. Off' /\ ~Starting'
  BY DEF WhollyOff, Off, Controlled, Flags
<1> QED BY <1>1, <1>2 DEF Sound, StopDone, StartDone, Starting, Off

\* Starting while nobody stops.
LEMMA LauncherKeeps ==
    ASSUME Controlled, Sound, BeginTargetSession \/ Launcher \/ TargetEnds, ~(Starting /\ Stopping)'
    PROVE  Sound'
<1> USE DEF trace, worker, filter, record
<1>0. Flags /\ StopDone /\ StartDone /\ Stoppers = {"ended target", "failed launch"}
  BY DEF Controlled, Sound, Stoppers
<1>s. Starting' => \A s \in Stoppers : stop'[s] = "idle"
  BY DEF Starting, Stopping
<1>1. CASE BeginTargetSession
  BY <1>0, <1>1 DEF BeginTargetSession, Sound, StopDone, StartDone, Starting, Untouched, On, Off
<1>2. CASE Arm
  <2>0. stop["failed launch"] = "idle" /\ stop' = stop
    BY <1>0, <1>2 DEF Arm, StartDone
  <2>1. /\ launcher = "arm" /\ running' = TRUE /\ UNCHANGED <<handle, traced, thread, tracing, stop>>
        /\ \/ running = TRUE /\ launcher' = "launch"
           \/ running = FALSE /\ launcher' = "start trace" /\ Starting' /\ Untouched
    BY <1>0, <1>s, <1>2 DEF Arm, Flags, Starting, Untouched
  <2>2. ~Starting /\ (Untouched => On \/ Off)
    BY <2>1 DEF Starting, Sound
  <2>3. StopDone'
    BY <1>0, <2>1 DEF StopDone
  <2>4. CASE running = TRUE /\ launcher' = "launch"
    BY <2>0, <2>1, <2>2, <2>3, <2>4 DEF Sound, StartDone, Starting, Untouched, On, Off
  <2>5. CASE running = FALSE /\ launcher' = "start trace" /\ Starting' /\ Untouched
    <3>1. Off
      BY <2>2, <2>5 DEF On
    <3>2. StartDone'
      BY <1>s, <2>0, <2>1, <2>5, <3>1 DEF StartDone, Off
    <3> QED BY <2>3, <2>5, <3>2 DEF Sound
  <2> QED BY <2>1, <2>4, <2>5
<1>3. CASE StartTrace
  BY <1>0, <1>3 DEF StartTrace, Sound, StopDone, StartDone, Starting, Untouched, On, Off
<1>4. CASE StartTraceFails
  BY <1>0, <1>4 DEF StartTraceFails, Sound, StopDone, StartDone, Starting, Untouched, On, Off
<1>5. CASE SpawnThread
  BY <1>0, <1>5 DEF SpawnThread, Sound, StopDone, StartDone, Starting, Untouched, On, Off
<1>6. CASE LaunchFails
  BY <1>0, <1>6 DEF LaunchFails, Flags, Sound, StopDone, StartDone, Starting, Untouched, On, Off
<1>7. CASE RegisterRoot
  BY <1>0, <1>7 DEF RegisterRoot, Sound, StopDone, StartDone, Starting, Untouched, On, Off
<1>8. CASE RegisterTargets
  BY <1>0, <1>8 DEF RegisterTargets, Sound, StopDone, StartDone, Starting, Untouched, On, Off
<1>9. CASE TargetEnds
  BY <1>0, <1>s, <1>9 DEF TargetEnds, StopGoto, Flags, Sound, StopDone, StartDone, Starting, Untouched, On, Off
<1> QED
  BY <1>1, <1>2, <1>3, <1>4, <1>5, <1>6, <1>7, <1>8, <1>9 DEF Launcher

LEMMA StopKeeps == ASSUME Controlled, Sound, NEW s \in Stoppers, Stop(s) PROVE Sound'
<1> USE DEF trace, worker, filter, record, StopGoto
<1>0. Flags /\ StopDone /\ StartDone
  BY DEF Controlled, Sound
<1>a. \A r \in Stoppers : r # s => stop'[r] = stop[r]
  BY <1>0 DEF Stop, StopCheck, StopClose, StopControl, StopJoin, StopFinish, Flags
<1>b. stop[s] # "idle" /\ ~Starting /\ launcher' = launcher
  BY <1>0 DEF Stop, StopCheck, StopClose, StopControl, StopJoin, StopFinish, StartDone
<1>c. launcher' # "idle" => stop'["failed launch"] = "idle"
  <2>1. "failed launch" \in Stoppers
    BY DEF Stoppers
  <2> QED BY <1>0, <1>a, <1>b, <2>1 DEF StartDone
<1>1. CASE StopCheck(s)
  BY <1>0, <1>a, <1>b, <1>c, <1>1 DEF StopCheck, Flags, Sound, StopDone, StartDone, Starting, Untouched, On, Off
<1>2. CASE StopClose(s)
  BY <1>0, <1>a, <1>b, <1>c, <1>2 DEF StopClose, Flags, Sound, StopDone, StartDone, Starting, Untouched, On, Off
<1>3. CASE StopControl(s)
  BY <1>0, <1>a, <1>b, <1>c, <1>3 DEF StopControl, Flags, Sound, StopDone, StartDone, Starting, Untouched, On, Off
<1>4. CASE StopJoin(s)
  BY <1>0, <1>a, <1>b, <1>c, <1>4 DEF StopJoin, Flags, Sound, StopDone, StartDone, Starting, Untouched, On, Off
<1>5. CASE StopFinish(s)
  BY <1>0, <1>a, <1>b, <1>c, <1>5 DEF StopFinish, Flags, Sound, StopDone, StartDone, Starting, Untouched, On, Off
<1> QED BY <1>1, <1>2, <1>3, <1>4, <1>5 DEF Stop

\* The thread gives up only once somebody has begun to stop the trace.
LEMMA ThreadKeeps == ASSUME Controlled, Sound, Thread \/ ProcessTraceStops, ~GivesUp PROVE Sound'
<1> USE DEF trace, worker, filter, record
<1>0. Flags /\ StopDone /\ StartDone
  BY DEF Controlled, Sound
<1>1. CASE OpenTrace
  BY <1>0, <1>1 DEF OpenTrace, Sound, StopDone, StartDone, Starting, Untouched, On, Off
<1>2. CASE OpenTraceFails
  BY <1>0, <1>2 DEF OpenTraceFails, GivesUp, Sound, StopDone, StartDone, Starting, Untouched, On, Off
<1>3. CASE GiveUp
  BY <1>0, <1>3 DEF GiveUp, Sound, StopDone, StartDone, Starting, Untouched, On, Off
<1>4. CASE ProcessTraceReturns
  BY <1>0, <1>4 DEF ProcessTraceReturns, GivesUp, Sound, StopDone, StartDone, Starting, Untouched, On, Off
<1>5. CASE ProcessTraceStops
  BY <1>0, <1>5 DEF ProcessTraceStops, GivesUp, Sound, StopDone, StartDone, Starting, Untouched, On, Off
<1>6. CASE ThreadEnds
  BY <1>0, <1>6 DEF ThreadEnds, Sound, StopDone, StartDone, Starting, Untouched, On, Off
<1>7. CASE Report \/ Decide \/ Push
  <2>1. UNCHANGED <<trace, launcher, stop>>
    BY <1>7 DEF Report, Decide, Push
  <2> QED BY <2>1, Others
<1> QED BY <1>1, <1>2, <1>3, <1>4, <1>5, <1>6, <1>7 DEF Thread

LEMMA SoundStep ==
    ASSUME Controlled, Sound, Step \/ UNCHANGED vars, ~GivesUp, ~(Starting /\ Stopping)', ~ProgramEnds
    PROVE  Sound'
<1>1. CASE UNCHANGED vars
  BY <1>1, Others DEF vars, code, worker
<1>2. ASSUME NEW p \in Pids, TelemetryAddsTargets(p) PROVE Sound'
  BY <1>2, Others DEF TelemetryAddsTargets, worker
<1>3. ASSUME NEW kind, NEW pid, NEW subject, Deliver(kind, pid, subject) PROVE Sound'
  BY <1>3, Others DEF Deliver, worker
<1>4. CASE Clear \/ Replace
  BY <1>4, Others DEF Clear, Replace, worker
<1> QED
  BY <1>1, <1>2, <1>3, <1>4, LauncherKeeps, StopKeeps, ThreadKeeps DEF Step

LEMMA IInvStep == ASSUME IInv, [Next]_vars PROVE IInv'
<1>1. Controlled'
  BY ControlledStep DEF IInv
<1>2. ASSUME ~doubt' PROVE Sound'
  <2>1. CASE Next /\ WhollyOff'
    BY <1>1, <2>1, WhollyOffSound
  <2>2. CASE Next /\ ~WhollyOff'
    <3>1. ~doubt /\ ~GivesUp /\ ~(Starting /\ Stopping)' /\ ~ProgramEnds /\ Step
      BY <1>2, <2>2 DEF Next, Judge
    <3> QED BY <3>1, SoundStep DEF IInv
  <2>3. CASE UNCHANGED vars
    <3>1. doubt' = doubt /\ UNCHANGED <<trace, launcher, stop>>
      BY <2>3 DEF vars, code, worker
    <3> QED BY <1>2, <3>1, Others DEF IInv
  <2> QED BY <2>1, <2>2, <2>3
<1> QED BY <1>1, <1>2 DEF IInv

\* Every step of whoever starts or stops the trace, of its thread and of the
\* program that ends and starts again keeps the invariant.
THEOREM Invariance == Spec => []IInv
BY IInvInit, IInvStep, PTL DEF Spec

\* However many stop the trace at once and however often it fails: unless the
\* trace is in doubt, no trace session, no handle and no thread is left behind
\* a flag that says stopped, once nobody starts or stops.
THEOREM QuiescentIsStoppedHolds == Spec => []QuiescentIsStopped
<1>1. ASSUME IInv PROVE QuiescentIsStopped
  <2> SUFFICES ASSUME ~doubt, ~running, ~Starting, ~Stopping
               PROVE  ~traced /\ ~handle /\ thread = "none"
    BY DEF QuiescentIsStopped
  <2>1. Untouched
    BY DEF Stopping, Untouched
  <2>2. On \/ Off
    BY <1>1, <2>1 DEF IInv, Sound
  <2> QED BY <2>2 DEF On, Off
<1> QED BY <1>1, Invariance, PTL

-----------------------------------------------------------------------------
(* The record of the target's events, whoever starts and stops the trace   *)
(* meanwhile.  The buffer is in the order of the numbers, and the event in *)
(* the callback is newer than all of it (Numbered); an event that was owed *)
(* to the buffer is still there, or older than all that is (Covered); of   *)
(* those that the target's pids leave out, at most one is in the buffer or *)
(* on its way into it (Scoped).                                            *)

Owned(e) == e.kind # "imported"
Sorted(b) == \A i, j \in DOMAIN b : i < j /\ Owned(b[i]) /\ Owned(b[j]) => b[i].n < b[j].n
Below(b, n) == \A i \in DOMAIN b : Owned(b[i]) => b[i].n < n
Covered(b, pids, n) ==
    \/ \E i \in DOMAIN b : Owned(b[i]) /\ b[i].n = n /\ b[i].pid \in pids
    \/ \A i \in DOMAIN b : Owned(b[i]) => n < b[i].n
Stray(e, pids) ==
    /\ Owned(e) /\ e.pid \notin pids
    /\ e.kind = "start" => {e.subject, Parent[e.subject]} \cap pids = {}
Strays(b, pids) == {i \in DOMAIN b : Stray(b[i], pids)}

Typed ==
    /\ keep \in BOOLEAN /\ targets \subseteq Pids /\ members \subseteq Pids
    /\ events \in Seq(Event) /\ Len(events) <= MaxEvents
    /\ callback \in {"idle", "report", "decide", "push"}
    /\ current \in Event /\ Owned(current) /\ current.pid \in Pids /\ current.subject \in Pids
    /\ produced \in 0 .. MaxProduced /\ owed \subseteq 1 .. MaxProduced

Numbered ==
    /\ Sorted(events) /\ Below(events, produced + 1)
    /\ \A n \in owed : n <= produced /\ Covered(events, targets, n)
    /\ callback # "idle" => /\ current.n > 0 /\ Below(events, current.n)
                            /\ \A n \in owed : n < current.n
    /\ current.n <= produced

Scoped ==
    targets # {} =>
        /\ \A i, j \in Strays(events, targets) : i = j
        /\ callback = "push" /\ Stray(current, targets) => Strays(events, targets) = {}

Recorded == Typed /\ Numbered /\ Scoped

\* The steps of PruneEventsForTargetsLocked: k[n] is what is kept of the first n
\* events.
Keeps(k, buffer, pids) ==
    [n \in 0 .. Len(buffer) |->
        IF n = 0 THEN <<>>
        ELSE IF buffer[n].pid \in pids THEN Append(k[n - 1], buffer[n]) ELSE k[n - 1]]

LEMMA KeepsValues ==
    ASSUME NEW buffer, NEW pids, NEW k, NEW L \in Nat, L = Len(buffer), k = Keeps(k, buffer, pids)
    PROVE  /\ DOMAIN k = 0 .. L /\ k[0] = <<>>
           /\ \A n \in 1 .. L :
                 k[n] = IF buffer[n].pid \in pids THEN Append(k[n - 1], buffer[n]) ELSE k[n - 1]
<1>1. \A n \in 0 .. L : k[n] = IF n = 0 THEN <<>> ELSE
             IF buffer[n].pid \in pids THEN Append(k[n - 1], buffer[n]) ELSE k[n - 1]
  BY DEF Keeps
<1>2. DOMAIN k = 0 .. L
  BY DEF Keeps
<1>3. \A n \in 1 .. L : n \in 0 .. L /\ n # 0
  OBVIOUS
<1>4. k[0] = <<>>
  BY <1>1, 0 \in 0 .. L, Zenon
<1>5. ASSUME NEW n \in 1 .. L
      PROVE  k[n] = IF buffer[n].pid \in pids THEN Append(k[n - 1], buffer[n]) ELSE k[n - 1]
  BY <1>1, <1>3, Zenon
<1> QED BY <1>2, <1>4, <1>5

Prunes(k, buffer, pids) ==
    /\ k[0] = <<>>
    /\ \A n \in 1 .. Len(buffer) :
          k[n] = IF buffer[n].pid \in pids THEN Append(k[n - 1], buffer[n]) ELSE k[n - 1]

\* What PruneEventsForTargetsLocked does, event by event.
LEMMA PrunedSteps ==
    ASSUME NEW S, NEW buffer \in Seq(S), NEW pids
    PROVE  \E k \in [0 .. Len(buffer) -> Seq(S)] :
              Prunes(k, buffer, pids) /\ Pruned(buffer, pids) = k[Len(buffer)]
<1> DEFINE L == Len(buffer)
           kept == CHOOSE k : k = Keeps(k, buffer, pids)
           step == [x \in Seq(S) \X (1 .. L) |->
                      IF buffer[x[2]].pid \in pids THEN Append(x[1], buffer[x[2]]) ELSE x[1]]
<1>1. L \in Nat /\ <<>> \in Seq(S)
  OBVIOUS
<1>2. step \in [Seq(S) \X (1 .. L) -> Seq(S)]
  <2>1. ASSUME NEW x \in Seq(S) \X (1 .. L)
        PROVE  (IF buffer[x[2]].pid \in pids THEN Append(x[1], buffer[x[2]]) ELSE x[1]) \in Seq(S)
    OBVIOUS
  <2> QED BY <2>1
<1>3. PICK k \in [0 .. L -> Seq(S)] : Solves(k, <<>>, step, L)
  <2> HIDE DEF step
  <2> QED BY <1>1, <1>2, Recursion
<1>4. ASSUME NEW n \in 1 .. L
      PROVE  k[n] = IF buffer[n].pid \in pids THEN Append(k[n - 1], buffer[n]) ELSE k[n - 1]
  <2>1. k[n - 1] \in Seq(S)
    OBVIOUS
  <2>2. k[n] = step[<<k[n - 1], n>>]
    BY <1>3 DEF Solves
  <2> QED BY <2>1, <2>2
<1>5. k = Keeps(k, buffer, pids)
  <2>1. k[0] = <<>>
    BY <1>3 DEF Solves
  <2>2. \A n \in 0 .. L : k[n] = Keeps(k, buffer, pids)[n]
    <3>1. \A n \in 0 .. L : n = 0 \/ (n # 0 /\ n \in 1 .. L)
      OBVIOUS
    <3> QED BY <1>4, <2>1, <3>1 DEF Keeps
  <2> QED BY <2>2 DEF Keeps
<1>6. kept = Keeps(kept, buffer, pids)
  BY <1>5, Zenon
<1>7. Pruned(buffer, pids) = kept[L]
  BY Zenon DEF Pruned, Keeps
<1> HIDE DEF kept, step
<1>8. /\ DOMAIN kept = 0 .. L /\ kept[0] = <<>>
      /\ \A n \in 1 .. L :
            kept[n] = IF buffer[n].pid \in pids THEN Append(kept[n - 1], buffer[n])
                      ELSE kept[n - 1]
  BY <1>1, <1>6, KeepsValues
<1>10. kept = [n \in 0 .. L |-> kept[n]]
  BY <1>6, <1>8 DEF Keeps
<1> HIDE DEF L
<1>9. \A n \in 0 .. L : kept[n] \in Seq(S)
  <2> DEFINE T == {n \in 0 .. L : kept[n] \in Seq(S)}
  <2>1. 0 \in T
    <3>1. 0 \in 0 .. L /\ kept[0] \in Seq(S)
      BY <1>8, <1>1
    <3> QED BY <3>1
  <2>2. ASSUME NEW n \in 0 .. L - 1, n \in T PROVE n + 1 \in T
    <3>1. /\ n + 1 \in 1 .. L /\ (n + 1) - 1 = n /\ kept[n] \in Seq(S)
          /\ buffer[n + 1] \in S
      BY <2>2, <1>1 DEF L
    <3>2. kept[n + 1] \in Seq(S)
      <4>1. Append(kept[n], buffer[n + 1]) \in Seq(S)
        BY <3>1
      <4>2. kept[n + 1] = IF buffer[n + 1].pid \in pids THEN Append(kept[(n + 1) - 1], buffer[n + 1])
                          ELSE kept[(n + 1) - 1]
        BY <3>1, <1>8
      <4> QED BY <3>1, <4>1, <4>2, Zenon
    <3>3. n + 1 \in 0 .. L
      BY <3>1, <1>1
    <3> QED BY <3>2, <3>3
  <2> HIDE DEF T
  <2>3. 0 .. L \subseteq T
    BY <1>1, <2>1, <2>2, Climbing
  <2> QED BY <2>3 DEF T
<1>11. kept \in [0 .. L -> Seq(S)] /\ Prunes(kept, buffer, pids)
  BY <1>8, <1>9, <1>10 DEF L, Prunes
<1> QED BY <1>7, <1>11 DEF L

\* c is a part of b, in the same order.
Part(c, b, f) ==
    /\ f \in [1 .. Len(c) -> 1 .. Len(b)]
    /\ \A i, j \in 1 .. Len(c) : i < j => f[i] < f[j]
    /\ \A i \in 1 .. Len(c) : c[i] = b[f[i]]

LEMMA PartSorted == ASSUME NEW b \in Seq(Event), NEW c \in Seq(Event), NEW f, Part(c, b, f), Sorted(b) PROVE Sorted(c)
<1>1. \A i \in DOMAIN c : f[i] \in DOMAIN b /\ c[i] = b[f[i]]
  BY DEF Part
<1>2. \A i, j \in DOMAIN c : i < j => f[i] < f[j]
  BY DEF Part
<1> QED BY <1>1, <1>2 DEF Sorted

LEMMA PartBelow == ASSUME NEW b \in Seq(Event), NEW c \in Seq(Event), NEW f, NEW n, Part(c, b, f), Below(b, n) PROVE Below(c, n)
BY DEF Part, Below

LEMMA PartStrays ==
    ASSUME NEW b \in Seq(Event), NEW c \in Seq(Event), NEW f, NEW pids, Part(c, b, f)
    PROVE  /\ Strays(b, pids) = {} => Strays(c, pids) = {}
           /\ (\A i, j \in Strays(b, pids) : i = j) => \A i, j \in Strays(c, pids) : i = j
<1>1. \A i \in Strays(c, pids) : f[i] \in Strays(b, pids) /\ i \in 1 .. Len(c)
  BY DEF Part, Strays
<1>2. \A i, j \in 1 .. Len(c) : f[i] = f[j] => i = j
  BY DEF Part
<1> QED BY <1>1, <1>2

\* What is kept of the first n events.
Chosen(c, b, n, pids, f) ==
    /\ f \in [1 .. Len(c) -> 1 .. n]
    /\ \A i, j \in 1 .. Len(c) : i < j => f[i] < f[j]
    /\ \A i \in 1 .. Len(c) : c[i] = b[f[i]] /\ c[i].pid \in pids
    /\ \A m \in 1 .. n : b[m].pid \in pids => \E i \in 1 .. Len(c) : f[i] = m

LEMMA ChosenNext ==
    ASSUME NEW S, NEW b \in Seq(S), NEW pids, NEW n \in Nat, n + 1 <= Len(b), NEW c \in Seq(S), Len(c) <= n,
           NEW f, Chosen(c, b, n, pids, f),
           NEW d, d = IF b[n + 1].pid \in pids THEN Append(c, b[n + 1]) ELSE c
    PROVE  Len(d) <= n + 1 /\ \E g : Chosen(d, b, n + 1, pids, g)
<1>1. CASE b[n + 1].pid \in pids
  <2> DEFINE g == [i \in 1 .. Len(c) + 1 |-> IF i = Len(c) + 1 THEN n + 1 ELSE f[i]]
  <2>1. Len(c) \in Nat /\ f \in [1 .. Len(c) -> 1 .. n] /\ n + 1 \in 1 .. Len(b)
    BY DEF Chosen
  <2>2. /\ Len(d) = Len(c) + 1 /\ d[Len(c) + 1] = b[n + 1]
        /\ \A i \in 1 .. Len(c) : d[i] = c[i]
    BY <1>1, <2>1
  <2>3. /\ g \in [1 .. Len(c) + 1 -> 1 .. n + 1] /\ g[Len(c) + 1] = n + 1
        /\ \A i \in 1 .. Len(c) : g[i] = f[i]
    BY <2>1
  <2>4. \A i \in 1 .. Len(c) + 1 : i \in 1 .. Len(c) \/ i = Len(c) + 1
    BY <2>1
  <2> HIDE DEF g
  <2>5. \A i, j \in 1 .. Len(d) : i < j => g[i] < g[j]
    <3>1. ASSUME NEW i \in 1 .. Len(c), NEW j \in 1 .. Len(c), i < j PROVE g[i] < g[j]
      BY <3>1, <2>3 DEF Chosen
    <3>2. ASSUME NEW i \in 1 .. Len(c) PROVE g[i] < g[Len(c) + 1]
      <4>1. f[i] \in 1 .. n /\ g[i] = f[i]
        BY <2>1, <2>3
      <4> QED BY <4>1, <2>3
    <3> QED BY <3>1, <3>2, <2>1, <2>2, <2>4
  <2>6. \A i \in 1 .. Len(d) : d[i] = b[g[i]] /\ d[i].pid \in pids
    BY <1>1, <2>1, <2>2, <2>3, <2>4 DEF Chosen
  <2>7. \A m \in 1 .. n + 1 : b[m].pid \in pids => \E i \in 1 .. Len(d) : g[i] = m
    <3>1. ASSUME NEW m \in 1 .. n, b[m].pid \in pids PROVE \E i \in 1 .. Len(d) : g[i] = m
      <4>1. PICK i \in 1 .. Len(c) : f[i] = m
        BY <3>1 DEF Chosen
      <4> QED BY <4>1, <2>1, <2>2, <2>3
    <3>2. Len(c) + 1 \in 1 .. Len(d)
      BY <2>1, <2>2
    <3>3. \A m \in 1 .. n + 1 : m \in 1 .. n \/ m = n + 1
      OBVIOUS
    <3> QED BY <3>1, <3>2, <3>3, <2>3
  <2>8. Chosen(d, b, n + 1, pids, g)
    BY <2>2, <2>3, <2>5, <2>6, <2>7 DEF Chosen
  <2> QED BY <2>2, <2>8
<1>2. CASE b[n + 1].pid \notin pids
  <2>1. f \in [1 .. Len(c) -> 1 .. n + 1]
    BY DEF Chosen
  <2>2. \A m \in 1 .. n + 1 : m \in 1 .. n \/ m = n + 1
    OBVIOUS
  <2>3. Chosen(c, b, n + 1, pids, f)
    BY <1>2, <2>1, <2>2 DEF Chosen
  <2> QED BY <1>2, <2>3
<1> QED BY <1>1, <1>2

\* PruneEventsForTargetsLocked keeps the events of these pids, all of them, as they stand.
LEMMA PrunedIsChosen ==
    ASSUME NEW S, NEW b \in Seq(S), NEW pids
    PROVE  /\ Pruned(b, pids) \in Seq(S) /\ Len(Pruned(b, pids)) <= Len(b)
           /\ \E f : Chosen(Pruned(b, pids), b, Len(b), pids, f)
<1> DEFINE L == Len(b)
<1>1. PICK k \in [0 .. L -> Seq(S)] : Prunes(k, b, pids) /\ Pruned(b, pids) = k[L]
  BY PrunedSteps
<1> DEFINE T == {n \in 0 .. L : Len(k[n]) <= n /\ \E f : Chosen(k[n], b, n, pids, f)}
<1>2. L \in Nat
  OBVIOUS
<1>3. 0 \in T
  <2>0. k[0] = <<>>
    BY <1>1 DEF Prunes
  <2>1. Chosen(<<>>, b, 0, pids, [i \in {} |-> 0])
    BY DEF Chosen
  <2> QED BY <2>0, <2>1, <1>2
<1>4. ASSUME NEW n \in 0 .. L - 1, n \in T PROVE n + 1 \in T
  <2>1. PICK f : Chosen(k[n], b, n, pids, f)
    BY <1>4
  <2>2. n \in Nat /\ n + 1 <= Len(b) /\ k[n] \in Seq(S) /\ Len(k[n]) <= n /\ n + 1 \in 1 .. L /\ (n + 1) - 1 = n
    <3>1. n \in 0 .. L
      BY <1>2
    <3>2. k[n] \in Seq(S)
      BY <1>1, <3>1
    <3> QED BY <1>2, <1>4, <3>2
  <2>3. k[n + 1] = IF b[n + 1].pid \in pids THEN Append(k[n], b[n + 1]) ELSE k[n]
    BY <1>1, <2>2 DEF Prunes
  <2> HIDE DEF L
  <2>4. Len(k[n + 1]) <= n + 1 /\ \E g : Chosen(k[n + 1], b, n + 1, pids, g)
    BY <2>1, <2>2, <2>3, ChosenNext
  <2>5. n + 1 \in 0 .. L
    BY <2>2, <1>2
  <2> QED BY <2>4, <2>5
<1> HIDE DEF L
<1>5. L \in T
  <2> HIDE DEF T
  <2>1. 0 .. L \subseteq T
    BY <1>2, <1>3, <1>4, Climbing
  <2> QED BY <2>1, <1>2
<1>6. k[L] \in Seq(S)
  BY <1>1, <1>2
<1> QED BY <1>1, <1>5, <1>6 DEF L

LEMMA PrunedCovers ==
    ASSUME NEW b \in Seq(Event), NEW c \in Seq(Event), NEW pids, NEW f, Chosen(c, b, Len(b), pids, f),
           NEW known, known \subseteq pids, NEW n, Covered(b, known, n)
    PROVE  Covered(c, pids, n)
<1>1. CASE \E i \in DOMAIN b : Owned(b[i]) /\ b[i].n = n /\ b[i].pid \in known
  <2>1. PICK i \in DOMAIN b : Owned(b[i]) /\ b[i].n = n /\ b[i].pid \in known
    BY <1>1
  <2>2. PICK j \in 1 .. Len(c) : f[j] = i
    BY <2>1 DEF Chosen
  <2>3. j \in DOMAIN c /\ c[j] = b[i]
    BY <2>2 DEF Chosen
  <2> QED BY <2>1, <2>3 DEF Covered
<1>2. CASE \A i \in DOMAIN b : Owned(b[i]) => n < b[i].n
  <2>1. \A j \in DOMAIN c : f[j] \in DOMAIN b /\ c[j] = b[f[j]]
    BY DEF Chosen
  <2> QED BY <1>2, <2>1 DEF Covered
<1> QED BY <1>1, <1>2 DEF Covered

LEMMA ChosenIsPart ==
    ASSUME NEW b \in Seq(Event), NEW c \in Seq(Event), NEW pids, NEW f, Chosen(c, b, Len(b), pids, f)
    PROVE  Part(c, b, f) /\ Strays(c, pids) = {}
<1>1. Part(c, b, f)
  BY DEF Chosen, Part
<1>2. \A i \in DOMAIN c : c[i].pid \in pids
  BY DEF Chosen
<1> QED BY <1>1, <1>2 DEF Strays, Stray

\* b without its first d events.
Suffix(c, b, d) == Len(c) = Len(b) - d /\ \A i \in 1 .. Len(c) : c[i] = b[i + d]

LEMMA SuffixIsPart ==
    ASSUME NEW b \in Seq(Event), NEW c \in Seq(Event), NEW d \in 0 .. Len(b), Suffix(c, b, d)
    PROVE  \E f : Part(c, b, f)
<1> DEFINE f == [i \in 1 .. Len(c) |-> i + d]
<1>1. Part(c, b, f)
  BY DEF Suffix, Part
<1> QED BY <1>1

\* An event that is dropped was older than all that stay.
LEMMA SuffixCovers ==
    ASSUME NEW b \in Seq(Event), NEW c \in Seq(Event), NEW d \in 0 .. Len(b), Suffix(c, b, d), Sorted(b),
           NEW pids, NEW n, Covered(b, pids, n)
    PROVE  Covered(c, pids, n)
<1>0. \A i \in DOMAIN c : i + d \in DOMAIN b /\ c[i] = b[i + d] /\ i + d > d
  BY DEF Suffix
<1>1. CASE \E i \in DOMAIN b : Owned(b[i]) /\ b[i].n = n /\ b[i].pid \in pids
  <2>1. PICK i \in DOMAIN b : Owned(b[i]) /\ b[i].n = n /\ b[i].pid \in pids
    BY <1>1
  <2>2. CASE i > d
    <3>1. i - d \in DOMAIN c /\ (i - d) + d = i
      BY <2>1, <2>2 DEF Suffix
    <3>2. c[i - d] = b[i]
      BY <1>0, <3>1
    <3> QED BY <2>1, <3>1, <3>2 DEF Covered
  <2>3. CASE i <= d
    <3>1. \A j \in DOMAIN c : i < j + d
      BY <1>0, <2>1, <2>3
    <3>2. \A j \in DOMAIN c : Owned(c[j]) => n < c[j].n
      BY <1>0, <2>1, <3>1 DEF Sorted
    <3> QED BY <3>2 DEF Covered
  <2> QED BY <2>1, <2>2, <2>3
<1>2. CASE \A i \in DOMAIN b : Owned(b[i]) => n < b[i].n
  BY <1>0, <1>2 DEF Covered
<1> QED BY <1>1, <1>2 DEF Covered

LEMMA AppendEvent ==
    ASSUME NEW b \in Seq(Event), NEW e \in Event, Owned(e), Sorted(b), Below(b, e.n)
    PROVE  /\ Append(b, e) \in Seq(Event) /\ Sorted(Append(b, e)) /\ Below(Append(b, e), e.n + 1)
           /\ \A pids : \A n \in Nat : n < e.n /\ Covered(b, pids, n) => Covered(Append(b, e), pids, n)
           /\ \A pids : e.pid \in pids => Covered(Append(b, e), pids, e.n)
           /\ \A pids : Strays(Append(b, e), pids) =
                          Strays(b, pids) \cup IF Stray(e, pids) THEN {Len(b) + 1} ELSE {}
<1> DEFINE c == Append(b, e)
           L == Len(b)
<1>1. /\ c \in Seq(Event) /\ DOMAIN c = 1 .. L + 1 /\ c[L + 1] = e /\ L \in Nat /\ DOMAIN b = 1 .. L
      /\ \A i \in 1 .. L : c[i] = b[i] /\ b[i] \in Event
      /\ e.n \in Nat /\ \A i \in 1 .. L : b[i].n \in Nat
  <2>1. L \in Nat /\ DOMAIN b = 1 .. L /\ \A i \in 1 .. L : b[i] \in Event
    OBVIOUS
  <2>2. c \in Seq(Event) /\ Len(c) = L + 1 /\ c[L + 1] = e /\ \A i \in 1 .. L : c[i] = b[i]
    OBVIOUS
  <2>3. \A x \in Event : x.n \in Nat
    BY EtwAssumption DEF Event
  <2> QED BY <2>1, <2>2, <2>3
<1>2. \A i \in 1 .. L + 1 : i \in 1 .. L \/ i = L + 1
  BY <1>1
<1> HIDE DEF c, L
<1>3. Sorted(c)
  <2>1. ASSUME NEW i \in 1 .. L, NEW j \in 1 .. L, i < j, Owned(c[i]), Owned(c[j]) PROVE c[i].n < c[j].n
    BY <1>1, <2>1 DEF Sorted
  <2>2. ASSUME NEW i \in 1 .. L, Owned(c[i]) PROVE c[i].n < c[L + 1].n
    BY <1>1, <2>2 DEF Below
  <2> QED BY <1>1, <1>2, <2>1, <2>2 DEF Sorted
<1>4. Below(c, e.n + 1)
  <2>1. ASSUME NEW i \in 1 .. L, Owned(c[i]) PROVE c[i].n < e.n + 1
    <3>1. b[i].n < e.n
      BY <1>1, <2>1 DEF Below
    <3> QED BY <1>1, <3>1
  <2>2. c[L + 1].n < e.n + 1
    BY <1>1
  <2> QED BY <1>1, <1>2, <2>1, <2>2 DEF Below
<1>5. ASSUME NEW pids, NEW n \in Nat, n < e.n, Covered(b, pids, n) PROVE Covered(c, pids, n)
  <2>1. CASE \E i \in DOMAIN b : Owned(b[i]) /\ b[i].n = n /\ b[i].pid \in pids
    <3>1. \A i \in 1 .. L : i \in 1 .. L + 1
      BY <1>1
    <3> QED BY <1>1, <2>1, <3>1 DEF Covered
  <2>2. CASE \A i \in DOMAIN b : Owned(b[i]) => n < b[i].n
    BY <1>1, <1>2, <1>5, <2>2 DEF Covered
  <2> QED BY <1>5, <2>1, <2>2 DEF Covered
<1>6. ASSUME NEW pids, e.pid \in pids PROVE Covered(c, pids, e.n)
  BY <1>1, <1>6 DEF Covered
<1>7. ASSUME NEW pids PROVE Strays(c, pids) = Strays(b, pids) \cup IF Stray(e, pids) THEN {L + 1} ELSE {}
  <2>1. \A i \in 1 .. L : i \in Strays(c, pids) <=> i \in Strays(b, pids)
    BY <1>1 DEF Strays
  <2>2. L + 1 \in Strays(c, pids) <=> Stray(e, pids)
    BY <1>1 DEF Strays
  <2>3. Strays(c, pids) \subseteq 1 .. L + 1 /\ Strays(b, pids) \subseteq 1 .. L
    BY <1>1 DEF Strays
  <2> QED BY <1>1, <1>2, <2>1, <2>2, <2>3
<1> QED BY <1>1, <1>3, <1>4, <1>5, <1>6, <1>7 DEF c, L

LEMMA PushedIsSuffix ==
    ASSUME NEW b \in Seq(Event), Len(b) <= MaxEvents, NEW e \in Event
    PROVE  /\ Pushed(b, e) \in Seq(Event) /\ Len(Pushed(b, e)) <= MaxEvents
           /\ \E d \in 0 .. Len(Append(b, e)) : Suffix(Pushed(b, e), Append(b, e), d)
<1> DEFINE c == Append(b, e)
<1>0. /\ MaxEvents \in Nat /\ Evicted \in 1 .. MaxEvents
      /\ Len(c) = Len(b) + 1 /\ c \in Seq(Event) /\ Len(b) \in Nat
  BY EtwAssumption
<1>1. CASE Len(b) < MaxEvents
  <2>1. Suffix(c, c, 0)
    BY <1>0 DEF Suffix
  <2>2. Pushed(b, e) = c
    BY <1>1 DEF Pushed
  <2> QED BY <2>1, <2>2, <1>0, <1>1
<1>2. CASE Len(b) = MaxEvents
  <2> DEFINE p == SubSeq(c, Evicted + 1, MaxEvents + 1)
  <2>1. Pushed(b, e) = p
    BY <1>2, <1>0 DEF Pushed
  <2>2. p \in Seq(Event) /\ Len(p) = MaxEvents + 1 - Evicted /\ \A i \in 1 .. Len(p) : p[i] = c[i + Evicted]
    BY <1>0, <1>2
  <2>3. Evicted \in 0 .. Len(c) /\ Suffix(p, c, Evicted) /\ Len(p) <= MaxEvents
    BY <2>2, <1>0, <1>2 DEF Suffix
  <2> QED BY <2>1, <2>2, <2>3
<1> QED BY <1>0, <1>1, <1>2

LEMMA NoEventTyped ==
    /\ NoEvent \in Event /\ Owned(NoEvent) /\ NoEvent.pid \in Pids /\ NoEvent.subject \in Pids
    /\ NoEvent.n = 0
BY EtwAssumption DEF NoEvent, Event, Kinds, Owned

LEMMA RecordedInit == Init => Recorded
<1> SUFFICES ASSUME Init PROVE Recorded
  OBVIOUS
<1> USE DEF Init
<1>1. Typed
  <2>1. events \in Seq(Event) /\ Len(events) <= MaxEvents
    BY EtwAssumption
  <2>2. current \in Event /\ Owned(current) /\ current.pid \in Pids /\ current.subject \in Pids
    BY NoEventTyped
  <2>3. produced \in 0 .. MaxProduced
    BY EtwAssumption
  <2> QED BY <2>1, <2>2, <2>3 DEF Typed
<1>2. Numbered /\ Scoped
  BY NoEventTyped, EtwAssumption DEF Numbered, Scoped, Sorted, Below
<1> QED BY <1>1, <1>2 DEF Recorded

LEMMA SameRecord == ASSUME Recorded, UNCHANGED <<filter, events, members, record>> PROVE Recorded'
BY DEF Recorded, Typed, Numbered, Scoped, Strays, Stray, Sorted, Below, Covered, Owned, filter, record

\* AddEtwKernelTargetProcesses, from whichever thread.
LEMMA AddTargetsKeeps ==
    ASSUME Recorded, NEW pids \in SUBSET Pids, AddTargets(pids),
           UNCHANGED <<current, produced, owed>>, members' \subseteq Pids,
           callback' = callback \/ (callback = "report" /\ callback' = "decide")
    PROVE  Recorded'
<1>0. Typed /\ Numbered /\ Scoped
  BY DEF Recorded
<1>1. CASE pids \subseteq targets
  <2>1. UNCHANGED <<targets, keep, events, current, produced, owed>>
    BY <1>1 DEF AddTargets, filter
  <2>2. Typed'
    BY <1>0, <2>1 DEF Typed, Owned
  <2>3. Numbered'
    BY <1>0, <2>1 DEF Numbered, Sorted, Below, Covered, Owned
  <2>4. Scoped'
    BY <1>0, <2>1 DEF Scoped, Strays, Stray, Owned
  <2> QED BY <2>2, <2>3, <2>4 DEF Recorded
<1>2. CASE ~(pids \subseteq targets)
  <2> DEFINE c == Pruned(events, targets \cup pids)
  <2>1. targets' = targets \cup pids /\ keep' = FALSE /\ events' = c
    BY <1>2 DEF AddTargets
  <2>2. events \in Seq(Event) /\ Len(events) <= MaxEvents
    BY <1>0 DEF Typed
  <2>3. c \in Seq(Event) /\ Len(c) <= Len(events)
    BY <2>2, PrunedIsChosen
  <2>4. PICK f : Chosen(c, events, Len(events), targets \cup pids, f)
    BY <2>2, PrunedIsChosen
  <2> HIDE DEF c
  <2>5. Part(c, events, f) /\ Strays(c, targets \cup pids) = {}
    BY <2>2, <2>3, <2>4, ChosenIsPart
  <2>6. Typed'
    <3>1. Len(events') <= MaxEvents
      BY <2>1, <2>2, <2>3, EtwAssumption
    <3> QED BY <1>0, <2>1, <2>3, <3>1 DEF Typed, Owned
  <2>7. Sorted(events)'
    <3>1. Sorted(events)
      BY <1>0 DEF Numbered
    <3>2. Sorted(c)
      BY <3>1, <2>2, <2>3, <2>5, PartSorted
    <3> QED BY <3>2, <2>1 DEF Sorted, Owned
  <2>8. \A n : Below(events, n) => Below(events', n)
    BY <2>1, <2>2, <2>3, <2>5, PartBelow
  <2>9. \A n : Covered(events, targets, n) => Covered(events', targets', n)
    <3>1. ASSUME NEW n, Covered(events, targets, n) PROVE Covered(c, targets \cup pids, n)
      <4>1. targets \subseteq targets \cup pids
        OBVIOUS
      <4> QED BY <3>1, <4>1, <2>2, <2>3, <2>4, PrunedCovers
    <3> QED BY <3>1, <2>1
  <2>10. Numbered'
    <3>1. Below(events', produced + 1) /\ \A n \in owed : n <= produced /\ Covered(events', targets', n)
      BY <1>0, <2>8, <2>9 DEF Numbered
    <3>2. callback' # "idle" => current.n > 0 /\ Below(events', current.n) /\ \A n \in owed : n < current.n
      BY <1>0, <2>8 DEF Numbered
    <3>3. current.n <= produced
      BY <1>0 DEF Numbered
    <3> QED BY <3>1, <3>2, <3>3, <2>7 DEF Numbered, Sorted, Below, Covered, Owned
  <2>11. Scoped'
    <3>1. Strays(events', targets') = {}
      BY <2>1, <2>5
    <3> QED BY <3>1 DEF Scoped, Strays, Stray, Owned
  <2> QED BY <2>6, <2>10, <2>11 DEF Recorded
<1> QED BY <1>1, <1>2

\* Whoever empties the list, or puts an imported one in its place.
LEMMA EmptiedKeeps ==
    ASSUME Recorded, NEW b \in Seq(Event), Len(b) <= 1, \A i \in DOMAIN b : ~Owned(b[i]), events' = b,
           targets' \subseteq Pids, members' \subseteq Pids, keep' \in BOOLEAN, UNCHANGED record
    PROVE  Recorded'
<1>0. Typed /\ Numbered /\ Scoped
  BY DEF Recorded
<1>1. Typed'
  BY <1>0, EtwAssumption DEF Typed, Owned, record
<1>2. Numbered'
  BY <1>0 DEF Numbered, Sorted, Below, Covered, Owned, record
<1>3. Strays(events', targets') = {}
  BY DEF Strays, Stray
<1>4. Scoped'
  BY <1>3 DEF Scoped, Strays, Stray, Owned
<1> QED BY <1>1, <1>2, <1>4 DEF Recorded

LEMMA DeliverKeeps ==
    ASSUME Recorded, NEW kind \in {"other", "start", "exit"}, NEW pid \in Pids, NEW subject \in Pids,
           Deliver(kind, pid, subject)
    PROVE  Recorded'
<1> DEFINE e == [n |-> produced + 1, kind |-> kind, pid |-> pid, subject |-> subject]
<1>0. /\ Typed /\ Numbered /\ Scoped /\ callback = "idle" /\ produced' = produced + 1 /\ produced < MaxProduced
      /\ UNCHANGED <<targets, keep, events, members, owed>>
      /\ (callback' = "report" /\ current' = e) \/ (callback' = callback /\ current' = current)
  BY DEF Recorded, Deliver, filter
<1>1. produced \in Nat /\ MaxProduced \in Nat /\ current.n \in Nat
  BY <1>0, EtwAssumption DEF Typed, Event
<1>2. e \in Event /\ Owned(e) /\ e.n = produced + 1
  BY <1>0, <1>1 DEF Event, Kinds, Owned
<1> HIDE DEF e
<1>3. current' = current \/ (current' = e /\ e.n = produced + 1 /\ e.pid \in Pids /\ e.subject \in Pids)
  BY <1>0 DEF e
<1>4. Typed'
  <2>1. produced' \in 0 .. MaxProduced
    BY <1>0, <1>1 DEF Typed
  <2> QED BY <1>0, <1>2, <1>3, <2>1 DEF Typed, Owned
<1>5. Below(events, produced' + 1)
  <2>1. \A i \in DOMAIN events : events[i].n \in Nat
    <3>1. events \in Seq(Event) /\ \A x \in Event : x.n \in Nat
      BY <1>0, EtwAssumption DEF Typed, Event
    <3> QED BY <3>1
  <2>2. \A i \in DOMAIN events : Owned(events[i]) => events[i].n < produced + 1
    BY <1>0 DEF Numbered, Below
  <2> QED BY <2>1, <2>2, <1>0, <1>1 DEF Below
<1>6. \A n \in owed : n <= produced /\ n \in Nat
  <2>1. \A n \in owed : n <= produced
    BY <1>0 DEF Numbered
  <2>2. owed \subseteq 1 .. MaxProduced
    BY <1>0 DEF Typed
  <2> QED BY <2>1, <2>2, <1>1
<1>7. Numbered'
  <2>1. \A n \in owed : n <= produced' /\ Covered(events, targets, n)
    BY <1>0, <1>1, <1>6 DEF Numbered
  <2>2. current'.n <= produced'
    BY <1>0, <1>1, <1>3 DEF Numbered
  <2>3. callback' # "idle" => current'.n = produced + 1 /\ current' = e
    <3>1. callback' # "idle" => current' = e
      BY <1>0
    <3> QED BY <3>1, <1>2
  <2>4. callback' # "idle" => current'.n > 0 /\ Below(events, current'.n) /\ \A n \in owed : n < current'.n
    BY <1>0, <1>1, <1>6, <2>3 DEF Numbered
  <2>5. Sorted(events)
    BY <1>0 DEF Numbered
  <2> QED BY <1>0, <1>5, <2>1, <2>2, <2>4, <2>5 DEF Numbered, Sorted, Below, Covered, Owned
<1>8. Scoped'
  BY <1>0 DEF Scoped, Strays, Stray, Owned
<1> QED BY <1>4, <1>7, <1>8 DEF Recorded

LEMMA DecideKeeps == ASSUME Recorded, Decide PROVE Recorded'
<1>0. /\ Typed /\ Numbered /\ Scoped /\ callback = "decide"
      /\ UNCHANGED <<targets, keep, events, members, produced, owed>>
      /\ \/ KeepsEvent /\ callback' = "push" /\ current' = current
         \/ callback' = "idle" /\ current' = NoEvent
  BY DEF Recorded, Decide, filter
<1>1. Typed'
  BY <1>0, NoEventTyped DEF Typed, Owned
<1>2. Numbered'
  BY <1>0, NoEventTyped DEF Numbered, Sorted, Below, Covered, Owned, Typed
<1>3. targets # {} /\ KeepsEvent => ~Stray(current, targets)
  BY DEF KeepsEvent, Retained, Stray
<1>4. Scoped'
  BY <1>0, <1>3 DEF Scoped, Strays, Stray, Owned
<1> QED BY <1>1, <1>2, <1>4 DEF Recorded

\* AddEvent: the newest event makes room for itself among the oldest.
LEMMA PushKeeps == ASSUME Recorded, Push PROVE Recorded'
<1> DEFINE b == Append(events, current)
           c == Pushed(events, current)
<1>0. /\ Typed /\ Numbered /\ Scoped /\ callback = "push" /\ callback' = "idle" /\ events' = c
      /\ UNCHANGED <<targets, keep, members, produced>> /\ current' = NoEvent
      /\ owed' = IF current.pid \in targets THEN owed \cup {current.n} ELSE owed
  BY DEF Recorded, Push, filter
<1>1. events \in Seq(Event) /\ Len(events) <= MaxEvents /\ current \in Event /\ Owned(current)
  BY <1>0 DEF Typed
<1>2. Sorted(events) /\ Below(events, current.n)
  BY <1>0 DEF Numbered
<1>3. /\ b \in Seq(Event) /\ Sorted(b) /\ Below(b, current.n + 1)
      /\ \A pids : \A n \in Nat : n < current.n /\ Covered(events, pids, n) => Covered(b, pids, n)
      /\ \A pids : current.pid \in pids => Covered(b, pids, current.n)
      /\ \A pids : Strays(b, pids) =
                     Strays(events, pids) \cup IF Stray(current, pids) THEN {Len(events) + 1} ELSE {}
  BY <1>1, <1>2, AppendEvent
<1>4. c \in Seq(Event) /\ Len(c) <= MaxEvents
  BY <1>1, PushedIsSuffix
<1>5. PICK d \in 0 .. Len(b) : Suffix(c, b, d)
  BY <1>1, PushedIsSuffix
<1>n. /\ produced \in Nat /\ current.n \in 0 .. MaxProduced /\ MaxProduced \in Nat /\ current.n <= produced
      /\ \A n \in owed : n \in Nat /\ n < current.n /\ n <= produced /\ Covered(events, targets, n)
  BY <1>0, <1>1, EtwAssumption DEF Typed, Numbered, Event
<1> HIDE DEF b, c
<1>6. PICK f : Part(c, b, f)
  BY <1>3, <1>4, <1>5, SuffixIsPart
<1>7. \A pids, n : Covered(b, pids, n) => Covered(c, pids, n)
  BY <1>3, <1>4, <1>5, SuffixCovers
<1>8. Sorted(c) /\ Below(c, current.n + 1)
  BY <1>3, <1>4, <1>6, PartSorted, PartBelow
<1>9. current.n > 0
  BY <1>0 DEF Numbered
<1>10. Typed'
  <2>1. owed' \subseteq 1 .. MaxProduced
    <3>1. owed \subseteq 1 .. MaxProduced
      BY <1>0 DEF Typed
    <3>2. current.n \in 1 .. MaxProduced
      BY <1>n, <1>9
    <3> QED BY <1>0, <3>1, <3>2
  <2> QED BY <1>0, <1>4, <2>1, NoEventTyped DEF Typed, Owned
<1>11. \A n \in owed' : n <= produced /\ Covered(c, targets, n)
  <2>1. \A n \in owed : n <= produced /\ Covered(c, targets, n)
    BY <1>n, <1>3, <1>7
  <2>2. current.pid \in targets => current.n <= produced /\ Covered(c, targets, current.n)
    BY <1>n, <1>3, <1>7
  <2> QED BY <1>0, <2>1, <2>2
<1>12. Below(c, produced + 1)
  <2>1. \A i \in DOMAIN c : c[i] \in Event
    BY <1>4
  <2>2. \A i \in DOMAIN c : c[i].n \in Nat
    BY <2>1, EtwAssumption DEF Event
  <2>3. \A i \in DOMAIN c : Owned(c[i]) => c[i].n < current.n + 1
    BY <1>8 DEF Below
  <2> QED BY <2>2, <2>3, <1>n DEF Below
<1>13. Numbered'
  BY <1>0, <1>n, <1>8, <1>11, <1>12, NoEventTyped DEF Numbered, Sorted, Below, Covered, Owned
<1>14. Scoped'
  <2>1. targets # {} => \A i, j \in Strays(b, targets) : i = j
    BY <1>0, <1>3 DEF Scoped
  <2>2. targets # {} => \A i, j \in Strays(c, targets) : i = j
    BY <2>1, <1>3, <1>4, <1>6, PartStrays
  <2> QED BY <1>0, <2>2 DEF Scoped, Strays, Stray, Owned
<1> QED BY <1>10, <1>13, <1>14 DEF Recorded

\* Whoever starts or stops the trace leaves the record alone.
LEMMA OthersKeepRecord ==
    ASSUME Recorded,
           \/ Arm \/ StartTrace \/ StartTraceFails \/ SpawnThread \/ LaunchFails \/ TargetEnds
           \/ \E s \in Stoppers : StopCheck(s) \/ StopClose(s) \/ StopControl(s) \/ StopJoin(s)
           \/ OpenTrace \/ OpenTraceFails \/ GiveUp \/ ProcessTraceReturns \/ ProcessTraceStops
           \/ ThreadEnds \/ UNCHANGED vars
    PROVE  Recorded'
<1>1. UNCHANGED <<filter, events, members, record>>
  BY DEF Arm, StartTrace, StartTraceFails, SpawnThread, LaunchFails, TargetEnds, StopCheck,
         StopClose, StopControl, StopJoin, OpenTrace, OpenTraceFails, GiveUp, ProcessTraceReturns,
         ProcessTraceStops, ThreadEnds, vars, code
<1> QED BY <1>1, SameRecord

LEMMA FinishKeepsRecord == ASSUME Recorded, NEW s \in Stoppers, StopFinish(s) PROVE Recorded'
<1>0. /\ Typed /\ Numbered /\ Scoped /\ keep' = FALSE
      /\ UNCHANGED <<targets, events, members, callback, current, produced, owed>>
  BY DEF Recorded, StopFinish, record
<1>1. Typed'
  BY <1>0 DEF Typed, Owned
<1>2. Numbered'
  BY <1>0 DEF Numbered, Sorted, Below, Covered, Owned
<1>3. Scoped'
  BY <1>0 DEF Scoped, Strays, Stray, Owned
<1> QED BY <1>1, <1>2, <1>3 DEF Recorded

LEMMA ReportKeeps == ASSUME Recorded, Report PROVE Recorded'
<1>0. /\ Typed /\ Numbered /\ Scoped /\ callback = "report" /\ callback' = "decide"
      /\ UNCHANGED <<current, produced, owed>>
      /\ current.subject \in Pids /\ members \subseteq Pids
  BY DEF Recorded, Report, Typed
<1>1. CASE AddTargets({current.subject}) /\ members' = members \cup {current.subject}
  <2>1. {current.subject} \in SUBSET Pids /\ members' \subseteq Pids
    BY <1>0, <1>1
  <2> QED BY <1>0, <1>1, <2>1, AddTargetsKeeps
<1>2. CASE UNCHANGED <<members, filter, events>>
  <2>0. UNCHANGED <<targets, keep, members, events>>
    BY <1>2 DEF filter
  <2>1. Typed'
    BY <1>0, <2>0 DEF Typed, Owned
  <2>2. Numbered'
    BY <1>0, <2>0 DEF Numbered, Sorted, Below, Covered, Owned
  <2>3. Scoped'
    BY <1>0, <2>0 DEF Scoped, Strays, Stray, Owned
  <2> QED BY <2>1, <2>2, <2>3 DEF Recorded
<1> QED BY <1>1, <1>2 DEF Report

LEMMA RegisterKeepsRecord ==
    ASSUME Recorded, RegisterRoot \/ RegisterTargets \/ \E p \in Pids : TelemetryAddsTargets(p) PROVE Recorded'
<1>0. Typed /\ Numbered /\ Scoped /\ members \subseteq Pids /\ Root \in Pids
  BY EtwAssumption DEF Recorded, Typed
<1>1. CASE RegisterRoot
  <2>0. /\ UNCHANGED <<targets, keep, events, callback, current, produced, owed>>
        /\ members' \subseteq Pids
    BY <1>0, <1>1 DEF RegisterRoot, filter, record
  <2>1. Typed'
    BY <1>0, <2>0 DEF Typed, Owned
  <2>2. Numbered'
    BY <1>0, <2>0 DEF Numbered, Sorted, Below, Covered, Owned
  <2>3. Scoped'
    BY <1>0, <2>0 DEF Scoped, Strays, Stray, Owned
  <2> QED BY <2>1, <2>2, <2>3 DEF Recorded
<1>2. ASSUME NEW p \in Pids, AddTargets(Tree(p)), UNCHANGED <<members, record>> PROVE Recorded'
  <2>1. Tree(p) \in SUBSET Pids
    BY DEF Tree
  <2>2. UNCHANGED <<callback, current, produced, owed>> /\ members' \subseteq Pids
    BY <1>0, <1>2 DEF record
  <2> HIDE DEF Tree
  <2> QED BY <1>2, <2>1, <2>2, AddTargetsKeeps
<1>3. CASE RegisterTargets
  BY <1>0, <1>2, <1>3 DEF RegisterTargets
<1>4. CASE \E p \in Pids : TelemetryAddsTargets(p)
  BY <1>2, <1>4 DEF TelemetryAddsTargets
<1> QED BY <1>1, <1>3, <1>4

LEMMA EmptyingKeepsRecord == ASSUME Recorded, BeginTargetSession \/ Clear \/ Replace PROVE Recorded'
<1>0. /\ UNCHANGED record /\ targets' \subseteq Pids /\ members' \subseteq Pids /\ keep' \in BOOLEAN
      /\ events' = <<>> \/ events' = <<[n |-> 0, kind |-> "imported", pid |-> NoPid, subject |-> NoPid]>>
  BY DEF BeginTargetSession, Clear, Replace, filter, Recorded, Typed
<1>1. events' \in Seq(Event) /\ Len(events') <= 1 /\ \A i \in DOMAIN events' : ~Owned(events'[i])
  <2> DEFINE e == [n |-> 0, kind |-> "imported", pid |-> NoPid, subject |-> NoPid]
  <2>1. e \in Event /\ ~Owned(e)
    BY EtwAssumption DEF Event, Kinds, Owned
  <2>2. events' = <<>> \/ events' = <<e>>
    BY <1>0
  <2> HIDE DEF e
  <2>3. /\ <<>> \in Seq(Event) /\ Len(<<>>) = 0 /\ \A i \in DOMAIN <<>> : ~Owned(<<>>[i])
        /\ <<e>> \in Seq(Event) /\ Len(<<e>>) = 1 /\ \A i \in DOMAIN <<e>> : ~Owned(<<e>>[i])
    BY <2>1
  <2>4. CASE events' = <<>>
    BY <2>3, <2>4
  <2>5. CASE events' = <<e>>
    BY <2>3, <2>5
  <2> QED BY <2>2, <2>4, <2>5
<1> QED BY <1>0, <1>1, EmptiedKeeps

\* The program that starts again has no events; the numbers go on.
LEMMA RestartKeepsRecord == ASSUME Recorded, ProgramEnds PROVE Recorded'
<1>0. /\ targets' = {} /\ members' = {} /\ keep' = FALSE /\ events' = <<>> /\ owed' = {}
      /\ callback' = "idle" /\ current' = NoEvent /\ produced' = produced /\ produced \in 0 .. MaxProduced
  BY DEF ProgramEnds, Recorded, Typed
<1>1. Typed'
  <2>1. events' \in Seq(Event) /\ Len(events') <= MaxEvents
    BY <1>0, EtwAssumption
  <2>2. /\ current' \in Event /\ current'.kind # "imported"
        /\ current'.pid \in Pids /\ current'.subject \in Pids
    BY <1>0, NoEventTyped DEF Owned
  <2> QED BY <1>0, <2>1, <2>2 DEF Typed, Owned
<1>2. Numbered'
  BY <1>0, NoEventTyped, EtwAssumption DEF Numbered, Sorted, Below
<1>3. Scoped'
  BY <1>0 DEF Scoped
<1> QED BY <1>1, <1>2, <1>3 DEF Recorded

LEMMA RecordedStep == ASSUME Recorded, [Next]_vars PROVE Recorded'
<1>1. ASSUME NEW s \in Stoppers, Stop(s) PROVE Recorded'
  BY <1>1, OthersKeepRecord, FinishKeepsRecord DEF Stop
<1>2. CASE Launcher
  BY <1>2, OthersKeepRecord, RegisterKeepsRecord DEF Launcher
<1>3. CASE Thread
  BY <1>3, OthersKeepRecord, ReportKeeps, DecideKeeps, PushKeeps DEF Thread
<1>4. ASSUME NEW p \in Pids, Deliver("other", p, p) PROVE Recorded'
  BY <1>4, DeliverKeeps
<1>5. ASSUME NEW p \in Pids, Parent[p] # NoPid, Deliver("start", Parent[p], p) PROVE Recorded'
  <2>1. Parent[p] \in Pids
    BY <1>5, EtwAssumption
  <2> QED BY <1>5, <2>1, DeliverKeeps
<1>6. ASSUME NEW p \in Pids, NEW q \in Pids, Deliver("exit", p, q) PROVE Recorded'
  BY <1>6, DeliverKeeps
<1>7. CASE UNCHANGED vars \/ TargetEnds \/ ProcessTraceStops
  BY <1>7, OthersKeepRecord
<1>8. CASE BeginTargetSession \/ Clear \/ Replace
  BY <1>8, EmptyingKeepsRecord
<1>9. CASE \E p \in Pids : TelemetryAddsTargets(p)
  BY <1>9, RegisterKeepsRecord
<1>10. CASE ProgramEnds
  BY <1>10, RestartKeepsRecord
<1> QED BY <1>1, <1>2, <1>3, <1>4, <1>5, <1>6, <1>7, <1>8, <1>9, <1>10 DEF Next, Step

\* Whatever is started, stopped, added or cleared while an event is on its way,
\* the record is in order.
THEOREM RecordHolds == Spec => []Recorded
BY RecordedInit, RecordedStep, PTL DEF Spec

\* Every flag, buffer and number stays within its type.
THEOREM EtwTypes == Spec => []TypeOK
<1>1. IInv /\ Recorded => TypeOK
  BY DEF IInv, Controlled, Flags, Recorded, Typed, TypeOK
<1> QED BY <1>1, Invariance, RecordHolds, PTL

\* The buffer holds the events in the order they came in, and an event about a
\* target leaves it only with every event before it.
THEOREM TargetEventsKeptHolds == Spec => []TargetEventsKept
<1>1. Recorded => TargetEventsKept
  BY DEF Recorded, Numbered, Sorted, Covered, Owned, Own, TargetEventsKept
<1> QED BY <1>1, RecordHolds, PTL

\* Once a target is known, at most one event of another process stays.
THEOREM AtMostOneStrayHolds == Spec => []AtMostOneStray
<1>1. ASSUME Recorded PROVE AtMostOneStray
  <2> SUFFICES ASSUME targets # {} PROVE Cardinality(Strays(events, targets)) <= 1
    BY DEF AtMostOneStray, OutOfScope, Own, Strays, Stray, Owned
  <2>1. \A i, j \in Strays(events, targets) : i = j
    BY <1>1 DEF Recorded, Scoped
  <2>2. CASE Strays(events, targets) = {}
    <3>1. Cardinality({}) = 0
      BY FS_EmptySet
    <3> QED BY <2>2, <3>1
  <2>3. CASE Strays(events, targets) # {}
    <3>1. PICK i \in Strays(events, targets) : TRUE
      BY <2>3
    <3>2. Strays(events, targets) = {i}
      BY <2>1, <3>1
    <3>3. Cardinality({i}) = 1
      BY FS_Singleton
    <3> QED BY <3>2, <3>3
  <2> QED BY <2>2, <2>3
<1> QED BY <1>1, RecordHolds, PTL

=============================================================================
