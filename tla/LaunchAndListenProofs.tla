------------------------ MODULE LaunchAndListenProofs ------------------------
(***************************************************************************)
(* Proofs about the launch and the injection of a child, and, in the       *)
(* second half, about the listeners that the injected agents come to.      *)
(***************************************************************************)
EXTENDS LaunchAndListen, FiniteSetTheorems, TLAPS

-----------------------------------------------------------------------------
(***************************************************************************)
(* That no path is freed under the remote LoadLibraryW that reads it, for  *)
(* any number of attempts, and that a job that ends leaves nothing open.   *)
(* The argument for the first: an attempt has made no remote call before   *)
(* the step that makes it, later attempts have made none at all, and a     *)
(* helper process is alive only while its job waits for it. The invariant  *)
(* is stated job by job (JobInv), because a step of one job leaves the     *)
(* other's as it is. The second rests on three invariants of its own,      *)
(* stated after the proof of the first.                                    *)
(***************************************************************************)

BeforeCall == {"validate", "output", "create", "telemetry pipe", "open", "inject",
               "allocate", "remote thread", "helper output", "create helper"}

Shapes ==
    /\ DOMAIN pc = Jobs /\ DOMAIN helper = Jobs /\ DOMAIN proc = Procs
    /\ DOMAIN load = Loads /\ DOMAIN memory = Loads
    /\ tries \in [Jobs -> 1 .. Attempts] /\ tries["launch"] = 1

JobInv(j) ==
    /\ \A n \in 1 .. Attempts : n > tries[j] => load[<<j, n>>] = "none"
    /\ pc[j] \in BeforeCall => load[<<j, tries[j]>>] = "none"
    /\ pc[j] = "remote thread" => memory[<<j, tries[j]>>] = "allocated"
    /\ Alive(Helper(j)) => pc[j] = "wait helper"
    /\ helper[j] = "start" /\ Alive(Helper(j)) => load[<<j, tries[j]>>] = "none"
    /\ \A n \in 1 .. Attempts :
         load[<<j, n>>] = "running" /\ Alive(Subject(j)) => memory[<<j, n>>] = "allocated"

LaunchInv == Shapes /\ \A j \in Jobs : JobInv(j)

\* What a step does to a job that is not its own.
Untouched(j) ==
    /\ pc'[j] = pc[j] /\ tries'[j] = tries[j] /\ helper'[j] = helper[j]
    /\ \A n \in 1 .. Attempts :
         load'[<<j, n>>] = load[<<j, n>>] /\ memory'[<<j, n>>] = memory[<<j, n>>]
    /\ \A p \in {Subject(j), Helper(j)} : Alive(p)' => Alive(p)

LEMMA UntouchedKeeps ==
    ASSUME Shapes, NEW j \in Jobs, JobInv(j), Untouched(j) PROVE JobInv(j)'
BY DEF Shapes, JobInv, Untouched, Alive

LEMMA Names ==
    /\ Helper("launch") = "launch helper" /\ Helper("inject") = "inject helper"
    /\ Subject("launch") = "target" /\ Subject("inject") = "child"
    /\ "launch" \in Jobs /\ "inject" \in Jobs
    /\ \A i \in Jobs : i = "launch" \/ i = "inject"
BY DEF Helper, Subject, Jobs

LEMMA Distinct ==
    /\ \A i, j \in Jobs : i # j => Helper(i) # Helper(j) /\ Subject(i) # Subject(j)
    /\ \A i, j \in Jobs : Helper(i) # Subject(j)
    /\ \A i \in Jobs : Helper(i) \in Procs /\ Subject(i) \in Procs
    /\ \A i \in Jobs : Helper(i) # "target" /\ Helper(i) # "child"
BY Names DEF Procs, Helpers

\* The places of the last attempt of the job j are written.
MemorySet(j, v) ==
    /\ DOMAIN memory' = Loads /\ memory'[<<j, tries[j]>>] = v
    /\ \A i \in Jobs, n \in 1 .. Attempts :
         i # j \/ n # tries[j] => memory'[<<i, n>>] = memory[<<i, n>>]
LoadSet(j, v) ==
    /\ DOMAIN load' = Loads /\ load'[<<j, tries[j]>>] = v
    /\ \A i \in Jobs, n \in 1 .. Attempts :
         i # j \/ n # tries[j] => load'[<<i, n>>] = load[<<i, n>>]

LEMMA MemoryUpdate ==
    ASSUME Shapes, NEW j \in Jobs, NEW v, memory' = [memory EXCEPT ![Load(j)] = v]
    PROVE  MemorySet(j, v)
<1>1. /\ DOMAIN memory = Loads /\ tries[j] \in 1 .. Attempts
      /\ memory' = [memory EXCEPT ![<<j, tries[j]>>] = v]
  BY DEF Shapes, Load
<1> QED BY <1>1 DEF Loads, MemorySet

LEMMA LoadUpdate ==
    ASSUME Shapes, NEW j \in Jobs, NEW v, load' = [load EXCEPT ![Load(j)] = v]
    PROVE  LoadSet(j, v)
<1>1. /\ DOMAIN load = Loads /\ tries[j] \in 1 .. Attempts
      /\ load' = [load EXCEPT ![<<j, tries[j]>>] = v]
  BY DEF Shapes, Load
<1> QED BY <1>1 DEF Loads, LoadSet

LEMMA EndsEnds ==
    ASSUME Shapes, NEW p \in Procs, Ends(p)
    PROVE  DOMAIN proc' = Procs /\ ~Alive(p)' /\ \A q \in Procs : Alive(q)' => Alive(q)
BY DEF Ends, Alive, Shapes

LEMMA JobInvIsNotFreed == (\A j \in Jobs : JobInv(j)) => NotFreedInUse
<1> SUFFICES ASSUME \A j \in Jobs : JobInv(j), NEW l \in Loads,
                    load[l] = "running", Alive(Subject(l[1]))
             PROVE  memory[l] = "allocated"
  BY DEF NotFreedInUse
<1>1. PICK j \in Jobs, n \in 1 .. Attempts : l = <<j, n>>
  BY DEF Loads
<1> QED BY <1>1 DEF JobInv

-----------------------------------------------------------------------------
LEMMA LaunchInvInit == Init => LaunchInv
<1> SUFFICES ASSUME Init PROVE LaunchInv
  OBVIOUS
<1> USE AttemptsAssumption DEF Init
<1>1. /\ DOMAIN pc = Jobs /\ DOMAIN helper = Jobs /\ DOMAIN proc = Procs
      /\ DOMAIN load = Loads /\ DOMAIN memory = Loads
  BY DEF Jobs
<1>2. tries \in [Jobs -> 1 .. Attempts] /\ tries["launch"] = 1
  BY DEF Jobs
<1>3. Shapes
  BY <1>1, <1>2 DEF Shapes
<1>4. \A j \in Jobs, n \in 1 .. Attempts : load[<<j, n>>] = "none"
  BY DEF Loads
<1>5. pc["launch"] # "remote thread" /\ pc["inject"] # "remote thread"
  OBVIOUS
<1>6. \A j \in Jobs : ~Alive(Helper(j))
  BY Distinct DEF Alive
<1>7. ASSUME NEW j \in Jobs PROVE JobInv(j)
  <2>1. pc[j] # "remote thread"
    BY <1>5, Names
  <2>2. tries[j] \in 1 .. Attempts
    BY <1>2
  <2>3. load[<<j, tries[j]>>] = "none"
    BY <1>4, <2>2
  <2>4. \A n \in 1 .. Attempts : load[<<j, n>>] # "running"
    BY <1>4
  <2> HIDE DEF Init
  <2> QED BY <1>4, <1>6, <2>1, <2>3, <2>4 DEF JobInv
<1> QED BY <1>3, <1>7 DEF LaunchInv

\* A step of the job j that makes no remote call, frees nothing, starts no
\* process and counts no attempt.
LEMMA QuietStep ==
    ASSUME LaunchInv, NEW j \in Jobs, NEW place,
           pc' = [pc EXCEPT ![j] = place],
           UNCHANGED <<tries, helper, memory, load>>,
           DOMAIN proc' = Procs,
           \A p \in Procs : Alive(p)' => Alive(p),
           place \in BeforeCall => load[<<j, tries[j]>>] = "none",
           place # "remote thread",
           Alive(Helper(j))' => place = "wait helper"
    PROVE  LaunchInv'
<1>1. Shapes'
  BY DEF LaunchInv, Shapes
<1>2. ASSUME NEW i \in Jobs, i # j PROVE JobInv(i)'
  BY <1>2, UntouchedKeeps, Distinct DEF LaunchInv, Untouched, Shapes
<1>3. JobInv(j)'
  <2>1. JobInv(j) /\ pc'[j] = place
    BY DEF LaunchInv, Shapes
  <2>2. Alive(Subject(j))' => Alive(Subject(j))
    BY Distinct
  <2>3. Alive(Helper(j))' => Alive(Helper(j))
    BY Distinct
  <2> QED BY <2>1, <2>2, <2>3 DEF JobInv
<1> QED BY <1>1, <1>2, <1>3 DEF LaunchInv

\* A step of no job: processes may end.
LEMMA IdleStep ==
    ASSUME LaunchInv, UNCHANGED <<pc, tries, helper, memory, load>>,
           DOMAIN proc' = Procs, \A p \in Procs : Alive(p)' => Alive(p)
    PROVE  LaunchInv'
<1>1. Shapes'
  BY DEF LaunchInv, Shapes
<1>2. ASSUME NEW i \in Jobs PROVE JobInv(i)'
  BY <1>2, UntouchedKeeps, Distinct DEF LaunchInv, Untouched
<1> QED BY <1>1, <1>2 DEF LaunchInv

LEMMA GiveUpKeeps ==
    ASSUME LaunchInv, GiveUp, pc["launch"] # "wait helper" PROVE LaunchInv'
<1>1. DOMAIN proc' = Procs /\ \A p \in Procs : Alive(p)' => Alive(p)
  BY EndsEnds, Distinct, Names DEF GiveUp, LaunchInv, Procs
<1>2. ~Alive(Helper("launch"))
  BY Names DEF LaunchInv, JobInv
<1> QED BY <1>1, <1>2, QuietStep, Names, Distinct DEF GiveUp, Goto, BeforeCall

LEMMA StepOfKeeps ==
    ASSUME LaunchInv, NEW j \in Jobs, Shapes',
           \A i \in Jobs : i # j => Untouched(i), JobInv(j)'
    PROVE  LaunchInv'
<1>1. ASSUME NEW i \in Jobs, i # j PROVE JobInv(i)'
  BY <1>1, UntouchedKeeps DEF LaunchInv
<1> QED BY <1>1 DEF LaunchInv

\* Counting attempts.
LEMMA Counting ==
    /\ 1 \in 1 .. Attempts
    /\ \A n \in 1 .. Attempts : n = 1 \/ n > 1
    /\ \A t \in 1 .. Attempts : t < Attempts => t + 1 \in 1 .. Attempts /\ t + 1 > t
    /\ \A t \in 1 .. Attempts : ~(t < Attempts) => t = Attempts
    /\ \A t, n \in 1 .. Attempts : n > t + 1 => n > t
    /\ \A t, n \in 1 .. Attempts : n > t => n # t
BY AttemptsAssumption

\* A remote call of this attempt leaves those of later attempts unmade.
LEMMA LaterUnmade ==
    ASSUME LaunchInv, NEW j \in Jobs, LoadSet(j, "running"), tries' = tries
    PROVE  \A n \in 1 .. Attempts : n > tries'[j] => load'[<<j, n>>] = "none"
<1>1. PICK t \in 1 .. Attempts : tries[j] = t
  BY DEF LaunchInv, Shapes
<1>2. ASSUME NEW n \in 1 .. Attempts, n > t PROVE load'[<<j, n>>] = "none"
  <2>1. n # t
    BY <1>2, Counting
  <2>2. load'[<<j, n>>] = load[<<j, n>>]
    BY <1>1, <2>1 DEF LoadSet
  <2>3. load[<<j, n>>] = "none"
    BY <1>1, <1>2 DEF LaunchInv, JobInv
  <2> QED BY <2>2, <2>3
<1> QED BY <1>1, <1>2

\* Another attempt at the child, or the end of them.
LEMMA NextTryKeeps ==
    ASSUME LaunchInv, NextTry, pc["inject"] # "wait helper",
           pc' = [pc EXCEPT !["inject"] = Again],
           UNCHANGED <<helper, proc, memory, load>>
    PROVE  LaunchInv'
<1>1. /\ tries \in [Jobs -> 1 .. Attempts] /\ tries["launch"] = 1 /\ Shapes
      /\ JobInv("inject")
  BY Names DEF LaunchInv, Shapes
<1>2. PICK t \in 1 .. Attempts : tries["inject"] = t
  BY <1>1, Names
<1>3. PICK u \in 1 .. Attempts :
        /\ tries' = [tries EXCEPT !["inject"] = u]
        /\ (t < Attempts /\ u = t + 1) \/ (t = Attempts /\ u = t)
  <2>1. tries' = [tries EXCEPT !["inject"] = IF t < Attempts THEN t + 1 ELSE t]
    BY <1>2 DEF NextTry
  <2>2. t < Attempts => t + 1 \in 1 .. Attempts
    BY Zenon, Counting
  <2>3. ~(t < Attempts) => t = Attempts
    BY Zenon, Counting
  <2>4. CASE t < Attempts
    <3>1. tries' = [tries EXCEPT !["inject"] = t + 1]
      <4>1. (IF t < Attempts THEN t + 1 ELSE t) = t + 1
        BY <2>4, Zenon
      <4> QED BY <2>1, <4>1, Zenon
    <3> QED BY <2>2, <2>4, <3>1, Zenon
  <2>5. CASE ~(t < Attempts)
    <3>1. tries' = [tries EXCEPT !["inject"] = t]
      <4>1. (IF t < Attempts THEN t + 1 ELSE t) = t
        BY <2>5, Zenon
      <4> QED BY <2>1, <4>1, Zenon
    <3> QED BY <1>2, <2>3, <2>5, <3>1, Zenon
  <2> QED BY <2>4, <2>5
<1>4. tries' \in [Jobs -> 1 .. Attempts] /\ tries'["launch"] = 1 /\ tries'["inject"] = u
  BY <1>1, <1>3, Names
<1>5. Shapes'
  BY <1>1, <1>4 DEF Shapes
<1>6. ASSUME NEW i \in Jobs, i # "inject" PROVE Untouched(i)
  <2>1. i = "launch"
    BY <1>6, Names
  <2> QED BY <2>1, <1>1, <1>4 DEF Untouched, Shapes, Alive
<1>7. \A n \in 1 .. Attempts : n > t => load[<<"inject", n>>] = "none"
  BY <1>1, <1>2 DEF JobInv
<1>8. \A n \in 1 .. Attempts : n > tries'["inject"] => load'[<<"inject", n>>] = "none"
  <2>1. \A n \in 1 .. Attempts : n > u => n > t
    <3>1. CASE u = t + 1
      BY <1>2, <3>1, Counting, Zenon
    <3>2. CASE u = t
      BY <3>2, Zenon
    <3> QED BY <1>3, <3>1, <3>2, Zenon
  <2> QED BY <2>1, <1>4, <1>7
<1>9. ~Alive(Helper("inject"))'
  BY <1>1 DEF JobInv, Alive
<1>10. pc'["inject"] \in BeforeCall => load'[<<"inject", tries'["inject"]>>] = "none"
  <2>1. CASE t < Attempts
    <3>1. u > t
      BY <2>1, <1>3, Counting
    <3> QED BY <3>1, <1>4, <1>7
  <2>2. CASE ~(t < Attempts)
    BY <2>2, <1>1, <1>2, Names DEF Again, BeforeCall, Shapes
  <2> QED BY <2>1, <2>2
<1>11. pc'["inject"] # "remote thread"
  BY <1>1, Names DEF Again, Shapes
<1>12. \A n \in 1 .. Attempts :
         load'[<<"inject", n>>] = "running" /\ Alive(Subject("inject"))'
             => memory'[<<"inject", n>>] = "allocated"
  BY <1>1 DEF JobInv, Alive
<1>13. JobInv("inject")'
  BY <1>8, <1>9, <1>10, <1>11, <1>12 DEF JobInv
<1> QED BY <1>5, <1>6, <1>13, StepOfKeeps, Names

-----------------------------------------------------------------------------
LEMMA LaunchInvStep == LaunchInv /\ [Next]_vars => LaunchInv'
<1> SUFFICES ASSUME LaunchInv, [Next]_vars PROVE LaunchInv'
  OBVIOUS
<1>1. CASE UNCHANGED vars
  BY <1>1, IdleStep DEF vars, subject, LaunchInv, Shapes, Alive
<1>2. CASE Validate
  <2>1. PICK place \in {"output", "done"} : Goto("launch", place)
    BY <1>2 DEF Validate
  <2> QED BY <1>2, <2>1, QuietStep, Names, Distinct
      DEF Validate, Goto, BeforeCall, subject, LaunchInv, JobInv, Shapes, Alive
<1>3. CASE TargetOutput
  BY <1>3, QuietStep, Names, Distinct
  DEF TargetOutput, Goto, BeforeCall, subject, LaunchInv, JobInv, Shapes, Alive
<1>4. CASE CreateTelemetryPipe
  BY <1>4, QuietStep, Names, Distinct
  DEF CreateTelemetryPipe, Goto, BeforeCall, subject, LaunchInv, JobInv, Shapes, Alive
<1>5. CASE LaunchInjected
  BY <1>5, QuietStep, Names, Distinct
  DEF LaunchInjected, Goto, BeforeCall, subject, LaunchInv, JobInv, Shapes, Alive
<1>6. CASE Handshake
  BY <1>6, QuietStep, Names, Distinct
  DEF Handshake, Goto, BeforeCall, subject, LaunchInv, JobInv, Shapes, Alive
<1>7. CASE TakeOver
  BY <1>7, QuietStep, Names, Distinct
  DEF TakeOver, Goto, BeforeCall, subject, LaunchInv, JobInv, Shapes, Alive
<1>8. CASE ChildInjected
  BY <1>8, QuietStep, Names, Distinct
  DEF ChildInjected, Goto, BeforeCall, subject, LaunchInv, JobInv, Shapes, Alive
<1>9. CASE TelemetryPipeFails
  BY <1>9, GiveUpKeeps DEF TelemetryPipeFails
<1>10. CASE LaunchNotInjected
  BY <1>10, GiveUpKeeps DEF LaunchNotInjected
<1>11. CASE HandshakeFails
  BY <1>11, GiveUpKeeps DEF HandshakeFails
<1>12. CASE ResumeTarget
  <2>1. DOMAIN proc' = Procs /\ \A p \in Procs : Alive(p)' => Alive(p)
    BY <1>12, EndsEnds, Names DEF ResumeTarget, LaunchInv, Shapes, Alive, Procs
  <2>2. ~Alive(Helper("launch"))
    BY <1>12, Names DEF ResumeTarget, LaunchInv, JobInv
  <2> QED BY <1>12, <2>1, <2>2, QuietStep, Names, Distinct DEF ResumeTarget, Goto, BeforeCall
<1>13. CASE OutputEnds
  BY <1>13, IdleStep DEF OutputEnds, subject, LaunchInv, Shapes, Alive
<1>14. CASE CreateTarget
  <2>1. Shapes'
    BY <1>14 DEF CreateTarget, LaunchInv, Shapes, Goto
  <2>2. ASSUME NEW i \in Jobs, i # "launch" PROVE Untouched(i)
    <3>1. i = "inject"
      BY <2>2, Names
    <3>2. pc'["inject"] = pc["inject"]
      BY <1>14, Names DEF CreateTarget, LaunchInv, Shapes, Goto
    <3>3. UNCHANGED <<tries, helper, memory, load>>
      BY <1>14 DEF CreateTarget
    <3>4. proc' = proc \/ proc' = [proc EXCEPT !["target"] = "suspended"]
      BY <1>14 DEF CreateTarget
    <3>5. \A p \in Procs : p # "target" => proc'[p] = proc[p]
      BY <3>4 DEF LaunchInv, Shapes
    <3>6. \A p \in {"child", "inject helper"} : p \in Procs /\ p # "target"
      BY Names, Distinct
    <3>7. \A p \in {"child", "inject helper"} : Alive(p)' => Alive(p)
      BY <3>5, <3>6 DEF Alive
    <3> QED BY <3>1, <3>2, <3>3, <3>7, Names DEF Untouched
  <2>3. /\ UNCHANGED <<tries, helper, memory, load>> /\ pc["launch"] = "create"
        /\ pc'["launch"] \in {"telemetry pipe", "done"}
    BY <1>14, Names DEF CreateTarget, LaunchInv, Shapes, Goto
  <2>4. JobInv("launch") /\ tries["launch"] = 1 /\ Shapes
    BY Names DEF LaunchInv, Shapes
  <2>5. \A n \in 1 .. Attempts : load[<<"launch", n>>] = "none"
    <3>1. load[<<"launch", 1>>] = "none"
      BY <2>3, <2>4 DEF JobInv, BeforeCall
    <3> QED BY <3>1, <2>4, Counting DEF JobInv
  <2>6. ~Alive(Helper("launch"))'
    <3>1. ~Alive(Helper("launch"))
      BY <2>3, <2>4 DEF JobInv
    <3> QED BY <3>1, <1>14, <2>4, Distinct, Names DEF CreateTarget, Shapes, Alive
  <2>7. load'[<<"launch", tries'["launch"]>>] = "none"
    BY <2>3, <2>4, <2>5, Counting
  <2>8. JobInv("launch")'
    BY <2>3, <2>5, <2>6, <2>7 DEF JobInv
  <2> QED BY <2>1, <2>2, <2>8, StepOfKeeps, Names
<1>15. CASE OpenChild
  <2>1. CASE UNCHANGED tries /\ Goto("inject", "inject")
    BY <1>15, <2>1, QuietStep, Names, Distinct
    DEF OpenChild, Goto, BeforeCall, subject, LaunchInv, JobInv, Shapes, Alive
  <2>2. CASE NextTry /\ Goto("inject", Again)
    BY <1>15, <2>2, NextTryKeeps DEF OpenChild, Goto, subject
  <2> QED BY <1>15, <2>1, <2>2 DEF OpenChild
<1>16. CASE ChildNotInjected
  BY <1>16, NextTryKeeps DEF ChildNotInjected, Goto, subject
<1>17. ASSUME NEW j \in Jobs, Inject(j) PROVE LaunchInv'
  BY <1>17, QuietStep, Names, Distinct
  DEF Inject, Goto, BeforeCall, subject, LaunchInv, JobInv, Shapes, Alive
<1>18. ASSUME NEW j \in Jobs, Allocate(j) PROVE LaunchInv'
  <2>1. CASE UNCHANGED memory /\ Goto(j, "not injected")
    BY <1>18, <2>1, QuietStep, Names, Distinct
    DEF Allocate, Goto, BeforeCall, LaunchInv, JobInv, Shapes, Alive
  <2>2. CASE memory' = [memory EXCEPT ![Load(j)] = "allocated"] /\ Goto(j, "remote thread")
    <3>1. MemorySet(j, "allocated")
      BY <2>2, MemoryUpdate DEF LaunchInv
    <3>2. Shapes'
      BY <1>18, <2>2, <3>1 DEF Allocate, LaunchInv, Shapes, Goto, MemorySet
    <3>3. ASSUME NEW i \in Jobs, i # j PROVE Untouched(i)
      BY <1>18, <2>2, <3>1, <3>3 DEF Allocate, LaunchInv, Shapes, Goto, Untouched, Alive, MemorySet
    <3>4. /\ UNCHANGED <<tries, helper, load, proc>> /\ pc[j] = "allocate"
          /\ pc'[j] = "remote thread"
      BY <1>18, <2>2 DEF Allocate, LaunchInv, Shapes, Goto
    <3>5. JobInv(j)
      BY DEF LaunchInv
    <3>6. load[<<j, tries[j]>>] = "none" /\ ~Alive(Helper(j)) /\ ~Alive(Helper(j))'
      BY <3>4, <3>5 DEF JobInv, BeforeCall, Alive
    <3>7. \A n \in 1 .. Attempts :
            load'[<<j, n>>] = "running" /\ Alive(Subject(j))' => memory'[<<j, n>>] = "allocated"
      BY <3>1, <3>4, <3>5 DEF JobInv, MemorySet, Alive
    <3>8. JobInv(j)'
      BY <3>1, <3>4, <3>5, <3>6, <3>7 DEF JobInv, MemorySet
    <3> QED BY <3>2, <3>3, <3>8, StepOfKeeps
  <2> QED BY <1>18, <2>1, <2>2 DEF Allocate
<1>19. ASSUME NEW j \in Jobs, RemoteThread(j) PROVE LaunchInv'
  <2>0. JobInv(j) /\ pc[j] = "remote thread" /\ load[<<j, tries[j]>>] = "none"
    BY <1>19 DEF RemoteThread, LaunchInv, JobInv, BeforeCall
  <2>1. CASE /\ memory' = [memory EXCEPT ![Load(j)] = "freed"]
             /\ Goto(j, "not injected") /\ UNCHANGED load
    <3>1. MemorySet(j, "freed")
      BY <2>1, MemoryUpdate DEF LaunchInv
    <3>2. Shapes'
      BY <1>19, <2>1, <3>1 DEF RemoteThread, LaunchInv, Shapes, Goto, MemorySet
    <3>3. ASSUME NEW i \in Jobs, i # j PROVE Untouched(i)
      BY <1>19, <2>1, <3>1, <3>3
      DEF RemoteThread, LaunchInv, Shapes, Goto, Untouched, Alive, MemorySet
    <3>4. UNCHANGED <<tries, helper, load, proc>> /\ pc'[j] = "not injected"
      BY <1>19, <2>1 DEF RemoteThread, LaunchInv, Shapes, Goto
    <3>5. ~Alive(Helper(j))'
      BY <2>0, <3>4 DEF JobInv, Alive
    <3>6. \A n \in 1 .. Attempts :
            load'[<<j, n>>] = "running" /\ Alive(Subject(j))' => memory'[<<j, n>>] = "allocated"
      BY <2>0, <3>1, <3>4 DEF JobInv, MemorySet, Alive
    <3>7. JobInv(j)'
      BY <2>0, <3>4, <3>5, <3>6 DEF JobInv, BeforeCall
    <3> QED BY <3>2, <3>3, <3>7, StepOfKeeps
  <2>2. CASE /\ load' = [load EXCEPT ![Load(j)] = "running"]
             /\ Goto(j, "wait load") /\ UNCHANGED memory
    <3>1. LoadSet(j, "running")
      BY <2>2, LoadUpdate DEF LaunchInv
    <3>2. Shapes'
      BY <1>19, <2>2, <3>1 DEF RemoteThread, LaunchInv, Shapes, Goto, LoadSet
    <3>3. ASSUME NEW i \in Jobs, i # j PROVE Untouched(i)
      BY <1>19, <2>2, <3>1, <3>3
      DEF RemoteThread, LaunchInv, Shapes, Goto, Untouched, Alive, LoadSet
    <3>4. UNCHANGED <<tries, helper, memory, proc>> /\ pc'[j] = "wait load"
      BY <1>19, <2>2 DEF RemoteThread, LaunchInv, Shapes, Goto
    <3>5. ~Alive(Helper(j))'
      BY <2>0, <3>4 DEF JobInv, Alive
    <3>6. \A n \in 1 .. Attempts :
            load'[<<j, n>>] = "running" /\ Alive(Subject(j))' => memory'[<<j, n>>] = "allocated"
      BY <2>0, <3>1, <3>4 DEF JobInv, LoadSet, Alive
    <3>7. \A n \in 1 .. Attempts : n > tries'[j] => load'[<<j, n>>] = "none"
      BY <3>1, <3>4, LaterUnmade
    <3>8. JobInv(j)'
      BY <3>4, <3>5, <3>6, <3>7 DEF JobInv, BeforeCall
    <3> QED BY <3>2, <3>3, <3>8, StepOfKeeps
  <2> QED BY <1>19, <2>1, <2>2 DEF RemoteThread
<1>20. ASSUME NEW j \in Jobs, WaitLoad(j) PROVE LaunchInv'
  <2>0. JobInv(j) /\ pc[j] = "wait load"
    BY <1>20 DEF WaitLoad, LaunchInv
  <2>1. MemorySet(j, "freed")
    BY <1>20, MemoryUpdate DEF WaitLoad, LaunchInv
  <2>2. Shapes'
    BY <1>20, <2>1 DEF WaitLoad, LaunchInv, Shapes, Goto, MemorySet
  <2>3. ASSUME NEW i \in Jobs, i # j PROVE Untouched(i)
    BY <1>20, <2>1, <2>3 DEF WaitLoad, LaunchInv, Shapes, Goto, Untouched, Alive, MemorySet
  <2>4. UNCHANGED <<tries, helper, load, proc>> /\ pc'[j] \in {"injected", "not injected"}
    BY <1>20 DEF WaitLoad, LaunchInv, Shapes, Goto
  <2>5. ~Alive(Helper(j))'
    BY <2>0, <2>4 DEF JobInv, Alive
  <2>6. load[<<j, tries[j]>>] # "running" \/ ~Alive(Subject(j))
    BY <1>20 DEF WaitLoad, Load
  <2>7. \A n \in 1 .. Attempts :
          load'[<<j, n>>] = "running" /\ Alive(Subject(j))' => memory'[<<j, n>>] = "allocated"
    BY <2>0, <2>1, <2>4, <2>6 DEF JobInv, MemorySet, Alive
  <2>8. JobInv(j)'
    BY <2>0, <2>4, <2>5, <2>7 DEF JobInv, BeforeCall
  <2> QED BY <2>2, <2>3, <2>8, StepOfKeeps
<1>21. ASSUME NEW j \in Jobs, WaitLoadTimesOut(j) PROVE LaunchInv'
  BY <1>21, QuietStep, Names, Distinct
  DEF WaitLoadTimesOut, Goto, BeforeCall, subject, LaunchInv, JobInv, Shapes, Alive
<1>22. ASSUME NEW j \in Jobs, HelperOutput(j) PROVE LaunchInv'
  BY <1>22, QuietStep, Names, Distinct
  DEF HelperOutput, Goto, BeforeCall, subject, LaunchInv, JobInv, Shapes, Alive
<1>23. ASSUME NEW j \in Jobs, WaitHelper(j) PROVE LaunchInv'
  BY <1>23, QuietStep, Names, Distinct
  DEF WaitHelper, Goto, BeforeCall, subject, LaunchInv, JobInv, Shapes, Alive
<1>24. ASSUME NEW j \in Jobs, ReadHelper(j) PROVE LaunchInv'
  BY <1>24, QuietStep, Names, Distinct
  DEF ReadHelper, Goto, BeforeCall, subject, LaunchInv, JobInv, Shapes, Alive
<1>25. ASSUME NEW j \in Jobs, CreateHelper(j) PROVE LaunchInv'
  <2>0. JobInv(j) /\ pc[j] = "create helper" /\ load[<<j, tries[j]>>] = "none"
    BY <1>25 DEF CreateHelper, LaunchInv, JobInv, BeforeCall
  <2>1. Shapes'
    BY <1>25, Distinct DEF CreateHelper, LaunchInv, Shapes, Goto
  <2>2. ASSUME NEW p \in Procs, p # Helper(j) PROVE Alive(p)' => Alive(p)
    BY <1>25, <2>2 DEF CreateHelper, LaunchInv, Shapes, Alive
  <2>3. ASSUME NEW i \in Jobs, i # j PROVE Untouched(i)
    <3>1. UNCHANGED <<tries, memory, load>> /\ pc'[i] = pc[i] /\ helper'[i] = helper[i]
      BY <1>25, <2>3 DEF CreateHelper, LaunchInv, Shapes, Goto
    <3>2. \A p \in {Subject(i), Helper(i)} : Alive(p)' => Alive(p)
      BY <2>2, <2>3, Distinct
    <3> QED BY <3>1, <3>2 DEF Untouched
  <2>4. UNCHANGED <<tries, memory, load>> /\ Alive(Subject(j))' => Alive(Subject(j))
    BY <1>25, <2>2, Distinct DEF CreateHelper
  <2>5. ~Alive(Helper(j))
    BY <2>0 DEF JobInv
  <2>6. \/ pc'[j] = "wait helper"
        \/ pc'[j] = "not injected" /\ ~Alive(Helper(j))'
    BY <1>25, <2>5 DEF CreateHelper, LaunchInv, Shapes, Goto, Alive
  <2>7. UNCHANGED <<tries, memory, load>>
    BY <1>25 DEF CreateHelper
  <2>8. \A n \in 1 .. Attempts :
          load'[<<j, n>>] = "running" /\ Alive(Subject(j))' => memory'[<<j, n>>] = "allocated"
    BY <2>0, <2>4, <2>7 DEF JobInv
  <2>9. JobInv(j)'
    BY <2>0, <2>6, <2>7, <2>8 DEF JobInv, BeforeCall
  <2> QED BY <2>1, <2>3, <2>9, StepOfKeeps
<1>26. ASSUME NEW j \in Jobs, WaitHelperTimesOut(j) PROVE LaunchInv'
  <2>1. /\ DOMAIN proc' = Procs /\ ~Alive(Helper(j))'
        /\ \A p \in Procs : Alive(p)' => Alive(p)
    BY <1>26, EndsEnds, Distinct DEF WaitHelperTimesOut, LaunchInv
  <2> QED BY <1>26, <2>1, QuietStep DEF WaitHelperTimesOut, Goto, BeforeCall
<1>27. ASSUME NEW j \in Jobs, LoaderStarts(j) PROVE LaunchInv'
  <2>0. /\ JobInv(j) /\ pc[j] = "wait helper" /\ load[<<j, tries[j]>>] = "none"
        /\ UNCHANGED <<pc, tries>> /\ tries[j] \in 1 .. Attempts
    BY <1>27 DEF LoaderStarts, LaunchInv, JobInv, Shapes
  <2>1. CASE helper' = [helper EXCEPT ![j] = "exit 1"] /\ Ends(Helper(j)) /\ UNCHANGED <<memory, load>>
    <3>1. /\ DOMAIN proc' = Procs /\ ~Alive(Helper(j))'
          /\ \A p \in Procs : Alive(p)' => Alive(p)
      BY <2>1, EndsEnds, Distinct DEF LaunchInv
    <3>2. Shapes'
      BY <2>0, <2>1, <3>1 DEF LaunchInv, Shapes
    <3>3. ASSUME NEW i \in Jobs, i # j PROVE Untouched(i)
      BY <2>0, <2>1, <3>1, <3>3, Distinct DEF LaunchInv, Shapes, Untouched
    <3>4. Alive(Subject(j))' => Alive(Subject(j))
      BY <3>1, Distinct
    <3>5. \A n \in 1 .. Attempts :
            load'[<<j, n>>] = "running" /\ Alive(Subject(j))' => memory'[<<j, n>>] = "allocated"
      BY <2>0, <2>1, <3>4 DEF JobInv
    <3>6. JobInv(j)'
      BY <2>0, <2>1, <3>1, <3>5 DEF JobInv, BeforeCall
    <3> QED BY <3>2, <3>3, <3>6, StepOfKeeps
  <2>2. CASE /\ memory' = [memory EXCEPT ![Load(j)] = "allocated"]
             /\ load' = [load EXCEPT ![Load(j)] = "running"]
             /\ helper' = [helper EXCEPT ![j] = "wait"] /\ UNCHANGED proc
    <3>1. MemorySet(j, "allocated") /\ LoadSet(j, "running")
      BY <2>2, MemoryUpdate, LoadUpdate DEF LaunchInv
    <3>2. Shapes'
      BY <2>0, <2>2, <3>1 DEF LaunchInv, Shapes, MemorySet, LoadSet
    <3>3. ASSUME NEW i \in Jobs, i # j PROVE Untouched(i)
      BY <2>0, <2>2, <3>1, <3>3 DEF LaunchInv, Shapes, Untouched, Alive, MemorySet, LoadSet
    <3>4. helper'[j] = "wait"
      BY <2>2 DEF LaunchInv, Shapes
    <3>5. \A n \in 1 .. Attempts :
            load'[<<j, n>>] = "running" /\ Alive(Subject(j))' => memory'[<<j, n>>] = "allocated"
      <4>1. /\ memory'[<<j, tries[j]>>] = "allocated"
            /\ \A n \in 1 .. Attempts : n # tries[j] =>
                 load'[<<j, n>>] = load[<<j, n>>] /\ memory'[<<j, n>>] = memory[<<j, n>>]
        BY <3>1 DEF MemorySet, LoadSet
      <4>2. Alive(Subject(j))' => Alive(Subject(j))
        BY <2>2 DEF Alive
      <4>3. \A n \in 1 .. Attempts :
              load[<<j, n>>] = "running" /\ Alive(Subject(j)) => memory[<<j, n>>] = "allocated"
        BY <2>0 DEF JobInv
      <4> QED BY <4>1, <4>2, <4>3
    <3>6. \A n \in 1 .. Attempts : n > tries'[j] => load'[<<j, n>>] = "none"
      BY <2>0, <3>1, LaterUnmade
    <3>7. JobInv(j)'
      BY <2>0, <3>4, <3>5, <3>6 DEF JobInv, BeforeCall
    <3> QED BY <3>2, <3>3, <3>7, StepOfKeeps
  <2> QED BY <1>27, <2>1, <2>2 DEF LoaderStarts
<1>28. ASSUME NEW j \in Jobs, LoaderSucceeds(j) PROVE LaunchInv'
  <2>0. /\ JobInv(j) /\ pc[j] = "wait helper" /\ UNCHANGED <<pc, tries, load>>
        /\ helper' = [helper EXCEPT ![j] = "exit 0"]
    BY <1>28 DEF LoaderSucceeds, LaunchInv, JobInv
  <2>1. MemorySet(j, "freed")
    BY <1>28, MemoryUpdate DEF LoaderSucceeds, LaunchInv
  <2>2. /\ DOMAIN proc' = Procs /\ ~Alive(Helper(j))'
        /\ \A p \in Procs : Alive(p)' => Alive(p)
    BY <1>28, EndsEnds, Distinct DEF LoaderSucceeds, LaunchInv
  <2>3. Shapes'
    BY <2>0, <2>1, <2>2 DEF LaunchInv, Shapes, MemorySet
  <2>4. ASSUME NEW i \in Jobs, i # j PROVE Untouched(i)
    BY <2>0, <2>1, <2>2, <2>4, Distinct DEF LaunchInv, Shapes, Untouched, MemorySet
  <2>5. load[<<j, tries[j]>>] # "running" \/ ~Alive(Subject(j))
    BY <1>28 DEF LoaderSucceeds, Load
  <2>6. Alive(Subject(j))' => Alive(Subject(j))
    BY <2>2, Distinct
  <2>7. \A n \in 1 .. Attempts :
          load'[<<j, n>>] = "running" /\ Alive(Subject(j))' => memory'[<<j, n>>] = "allocated"
    BY <2>0, <2>1, <2>5, <2>6 DEF JobInv, MemorySet
  <2>8. JobInv(j)'
    BY <2>0, <2>2, <2>7 DEF JobInv, BeforeCall
  <2> QED BY <2>3, <2>4, <2>8, StepOfKeeps
<1>29. ASSUME NEW l \in Loads, RemoteLoad(l) PROVE LaunchInv'
  <2>0. UNCHANGED <<pc, tries, helper, proc, memory>>
    BY <1>29 DEF RemoteLoad
  <2>1. /\ DOMAIN load' = Loads
        /\ \A m \in Loads : load'[m] # load[m] => load[m] = "running" /\ load'[m] # "running"
    BY <1>29 DEF RemoteLoad, LaunchInv, Shapes
  <2>2. Shapes'
    BY <2>0, <2>1 DEF LaunchInv, Shapes
  <2>3. ASSUME NEW i \in Jobs PROVE JobInv(i)'
    <3>1. JobInv(i) /\ tries[i] \in 1 .. Attempts
      BY DEF LaunchInv, Shapes
    <3>2. \A n \in 1 .. Attempts :
            load'[<<i, n>>] # load[<<i, n>>]
                => load[<<i, n>>] = "running" /\ load'[<<i, n>>] # "running"
      BY <2>1 DEF Loads
    <3>3. /\ \A n \in 1 .. Attempts : load[<<i, n>>] = "none" => load'[<<i, n>>] = "none"
          /\ \A n \in 1 .. Attempts : load'[<<i, n>>] = "running" => load[<<i, n>>] = "running"
      BY <3>2
    <3>4. \A n \in 1 .. Attempts :
            load'[<<i, n>>] = "running" /\ Alive(Subject(i))' => memory'[<<i, n>>] = "allocated"
      BY <2>0, <3>1, <3>3 DEF JobInv, Alive
    <3>5. Alive(Helper(i))' => Alive(Helper(i))
      BY <2>0 DEF Alive
    <3> QED BY <2>0, <3>1, <3>3, <3>4, <3>5 DEF JobInv
  <2> QED BY <2>2, <2>3 DEF LaunchInv
<1>30. ASSUME NEW p \in Procs, ProcessExits(p) PROVE LaunchInv'
  BY <1>30, EndsEnds, IdleStep DEF ProcessExits, LaunchInv
<1> QED
  BY <1>1, <1>2, <1>3, <1>4, <1>5, <1>6, <1>7, <1>8, <1>9, <1>10, <1>11, <1>12, <1>13,
     <1>14, <1>15, <1>16, <1>17, <1>18, <1>19, <1>20, <1>21, <1>22, <1>23, <1>24, <1>25,
     <1>26, <1>27, <1>28, <1>29, <1>30, Names
  DEF Next, Launch, InjectChild, DirectInject, HelperInject, Loader

\* The path that a remote LoadLibraryW reads is not freed under it, however many
\* attempts are made, directly or by helpers, and whatever times out or dies.
THEOREM NotFreedInUseHolds == Spec => []NotFreedInUse
<1>1. LaunchInv => NotFreedInUse
  BY JobInvIsNotFreed DEF LaunchInv
<1> QED BY LaunchInvInit, LaunchInvStep, <1>1, PTL DEF Spec

-----------------------------------------------------------------------------
(***************************************************************************)
(* That a finished job has closed what it opened.  What a job has open is a *)
(* function of what it does next, but for the two pipes that may not have   *)
(* been made (Holds); the controller has a write end open only from the     *)
(* step that makes it to the one that creates the process it is for         *)
(* (WritersInv); and the target exists from its creation, runs only after   *)
(* the end of the launch, and has the agent when the launch says so         *)
(* (TargetInv).                                                             *)
(***************************************************************************)
Idle == {"validate", "output", "create", "open", "done"}

Holds(j, place, hs) ==
    /\ hs \subseteq HandleNames
    /\ "process" \in hs <=> place \notin Idle
    /\ "thread" \in hs <=> j = "launch" /\ place \notin Idle
    /\ "telemetry pipe" \in hs
         <=> j = "launch" /\ place \notin Idle \cup {"telemetry pipe", "resume"}
    /\ "remote thread" \in hs <=> place = "wait load"
    /\ "helper" \in hs <=> place \in {"wait helper", "read helper"}
    /\ "helper output" \in hs => place \in {"create helper", "wait helper", "read helper"}
    /\ "target output" \in hs
         => j = "launch" /\ place \notin {"validate", "output", "open", "resume", "done"}

HandlesInv ==
    /\ DOMAIN pc = Jobs /\ DOMAIN handles = Jobs
    /\ \A j \in Jobs : Holds(j, pc[j], handles[j])

LEMMA HandlesMove ==
    ASSUME HandlesInv, NEW j \in Jobs, NEW place, NEW hs,
           pc' = [pc EXCEPT ![j] = place], handles' = [handles EXCEPT ![j] = hs],
           Holds(j, place, hs)
    PROVE  HandlesInv'
<1>1. /\ DOMAIN pc' = Jobs /\ DOMAIN handles' = Jobs
      /\ pc'[j] = place /\ handles'[j] = hs
      /\ \A i \in Jobs : i # j => pc'[i] = pc[i] /\ handles'[i] = handles[i]
  BY DEF HandlesInv
<1> QED BY <1>1 DEF HandlesInv

LEMMA HandlesKept ==
    ASSUME HandlesInv, NEW j \in Jobs, NEW place,
           pc' = [pc EXCEPT ![j] = place], handles' = handles, Holds(j, place, handles[j])
    PROVE  HandlesInv'
<1>1. /\ DOMAIN pc' = Jobs /\ DOMAIN handles' = Jobs
      /\ pc'[j] = place /\ \A i \in Jobs : i # j => pc'[i] = pc[i]
  BY DEF HandlesInv
<1> QED BY <1>1 DEF HandlesInv

LEMMA HandlesSame == ASSUME HandlesInv, UNCHANGED <<pc, handles>> PROVE HandlesInv'
BY DEF HandlesInv

LEMMA HandlesInit == Init => HandlesInv
BY DEF Init, HandlesInv, Holds, Jobs, Idle

LEMMA GiveUpCloses ==
    ASSUME HandlesInv, GiveUp, pc["launch"] \in {"telemetry pipe", "not injected", "handshake"}
    PROVE  HandlesInv'
<1> DEFINE hs == handles["launch"] \ {"process", "thread", "telemetry pipe", "target output"}
<1>1. Holds("launch", pc["launch"], handles["launch"])
  BY Names DEF HandlesInv
<1>2. Holds("launch", "done", hs)
  BY <1>1 DEF Holds, Idle
<1>3. pc' = [pc EXCEPT !["launch"] = "done"] /\ handles' = [handles EXCEPT !["launch"] = hs]
  BY DEF GiveUp, Goto, Close
<1> HIDE DEF hs
<1> QED BY <1>2, <1>3, HandlesMove, Names

LEMMA HandlesStep == HandlesInv /\ [Next]_vars => HandlesInv'
<1> SUFFICES ASSUME HandlesInv, [Next]_vars PROVE HandlesInv'
  OBVIOUS
<1> DEFINE mine == handles["launch"]
           its == handles["inject"]
<1>a. Holds("launch", pc["launch"], mine) /\ Holds("inject", pc["inject"], its)
  BY Names DEF HandlesInv
<1>b. \A j \in Jobs : Holds(j, pc[j], handles[j])
  BY DEF HandlesInv
<1>1. CASE UNCHANGED vars
  BY <1>1, HandlesSame DEF vars
<1>2. CASE Validate
  <2>1. PICK place \in {"output", "done"} : Goto("launch", place)
    BY <1>2 DEF Validate
  <2>2. Holds("launch", place, mine)
    BY <1>2, <2>1, <1>a DEF Validate, Holds, Idle
  <2> QED BY <1>2, <2>1, <2>2, HandlesKept, Names DEF Validate, Goto
<1>3. CASE TargetOutput
  <2>1. Holds("launch", "create", mine) /\ Holds("launch", "create", mine \cup {"target output"})
    BY <1>3, <1>a DEF TargetOutput, Holds, Idle, HandleNames
  <2>2. CASE handles' = [handles EXCEPT !["launch"] = mine \cup {"target output"}]
    BY <1>3, <2>1, <2>2, HandlesMove, Names DEF TargetOutput, Goto
  <2>3. CASE handles' = handles
    BY <1>3, <2>1, <2>3, HandlesKept, Names DEF TargetOutput, Goto
  <2> QED BY <1>3, <2>2, <2>3 DEF TargetOutput, CreateOutput, Open, OutputOf
<1>4. CASE CreateTarget
  <2>1. /\ Holds("launch", "telemetry pipe", mine \cup {"process", "thread"})
        /\ Holds("launch", "done", mine \ {"target output"})
    BY <1>4, <1>a DEF CreateTarget, Holds, Idle, HandleNames
  <2>2. CASE /\ handles' = [handles EXCEPT !["launch"] = mine \cup {"process", "thread"}]
             /\ pc' = [pc EXCEPT !["launch"] = "telemetry pipe"]
    BY <2>1, <2>2, HandlesMove, Names
  <2>3. CASE /\ handles' = [handles EXCEPT !["launch"] = mine \ {"target output"}]
             /\ pc' = [pc EXCEPT !["launch"] = "done"]
    BY <2>1, <2>3, HandlesMove, Names
  <2> QED BY <1>4, <2>2, <2>3 DEF CreateTarget, Open, Close, Goto
<1>5. CASE CreateTelemetryPipe
  <2>1. Holds("launch", "inject", mine \cup {"telemetry pipe"})
    BY <1>5, <1>a DEF CreateTelemetryPipe, Holds, Idle, HandleNames
  <2> QED BY <1>5, <2>1, HandlesMove, Names DEF CreateTelemetryPipe, Open, Goto
<1>6. CASE TelemetryPipeFails
  BY <1>6, GiveUpCloses DEF TelemetryPipeFails
<1>7. CASE LaunchNotInjected
  BY <1>7, GiveUpCloses DEF LaunchNotInjected
<1>8. CASE HandshakeFails
  BY <1>8, GiveUpCloses DEF HandshakeFails
<1>9. CASE LaunchInjected
  <2>1. Holds("launch", "handshake", mine)
    BY <1>9, <1>a DEF LaunchInjected, Holds, Idle
  <2> QED BY <1>9, <2>1, HandlesKept, Names DEF LaunchInjected, Goto
<1>10. CASE Handshake
  <2>1. Holds("launch", "launched", mine)
    BY <1>10, <1>a DEF Handshake, Holds, Idle
  <2> QED BY <1>10, <2>1, HandlesKept, Names DEF Handshake, Goto
<1>11. CASE TakeOver
  <2>1. Holds("launch", "resume", mine \ {"telemetry pipe", "target output"})
    BY <1>11, <1>a DEF TakeOver, Holds, Idle
  <2> QED BY <1>11, <2>1, HandlesMove, Names DEF TakeOver, Close, Goto
<1>12. CASE ResumeTarget
  <2>1. Holds("launch", "done", mine \ {"thread", "process"})
    BY <1>12, <1>a DEF ResumeTarget, Holds, Idle
  <2> QED BY <1>12, <2>1, HandlesMove, Names DEF ResumeTarget, Close, Goto
<1>13. CASE OutputEnds
  BY <1>13, HandlesSame DEF OutputEnds
<1>14. CASE OpenChild
  <2>1. CASE Open("inject", {"process"}) /\ Goto("inject", "inject")
    <3>1. Holds("inject", "inject", its \cup {"process"})
      BY <1>14, <1>a DEF OpenChild, Holds, Idle, HandleNames
    <3> QED BY <2>1, <3>1, HandlesMove, Names DEF Open, Goto
  <2>2. CASE UNCHANGED handles /\ Goto("inject", Again)
    <3>1. Holds("inject", "open", its) /\ Holds("inject", "done", its)
      BY <1>14, <1>a DEF OpenChild, Holds, Idle
    <3>2. Holds("inject", Again, its)
      BY <3>1 DEF Again
    <3> QED BY <2>2, <3>2, HandlesKept, Names DEF Goto
  <2> QED BY <1>14, <2>1, <2>2 DEF OpenChild
<1>15. CASE ChildInjected
  <2>1. Holds("inject", "done", its \ {"process"})
    BY <1>15, <1>a DEF ChildInjected, Holds, Idle
  <2> QED BY <1>15, <2>1, HandlesMove, Names DEF ChildInjected, Close, Goto
<1>16. CASE ChildNotInjected
  <2>1. Holds("inject", "open", its \ {"process"}) /\ Holds("inject", "done", its \ {"process"})
    BY <1>16, <1>a DEF ChildNotInjected, Holds, Idle
  <2>2. Holds("inject", Again, its \ {"process"})
    BY <2>1 DEF Again
  <2> QED BY <1>16, <2>2, HandlesMove, Names DEF ChildNotInjected, Close, Goto
<1>17. ASSUME NEW j \in Jobs, Inject(j) PROVE HandlesInv'
  <2>1. Holds(j, "allocate", handles[j]) /\ Holds(j, "helper output", handles[j])
    BY <1>17, <1>b DEF Inject, Holds, Idle
  <2>2. Holds(j, IF direct[j] THEN "allocate" ELSE "helper output", handles[j])
    BY <2>1
  <2> QED BY <1>17, <2>2, HandlesKept DEF Inject, Goto
<1>18. ASSUME NEW j \in Jobs, Allocate(j) PROVE HandlesInv'
  <2>1. Holds(j, "remote thread", handles[j]) /\ Holds(j, "not injected", handles[j])
    BY <1>18, <1>b DEF Allocate, Holds, Idle
  <2> QED BY <1>18, <2>1, HandlesKept DEF Allocate, Goto
<1>19. ASSUME NEW j \in Jobs, RemoteThread(j) PROVE HandlesInv'
  <2>1. /\ Holds(j, "wait load", handles[j] \cup {"remote thread"})
        /\ Holds(j, "not injected", handles[j])
    BY <1>19, <1>b DEF RemoteThread, Holds, Idle, HandleNames
  <2>2. CASE Open(j, {"remote thread"}) /\ Goto(j, "wait load")
    BY <2>1, <2>2, HandlesMove DEF Open, Goto
  <2>3. CASE UNCHANGED handles /\ Goto(j, "not injected")
    BY <2>1, <2>3, HandlesKept DEF Goto
  <2> QED BY <1>19, <2>2, <2>3 DEF RemoteThread
<1>20. ASSUME NEW j \in Jobs, WaitLoad(j) \/ WaitLoadTimesOut(j) PROVE HandlesInv'
  <2> DEFINE hs == handles[j] \ {"remote thread"}
  <2>1. Holds(j, "injected", hs) /\ Holds(j, "not injected", hs)
    BY <1>20, <1>b DEF WaitLoad, WaitLoadTimesOut, Holds, Idle
  <2>2. handles' = [handles EXCEPT ![j] = hs]
    BY <1>20 DEF WaitLoad, WaitLoadTimesOut, Close
  <2>3. \/ pc' = [pc EXCEPT ![j] = "injected"]
        \/ pc' = [pc EXCEPT ![j] = "not injected"]
    BY <1>20 DEF WaitLoad, WaitLoadTimesOut, Goto
  <2> HIDE DEF hs
  <2> QED BY <2>1, <2>2, <2>3, HandlesMove
<1>21. ASSUME NEW j \in Jobs, HelperOutput(j) PROVE HandlesInv'
  <2>1. /\ Holds(j, "create helper", handles[j])
        /\ Holds(j, "create helper", handles[j] \cup {"helper output"})
    BY <1>21, <1>b DEF HelperOutput, Holds, Idle, HandleNames
  <2>2. OutputOf(Helper(j)) = "helper output"
    BY Distinct DEF OutputOf
  <2>3. CASE handles' = [handles EXCEPT ![j] = handles[j] \cup {"helper output"}]
    BY <1>21, <2>1, <2>3, HandlesMove DEF HelperOutput, Goto
  <2>4. CASE handles' = handles
    BY <1>21, <2>1, <2>4, HandlesKept DEF HelperOutput, Goto
  <2> QED BY <1>21, <2>2, <2>3, <2>4 DEF HelperOutput, CreateOutput, Open
<1>22. ASSUME NEW j \in Jobs, CreateHelper(j) PROVE HandlesInv'
  <2>1. /\ Holds(j, "wait helper", handles[j] \cup {"helper"})
        /\ Holds(j, "not injected", handles[j] \ {"helper output"})
    BY <1>22, <1>b DEF CreateHelper, Holds, Idle, HandleNames
  <2>2. CASE Open(j, {"helper"}) /\ Goto(j, "wait helper")
    BY <2>1, <2>2, HandlesMove DEF Open, Goto
  <2>3. CASE Close(j, {"helper output"}) /\ Goto(j, "not injected")
    BY <2>1, <2>3, HandlesMove DEF Close, Goto
  <2> QED BY <1>22, <2>2, <2>3 DEF CreateHelper
<1>23. ASSUME NEW j \in Jobs, WaitHelper(j) \/ WaitHelperTimesOut(j) PROVE HandlesInv'
  <2>1. Holds(j, "read helper", handles[j])
    BY <1>23, <1>b DEF WaitHelper, WaitHelperTimesOut, Holds, Idle
  <2> QED BY <1>23, <2>1, HandlesKept DEF WaitHelper, WaitHelperTimesOut, Goto
<1>24. ASSUME NEW j \in Jobs, ReadHelper(j) PROVE HandlesInv'
  <2> DEFINE hs == handles[j] \ {"helper", "helper output"}
  <2>1. Holds(j, "injected", hs) /\ Holds(j, "not injected", hs)
    BY <1>24, <1>b DEF ReadHelper, Holds, Idle
  <2>2. handles' = [handles EXCEPT ![j] = hs]
    BY <1>24 DEF ReadHelper, Close
  <2>3. \/ pc' = [pc EXCEPT ![j] = "injected"]
        \/ pc' = [pc EXCEPT ![j] = "not injected"]
    BY <1>24 DEF ReadHelper, Goto
  <2> HIDE DEF hs
  <2> QED BY <2>1, <2>2, <2>3, HandlesMove
<1>25. CASE \E j \in Jobs : Loader(j)
  BY <1>25, HandlesSame DEF Loader, LoaderStarts, LoaderSucceeds
<1>26. CASE \E l \in Loads : RemoteLoad(l)
  BY <1>26, HandlesSame DEF RemoteLoad
<1>27. CASE \E p \in Procs : ProcessExits(p)
  BY <1>27, HandlesSame DEF ProcessExits
<1> QED
  BY <1>1, <1>2, <1>3, <1>4, <1>5, <1>6, <1>7, <1>8, <1>9, <1>10, <1>11, <1>12, <1>13,
     <1>14, <1>15, <1>16, <1>17, <1>18, <1>19, <1>20, <1>21, <1>22, <1>23, <1>24, <1>25,
     <1>26, <1>27, Names
  DEF Next, Launch, InjectChild, DirectInject, HelperInject

-----------------------------------------------------------------------------
\* The step from which, and up to which, the controller has the write end.
Making(o) ==
    \/ o = "target" /\ pc["launch"] = "create"
    \/ \E j \in Jobs : o = Helper(j) /\ pc[j] = "create helper"

WritersInv ==
    /\ DOMAIN pc = Jobs /\ DOMAIN writers = Outputs
    /\ \A o \in Outputs : Controller \in writers[o] => Making(o)

Retains ==
    /\ DOMAIN writers' = Outputs
    /\ \A o \in Outputs : Controller \in writers'[o] => Controller \in writers[o]

LEMMA WritersSame == ASSUME WritersInv, Retains, UNCHANGED pc PROVE WritersInv'
BY DEF WritersInv, Retains, Making

LEMMA WritersMove ==
    ASSUME WritersInv, Retains, NEW j \in Jobs, NEW place, pc' = [pc EXCEPT ![j] = place],
           pc[j] \notin {"create", "create helper"}
    PROVE  WritersInv'
<1>1. DOMAIN pc' = Jobs /\ \A i \in Jobs : i # j => pc'[i] = pc[i]
  BY DEF WritersInv
<1>2. ASSUME NEW o \in Outputs, Making(o) PROVE Making(o)'
  BY <1>1, <1>2, Names DEF Making
<1> QED BY <1>1, <1>2 DEF WritersInv, Retains

LEMMA WritersUnchanged == ASSUME WritersInv, UNCHANGED writers PROVE Retains
BY DEF WritersInv, Retains

LEMMA EndsRetains == ASSUME NEW p, Ends(p) PROVE Retains
BY DEF Ends, Retains

LEMMA WritersInit == Init => WritersInv
BY DEF Init, WritersInv, Jobs, Outputs

\* The process of an output is made: nobody else makes it.
LEMMA WritersMade ==
    ASSUME WritersInv, NEW j \in Jobs, NEW place, NEW p \in Procs \ {"child"},
           pc' = [pc EXCEPT ![j] = place],
           \/ j = "launch" /\ p = "target" /\ pc[j] = "create"
           \/ p = Helper(j) /\ pc[j] = "create helper",
           writers' = Inherit(p) \/ writers' = CloseWrite(p)
    PROVE  WritersInv'
<1>1. DOMAIN pc' = Jobs /\ \A i \in Jobs : i # j => pc'[i] = pc[i]
  BY DEF WritersInv
<1>2. p # Controller
  BY Names DEF Procs, Helpers, Controller
<1>3. /\ DOMAIN writers' = Outputs
      /\ \A o \in Outputs : Controller \in writers'[o] => Controller \in writers[o] /\ o # p
  BY <1>2 DEF Inherit, CloseWrite, WritersInv
<1>4. ASSUME NEW o \in Outputs, o # p, Making(o) PROVE Making(o)'
  BY <1>1, <1>4, Names, Distinct DEF Making
<1> QED BY <1>1, <1>3, <1>4 DEF WritersInv

LEMMA WritersGiveUp ==
    ASSUME WritersInv, GiveUp, pc["launch"] \in {"telemetry pipe", "not injected", "handshake"}
    PROVE  WritersInv'
BY EndsRetains, WritersMove, Names DEF GiveUp, Goto

\* The pipe of a process that is about to be created.
LEMMA WritersOpened ==
    ASSUME WritersInv, NEW j \in Jobs, NEW place, NEW p \in Outputs,
           pc' = [pc EXCEPT ![j] = place],
           pc[j] \notin {"create", "create helper"},
           \/ j = "launch" /\ p = "target" /\ place = "create"
           \/ p = Helper(j) /\ place = "create helper",
           CreateOutput(j, p)
    PROVE  WritersInv'
<1>1. CASE UNCHANGED writers
  BY <1>1, WritersUnchanged, WritersMove
<1>2. CASE writers' = [writers EXCEPT ![p] = {Controller}]
  <2>1. /\ DOMAIN pc' = Jobs /\ pc'[j] = place
        /\ \A i \in Jobs : i # j => pc'[i] = pc[i]
    BY DEF WritersInv
  <2>2. DOMAIN writers' = Outputs /\ \A o \in Outputs : o # p => writers'[o] = writers[o]
    BY <1>2 DEF WritersInv
  <2>3. Making(p)'
    BY <2>1 DEF Making
  <2>4. ASSUME NEW o \in Outputs, Making(o) PROVE Making(o)'
    BY <2>1, <2>4, Names DEF Making
  <2> QED BY <2>1, <2>2, <2>3, <2>4 DEF WritersInv
<1> QED BY <1>1, <1>2 DEF CreateOutput

LEMMA WritersStep == WritersInv /\ [Next]_vars => WritersInv'
<1> SUFFICES ASSUME WritersInv, [Next]_vars PROVE WritersInv'
  OBVIOUS
<1>1. CASE UNCHANGED vars
  BY <1>1, WritersUnchanged, WritersSame DEF vars, subject
<1>2. CASE Validate
  <2>1. PICK place \in {"output", "done"} : Goto("launch", place)
    BY <1>2 DEF Validate
  <2> QED BY <1>2, <2>1, WritersUnchanged, WritersMove, Names DEF Validate, Goto, subject
<1>3. CASE TargetOutput
  <2>1. "target" \in Outputs
    BY DEF Outputs
  <2> QED BY <1>3, <2>1, WritersOpened, Names DEF TargetOutput, Goto
<1>4. CASE CreateTarget
  <2>1. "target" \in Procs \ {"child"}
    BY DEF Procs
  <2>2. writers' = Inherit("target") \/ writers' = CloseWrite("target")
    BY <1>4 DEF CreateTarget
  <2>3. /\ pc["launch"] = "create"
        /\ \/ pc' = [pc EXCEPT !["launch"] = "telemetry pipe"]
           \/ pc' = [pc EXCEPT !["launch"] = "done"]
    BY <1>4 DEF CreateTarget, Goto
  <2> QED BY <2>1, <2>2, <2>3, WritersMade, Names
<1>5. CASE CreateTelemetryPipe
  BY <1>5, WritersUnchanged, WritersMove, Names DEF CreateTelemetryPipe, Goto, subject
<1>6. CASE TelemetryPipeFails
  BY <1>6, WritersGiveUp DEF TelemetryPipeFails
<1>7. CASE LaunchNotInjected
  BY <1>7, WritersGiveUp DEF LaunchNotInjected
<1>8. CASE HandshakeFails
  BY <1>8, WritersGiveUp DEF HandshakeFails
<1>9. CASE LaunchInjected
  BY <1>9, WritersUnchanged, WritersMove, Names DEF LaunchInjected, Goto, subject
<1>10. CASE Handshake
  BY <1>10, WritersUnchanged, WritersMove, Names DEF Handshake, Goto, subject
<1>11. CASE TakeOver
  BY <1>11, WritersUnchanged, WritersMove, Names DEF TakeOver, Goto, subject
<1>12. CASE ResumeTarget
  <2>1. Retains
    BY <1>12, WritersUnchanged, EndsRetains DEF ResumeTarget
  <2> QED BY <1>12, <2>1, WritersMove, Names DEF ResumeTarget, Goto
<1>13. CASE OutputEnds
  BY <1>13, WritersUnchanged, WritersSame DEF OutputEnds, subject
<1>14. CASE OpenChild
  <2>1. UNCHANGED writers /\ pc["inject"] = "open"
    BY <1>14 DEF OpenChild, subject
  <2>2. \/ pc' = [pc EXCEPT !["inject"] = "inject"]
        \/ pc' = [pc EXCEPT !["inject"] = Again]
    BY <1>14 DEF OpenChild, Goto
  <2> QED BY <2>1, <2>2, WritersUnchanged, WritersMove, Names
<1>15. CASE ChildInjected
  BY <1>15, WritersUnchanged, WritersMove, Names DEF ChildInjected, Goto, subject
<1>16. CASE ChildNotInjected
  BY <1>16, WritersUnchanged, WritersMove, Names DEF ChildNotInjected, Goto, subject
<1>17. ASSUME NEW j \in Jobs, Inject(j) PROVE WritersInv'
  BY <1>17, WritersUnchanged, WritersMove DEF Inject, Goto, subject
<1>18. ASSUME NEW j \in Jobs, DirectInject(j) PROVE WritersInv'
  <2>1. UNCHANGED writers /\ pc[j] \in {"allocate", "remote thread", "wait load"}
    BY <1>18 DEF DirectInject, Allocate, RemoteThread, WaitLoad, WaitLoadTimesOut, subject
  <2>2. PICK place : pc' = [pc EXCEPT ![j] = place]
    BY <1>18 DEF DirectInject, Allocate, RemoteThread, WaitLoad, WaitLoadTimesOut, Goto
  <2> QED BY <2>1, <2>2, WritersUnchanged, WritersMove
<1>19. ASSUME NEW j \in Jobs, HelperOutput(j) PROVE WritersInv'
  <2>1. Helper(j) \in Outputs
    BY DEF Outputs, Helpers
  <2> QED BY <1>19, <2>1, WritersOpened DEF HelperOutput, Goto
<1>20. ASSUME NEW j \in Jobs, CreateHelper(j) PROVE WritersInv'
  <2>1. Helper(j) \in Procs \ {"child"}
    BY Distinct
  <2>2. writers' = Inherit(Helper(j)) \/ writers' = CloseWrite(Helper(j))
    BY <1>20 DEF CreateHelper
  <2>3. /\ pc[j] = "create helper"
        /\ \/ pc' = [pc EXCEPT ![j] = "wait helper"]
           \/ pc' = [pc EXCEPT ![j] = "not injected"]
    BY <1>20 DEF CreateHelper, Goto
  <2> QED BY <2>1, <2>2, <2>3, WritersMade
<1>21. ASSUME NEW j \in Jobs, WaitHelper(j) \/ WaitHelperTimesOut(j) \/ ReadHelper(j)
       PROVE  WritersInv'
  <2>1. Retains /\ pc[j] \in {"wait helper", "read helper"}
    BY <1>21, WritersUnchanged, EndsRetains DEF WaitHelper, WaitHelperTimesOut, ReadHelper, subject
  <2>2. PICK place : pc' = [pc EXCEPT ![j] = place]
    BY <1>21 DEF WaitHelper, WaitHelperTimesOut, ReadHelper, Goto
  <2> QED BY <2>1, <2>2, WritersMove
<1>22. ASSUME NEW j \in Jobs, Loader(j) PROVE WritersInv'
  <2>1. Retains /\ UNCHANGED pc
    BY <1>22, WritersUnchanged, EndsRetains DEF Loader, LoaderStarts, LoaderSucceeds
  <2> QED BY <2>1, WritersSame
<1>23. CASE \E l \in Loads : RemoteLoad(l)
  BY <1>23, WritersUnchanged, WritersSame DEF RemoteLoad
<1>24. CASE \E p \in Procs : ProcessExits(p)
  BY <1>24, EndsRetains, WritersSame DEF ProcessExits
<1> QED
  BY <1>1, <1>2, <1>3, <1>4, <1>5, <1>6, <1>7, <1>8, <1>9, <1>10, <1>11, <1>12, <1>13,
     <1>14, <1>15, <1>16, <1>17, <1>18, <1>19, <1>20, <1>21, <1>22, <1>23, <1>24, Names
  DEF Next, Launch, InjectChild, HelperInject

-----------------------------------------------------------------------------
Early == {"validate", "output", "create"}
Agent == <<"launch", 1>>       \* the remote LoadLibraryW in the target

Fits(place, status, result) ==
    /\ place \in Early => status = "none"
    /\ place # "done" => status # "running"
    /\ place = "done" => status # "suspended"
    /\ place = "launched" => result = "loaded"

TargetInv == Fits(pc["launch"], proc["target"], load[Agent])

\* The target may end, and its agent stays where it is.
Fades == proc'["target"] = proc["target"] \/ (Alive("target") /\ proc'["target"] = "gone")
AgentStays == load[Agent] = "loaded" => load'[Agent] = "loaded"

LEMMA TargetSame ==
    ASSUME TargetInv, pc'["launch"] = pc["launch"], Fades, AgentStays PROVE TargetInv'
BY DEF TargetInv, Fits, Fades, AgentStays, Alive, Early

\* A step of a job between the creation of the target and the handshake.
LEMMA TargetMove ==
    ASSUME LaunchInv, TargetInv, NEW j \in Jobs, NEW place, pc' = [pc EXCEPT ![j] = place],
           pc[j] \notin Early \cup {"done", "launched"},
           j = "launch" => place \notin Early \cup {"done", "launched"},
           proc'["target"] = proc["target"],
           j = "inject" => AgentStays
    PROVE  TargetInv'
<1>0. DOMAIN pc = Jobs
  BY DEF LaunchInv, Shapes
<1>1. CASE j = "inject"
  BY <1>0, <1>1, Names, TargetSame DEF Fades
<1>2. CASE j = "launch"
  <2>1. pc'["launch"] = place
    BY <1>0, <1>2
  <2> QED BY <2>1, <1>2 DEF TargetInv, Fits
<1> QED BY <1>1, <1>2, Names

LEMMA TargetEnds ==
    ASSUME LaunchInv, Ends("target")
    PROVE  Fades /\ proc'["target"] \notin {"suspended", "running"}
<1>1. DOMAIN proc = Procs /\ "target" \in Procs
  BY DEF LaunchInv, Shapes, Procs
<1> QED BY <1>1 DEF Ends, Alive, Fades

LEMMA OtherEnds ==
    ASSUME LaunchInv, NEW p \in Procs, p # "target", Ends(p)
    PROVE  proc'["target"] = proc["target"]
<1>1. DOMAIN proc = Procs /\ "target" \in Procs
  BY DEF LaunchInv, Shapes, Procs
<1> QED BY <1>1 DEF Ends

\* A remote call is made in the place of the job's attempt.
LEMMA AgentKept ==
    ASSUME LaunchInv, NEW j \in Jobs, NEW v, load' = [load EXCEPT ![Load(j)] = v],
           j = "launch" => load[Load(j)] # "loaded"
    PROVE  AgentStays
<1>1. LoadSet(j, v) /\ 1 \in 1 .. Attempts /\ "launch" \in Jobs /\ tries["launch"] = 1
  BY LoadUpdate, Names, Counting DEF LaunchInv, Shapes
<1>2. CASE j = "launch"
  BY <1>1, <1>2 DEF Load, AgentStays, Agent
<1>3. CASE j # "launch"
  <2>1. load'[<<"launch", 1>>] = load[<<"launch", 1>>]
    BY <1>1, <1>3 DEF LoadSet
  <2> QED BY <2>1 DEF AgentStays, Agent
<1> QED BY <1>2, <1>3

LEMMA AgentUnchanged == load' = load => AgentStays
BY DEF AgentStays

LEMMA TargetInit == Init => TargetInv
BY DEF Init, TargetInv, Fits, Procs, Early

LEMMA TargetGivenUp == ASSUME LaunchInv, GiveUp PROVE TargetInv'
<1>1. pc'["launch"] = "done"
  BY Names DEF GiveUp, Goto, LaunchInv, Shapes
<1>2. proc'["target"] # "suspended"
  BY TargetEnds DEF GiveUp
<1> QED BY <1>1, <1>2 DEF TargetInv, Fits, Early

LEMMA TargetStep == LaunchInv /\ TargetInv /\ [Next]_vars => TargetInv'
<1> SUFFICES ASSUME LaunchInv, TargetInv, [Next]_vars PROVE TargetInv'
  OBVIOUS
<1>0. DOMAIN pc = Jobs /\ DOMAIN proc = Procs /\ "target" \in Procs
  BY DEF LaunchInv, Shapes, Procs
<1>1. CASE UNCHANGED vars
  BY <1>1, TargetSame DEF vars, subject, Fades, AgentStays
<1>2. CASE Validate
  BY <1>2, <1>0, Names DEF Validate, Goto, subject, TargetInv, Fits, Early
<1>3. CASE TargetOutput
  BY <1>3, <1>0, Names DEF TargetOutput, Goto, TargetInv, Fits, Early
<1>4. CASE CreateTarget
  BY <1>4, <1>0, Names DEF CreateTarget, Goto, TargetInv, Fits, Early
<1>5. CASE CreateTelemetryPipe
  BY <1>5, TargetMove, Names DEF CreateTelemetryPipe, Goto, subject, Early
<1>6. CASE TelemetryPipeFails \/ LaunchNotInjected \/ HandshakeFails
  BY <1>6, TargetGivenUp DEF TelemetryPipeFails, LaunchNotInjected, HandshakeFails
<1>7. CASE LaunchInjected
  BY <1>7, TargetMove, Names DEF LaunchInjected, Goto, subject, Early
<1>8. CASE Handshake
  <2>1. load[Agent] = "loaded"
    BY <1>8 DEF Handshake, Load, Agent, LaunchInv, Shapes
  <2> QED BY <1>8, <1>0, <2>1, Names DEF Handshake, Goto, subject, TargetInv, Fits, Early
<1>9. CASE TakeOver
  BY <1>9, <1>0, Names DEF TakeOver, Goto, subject, TargetInv, Fits, Early
<1>10. CASE ResumeTarget
  <2>1. pc'["launch"] = "done"
    BY <1>10, <1>0, Names DEF ResumeTarget, Goto
  <2>2. proc'["target"] # "suspended"
    BY <1>10, <1>0, TargetEnds DEF ResumeTarget
  <2> QED BY <2>1, <2>2 DEF TargetInv, Fits, Early
<1>11. CASE OutputEnds
  BY <1>11, TargetSame, AgentUnchanged DEF OutputEnds, subject, Fades
<1>12. CASE OpenChild \/ ChildInjected \/ ChildNotInjected
  <2>1. pc'["launch"] = pc["launch"]
    <3>1. PICK place : pc' = [pc EXCEPT !["inject"] = place]
      BY <1>12 DEF OpenChild, ChildInjected, ChildNotInjected, Goto
    <3> QED BY <3>1, <1>0, Names
  <2>2. Fades /\ AgentStays
    BY <1>12, AgentUnchanged DEF OpenChild, ChildInjected, ChildNotInjected, subject, Fades
  <2> QED BY <2>1, <2>2, TargetSame
<1>13. ASSUME NEW j \in Jobs, Inject(j) PROVE TargetInv'
  <2>1. AgentStays /\ UNCHANGED proc
    BY <1>13, AgentUnchanged DEF Inject, subject
  <2>2. \/ pc' = [pc EXCEPT ![j] = "allocate"]
        \/ pc' = [pc EXCEPT ![j] = "helper output"]
    BY <1>13 DEF Inject, Goto
  <2> QED BY <1>13, <2>1, <2>2, TargetMove DEF Inject, Early
<1>14. ASSUME NEW j \in Jobs, DirectInject(j) PROVE TargetInv'
  <2>1. /\ UNCHANGED proc /\ pc[j] \in {"allocate", "remote thread", "wait load"}
        /\ \E place \in {"remote thread", "not injected", "wait load", "injected"} :
             pc' = [pc EXCEPT ![j] = place]
    BY <1>14 DEF DirectInject, Allocate, RemoteThread, WaitLoad, WaitLoadTimesOut, Goto, subject
  <2>2. load' = load \/ load' = [load EXCEPT ![Load(j)] = "running"]
    BY <1>14 DEF DirectInject, Allocate, RemoteThread, WaitLoad, WaitLoadTimesOut, subject
  <2>3. j = "inject" => AgentStays
    BY <2>2, AgentUnchanged, AgentKept
  <2>4. PICK place \in {"remote thread", "not injected", "wait load", "injected"} :
             pc' = [pc EXCEPT ![j] = place]
    BY <2>1
  <2> QED BY <2>1, <2>3, <2>4, TargetMove DEF Early
<1>15. ASSUME NEW j \in Jobs, HelperInject(j) PROVE TargetInv'
  <2>1. /\ UNCHANGED load
        /\ pc[j] \in {"helper output", "create helper", "wait helper", "read helper"}
        /\ \E place \in {"create helper", "wait helper", "read helper", "injected",
                         "not injected"} : pc' = [pc EXCEPT ![j] = place]
    BY <1>15 DEF HelperInject, HelperOutput, CreateHelper, WaitHelper, WaitHelperTimesOut,
                 ReadHelper, Goto, subject
  <2>2. Helper(j) \in Procs /\ Helper(j) # "target"
    BY Distinct
  <2>3. \/ UNCHANGED proc \/ proc' = [proc EXCEPT ![Helper(j)] = "running"]
        \/ Ends(Helper(j))
    BY <1>15 DEF HelperInject, HelperOutput, CreateHelper, WaitHelper, WaitHelperTimesOut,
                 ReadHelper, subject
  <2>4. proc'["target"] = proc["target"]
    BY <1>0, <2>2, <2>3, OtherEnds
  <2>5. PICK place \in {"create helper", "wait helper", "read helper", "injected",
                        "not injected"} : pc' = [pc EXCEPT ![j] = place]
    BY <2>1
  <2> QED BY <2>1, <2>4, <2>5, AgentUnchanged, TargetMove DEF Early
<1>16. ASSUME NEW j \in Jobs, Loader(j) PROVE TargetInv'
  <2>1. UNCHANGED pc /\ (UNCHANGED proc \/ Ends(Helper(j)))
    BY <1>16 DEF Loader, LoaderStarts, LoaderSucceeds
  <2>2. proc'["target"] = proc["target"]
    BY <2>1, Distinct, OtherEnds
  <2>3. \/ UNCHANGED load
        \/ load' = [load EXCEPT ![Load(j)] = "running"] /\ helper[j] = "start" /\ Alive(Helper(j))
    BY <1>16 DEF Loader, LoaderStarts, LoaderSucceeds
  <2>4. helper[j] = "start" /\ Alive(Helper(j)) => load[Load(j)] = "none"
    BY DEF LaunchInv, JobInv, Load
  <2>5. AgentStays
    BY <2>3, <2>4, AgentUnchanged, AgentKept
  <2> QED BY <2>1, <2>2, <2>5, TargetSame DEF Fades
<1>17. ASSUME NEW l \in Loads, RemoteLoad(l) PROVE TargetInv'
  <2>1. PICK v : load' = [load EXCEPT ![l] = v] /\ load[l] = "running"
    BY <1>17 DEF RemoteLoad
  <2>2. AgentStays
    BY <2>1 DEF AgentStays, LaunchInv, Shapes
  <2> QED BY <1>17, <2>2, TargetSame DEF RemoteLoad, Fades
<1>18. ASSUME NEW p \in Procs, ProcessExits(p) PROVE TargetInv'
  <2>1. Fades
    BY <1>18, TargetEnds, OtherEnds DEF ProcessExits, Fades
  <2> QED BY <1>18, <2>1, AgentUnchanged, TargetSame DEF ProcessExits
<1> QED
  BY <1>1, <1>2, <1>3, <1>4, <1>5, <1>6, <1>7, <1>8, <1>9, <1>10, <1>11, <1>12, <1>13,
     <1>14, <1>15, <1>16, <1>17, <1>18, Names
  DEF Next, Launch, InjectChild

\* What is left when a job ends, and what a launch has when the worker takes it.
LEMMA InvariantsClean == HandlesInv /\ WritersInv /\ TargetInv => CleanOutcome
<1> SUFFICES ASSUME HandlesInv, WritersInv, TargetInv PROVE CleanOutcome
  OBVIOUS
<1>1. ASSUME NEW j \in Jobs, pc[j] = "done"
      PROVE  /\ handles[j] = {}
             /\ \A o \in {Helper(j), Subject(j)} \cap Outputs : Controller \notin writers[o]
  <2>1. Holds(j, "done", handles[j])
    BY <1>1 DEF HandlesInv
  <2>2. \A h \in HandleNames : h \notin handles[j]
    BY <2>1 DEF Holds, Idle, HandleNames
  <2>3. handles[j] = {}
    BY <2>1, <2>2 DEF Holds
  <2>4. "child" \notin Outputs
    BY Names DEF Outputs, Helpers
  <2>5. ASSUME NEW o \in {Helper(j), Subject(j)} \cap Outputs PROVE ~Making(o)
    BY <1>1, <2>4, <2>5, Names, Distinct DEF Making
  <2> QED BY <2>3, <2>5 DEF WritersInv
<1>2. pc["launch"] = "done" => proc["target"] # "suspended"
  BY DEF TargetInv, Fits
<1>3. ASSUME pc["launch"] = "launched"
      PROVE  /\ load[<<"launch", 1>>] = "loaded" /\ proc["target"] # "running"
             /\ handles["launch"] \ {"target output"} = {"process", "thread", "telemetry pipe"}
  <2>1. Holds("launch", "launched", handles["launch"])
    BY <1>3, Names DEF HandlesInv
  <2>2. handles["launch"] \ {"target output"} = {"process", "thread", "telemetry pipe"}
    BY <2>1 DEF Holds, Idle, HandleNames
  <2> QED BY <1>3, <2>2 DEF TargetInv, Fits, Agent
<1> QED BY <1>1, <1>2, <1>3 DEF CleanOutcome

\* Whatever fails, a finished job has closed what it opened, no target is left
\* suspended, and a launch that goes on has its agent in a target not yet run.
THEOREM CleanOutcomeHolds == Spec => []CleanOutcome
<1> DEFINE Inv == LaunchInv /\ HandlesInv /\ WritersInv /\ TargetInv
<1>1. Init => Inv
  BY LaunchInvInit, HandlesInit, WritersInit, TargetInit
<1>2. Inv /\ [Next]_vars => Inv'
  BY LaunchInvStep, HandlesStep, WritersStep, TargetStep
<1>3. Inv => CleanOutcome
  BY InvariantsClean
<1> QED BY <1>1, <1>2, <1>3, PTL DEF Spec

-----------------------------------------------------------------------------
(***************************************************************************)
(* Proofs about the additional pipe listeners, for any pids and agents and *)
(* for any number of launches.  The invariant says who is where:           *)
(* OneListener ties the set of pids to the listeners and to the starts     *)
(* under way; AskedGoesOn and ConfigTaken tie both to the launch; Served   *)
(* says what the agent at a listener's instance has done, given the place  *)
(* of the listener in the handshake; Exit and Prepared say what the window *)
(* that is closing has left undone.                                        *)
(***************************************************************************)

StarterPlaces == {"idle", "configure", "start", "ask", "insert", "push"}
WindowPlaces == {"open", "snapshot", "poke", "hang up", "detach", "leave", "returned", "destroyed"}
Instances == {"none", "listening", "left", "stop"} \cup Agents

ThreadTypes ==
    /\ listening \in BOOLEAN /\ joinable \in BOOLEAN
    /\ pids \subseteq Pids /\ readers \subseteq Agents
    /\ listener \in [Pids -> ListenerPlaces] /\ instance \in [Pids -> Instances]
SessionTypes ==
    /\ session \in Nat /\ config \in Nat /\ target \in Pids \cup {NoPid}
    /\ starter \in [Starters -> [at : StarterPlaces, pid : Pids \cup {NoPid}]]
    /\ \A s \in Starters : starter[s].at \in {"insert", "push"} => starter[s].pid \in Pids
    /\ window \in [at : WindowPlaces, left : SUBSET Pids, next : {"launch", "exit"}]
    /\ asked \subseteq Pids /\ busy \in BOOLEAN
AgentTypes ==
    /\ stage \in [Agents -> AgentPlaces] /\ pipeOf \in [Agents -> Pids \cup {NoPid}]
    /\ said \in [Agents -> {"nothing", "register", "ready", "error"}]
    /\ got \in [Agents -> Nat] /\ born \in [Agents -> Nat]
Types == ThreadTypes /\ SessionTypes /\ AgentTypes

\* A pid is in the set from the start of its listener to the end of it.
Pushing(s, p) == starter[s].at = "push" /\ starter[s].pid = p
Pushed(p) == \E s \in Starters : Pushing(s, p)
OneListener ==
    \A p \in Pids :
        /\ p \in pids <=> (listener[p] # "none" \/ Pushed(p))
        /\ listener[p] # "none" => ~Pushed(p)
        /\ \A s, t \in Starters : Pushing(s, p) /\ Pushing(t, p) => s = t
AskedGoesOn ==
    listening => \A p \in asked : listener[p] \notin {"none", "erase"} \/ Pushed(p)

\* The configuration is behind the session only until the launch worker takes it.
ConfigTaken ==
    /\ config <= session
    /\ starter["launch"].at # "configure" => config = session

ClientInv(a, p) ==
    /\ pipeOf[a] = p /\ stage[a] # "none"
    /\ listener[p] \in {"ready", "hand over"} => got[a] # 0
    /\ listener[p] = "hand over" => stage[a] \in {"trace", "dead"}
AgentInv(a) ==
    /\ stage[a] = "none" => got[a] = 0
    /\ stage[a] # "none" => 1 <= born[a] /\ born[a] <= config
    /\ got[a] # 0 => got[a] >= born[a]
    /\ said[a] = "ready" => stage[a] \in {"trace", "dead"}
    /\ said[a] = "error" => stage[a] \in {"failed", "dead"}
    /\ a \in readers => stage[a] \in {"trace", "dead"} /\ got[a] # 0
    /\ \A p \in Pids : instance[p] = a => ClientInv(a, p)
Client == \A p \in Pids : listener[p] \in {"config", "ready", "hand over"} => instance[p] \in Agents
Served == Client /\ \A a \in Agents : AgentInv(a)

\* What is not under way when the window is closed does not begin any more.
Leaving == window.at # "open" /\ window.next = "exit"
Exit ==
    /\ window.at \in {"detach", "leave", "returned", "destroyed"} => window.next = "exit"
    /\ Leaving /\ ~busy =>
         /\ listening = FALSE
         /\ \A p \in Pids : listener[p] \notin {"poll", "register", "config", "ready", "hand over"}
         /\ starter["launch"].at = "idle" /\ starter["child"].at \in {"idle", "ask"}
         /\ window.at \in {"leave", "returned", "destroyed"} => joinable = FALSE

Prepared == window.at # "open" /\ window.next = "launch" => starter["launch"].at = "idle"

IInv == Types /\ OneListener /\ AskedGoesOn /\ ConfigTaken /\ Served /\ Exit /\ Prepared

LEMMA IInvInit == ListenersInit => IInv
<1> SUFFICES ASSUME ListenersInit PROVE IInv
  OBVIOUS
<1> USE ListenersAssumption DEF ListenersInit
<1>1. Types
  BY DEF Types, ThreadTypes, SessionTypes, AgentTypes, Instances, StarterPlaces, WindowPlaces,
         ListenerPlaces, AgentPlaces, Starters
<1>2. OneListener /\ AskedGoesOn /\ ConfigTaken
  BY DEF OneListener, AskedGoesOn, ConfigTaken, Pushed, Pushing, Starters
<1>3. Served
  BY DEF Served, Client, AgentInv
<1>4. Exit /\ Prepared
  BY DEF Exit, Prepared, Leaving
<1> QED BY <1>1, <1>2, <1>3, <1>4 DEF IInv

LEMMA SessionKeeps ==
    ASSUME SessionTypes, UNCHANGED <<sessionVars, historyVars>> PROVE SessionTypes'
BY DEF SessionTypes, sessionVars, historyVars, Starters

LEMMA PreparedKeeps ==
    ASSUME Prepared, window' = window,
           starter["launch"].at = "idle" => starter'["launch"].at = "idle"
    PROVE  Prepared'
BY DEF Prepared

LEMMA AgentsKeep ==
    ASSUME AgentTypes, UNCHANGED agentVars PROVE AgentTypes'
BY DEF AgentTypes, agentVars

LEMMA AllStarters == \A s \in Starters : s = "launch" \/ s = "child"
BY DEF Starters

\* A step of a listener that neither begins nor ends it.
LEMMA PlaceMoves ==
    ASSUME IInv, NEW p \in Pids, NEW place \in ListenerPlaces,
           listener' = [listener EXCEPT ![p] = place],
           UNCHANGED <<listening, pids, sessionVars, historyVars>>,
           joinable' = joinable \/ listener[p] = "hand over",
           listener[p] # "none", place # "none", place = "erase" => ~listening,
           place \in {"poll", "register", "config", "ready", "hand over"} =>
               listening \/ listener[p] \in {"poll", "register", "config", "ready", "hand over"}
    PROVE  OneListener' /\ AskedGoesOn' /\ ConfigTaken' /\ Exit' /\ Prepared'
<1>0. /\ ThreadTypes /\ SessionTypes /\ OneListener /\ AskedGoesOn /\ ConfigTaken /\ Exit
  BY DEF IInv, Types
<1>1. \A q \in Pids : listener'[q] = IF q = p THEN place ELSE listener[q]
  BY <1>0 DEF ThreadTypes
<1>2. starter' = starter /\ window' = window /\ asked' = asked /\ busy' = busy
      /\ session' = session /\ config' = config
  BY DEF sessionVars, historyVars
<1>3. \A s \in Starters, q \in Pids : Pushing(s, q)' <=> Pushing(s, q)
  BY <1>2 DEF Pushing
<1>4. \A q \in Pids : Pushed(q)' <=> Pushed(q)
  BY <1>3 DEF Pushed
<1>5. \A q \in Pids : listener'[q] # "none" <=> listener[q] # "none"
  BY <1>1
<1>6. OneListener'
  BY <1>0, <1>3, <1>4, <1>5 DEF OneListener
<1>7. listening => \A q \in Pids : listener'[q] = "erase" => listener[q] = "erase"
  BY <1>1
<1>8. AskedGoesOn'
  BY <1>0, <1>2, <1>4, <1>5, <1>7 DEF AskedGoesOn, SessionTypes
<1>9. ConfigTaken'
  BY <1>0, <1>2 DEF ConfigTaken
<1>10. Exit'
  BY <1>0, <1>1, <1>2 DEF Exit, Leaving
<1>11. Prepared'
  BY <1>2, PreparedKeeps DEF IInv
<1> QED BY <1>6, <1>8, <1>9, <1>10, <1>11

LEMMA BornBefore == \A b, c \in Nat : 1 <= b /\ b <= c => c # 0 /\ c >= b
OBVIOUS

\* What a client of a listener has done is still so after a step of the listener
\* of p, if it is so of the client of p.
LEMMA ClientMoves ==
    ASSUME ThreadTypes, NEW a \in Agents, AgentInv(a), NEW p \in Pids, NEW place, NEW i,
           listener' = [listener EXCEPT ![p] = place], instance' = [instance EXCEPT ![p] = i],
           UNCHANGED <<pipeOf, stage>>, got[a] # 0 => got'[a] # 0, i = a => ClientInv(a, p)'
    PROVE  \A q \in Pids : instance'[q] = a => ClientInv(a, q)'
<1> SUFFICES ASSUME NEW q \in Pids, instance'[q] = a PROVE ClientInv(a, q)'
  OBVIOUS
<1>1. CASE q = p
  BY <1>1 DEF ThreadTypes
<1>2. CASE q # p
  <2>1. instance[q] = a /\ listener'[q] = listener[q]
    BY <1>2 DEF ThreadTypes
  <2>2. ClientInv(a, q)
    BY <2>1 DEF AgentInv
  <2> QED BY <2>1, <2>2 DEF ClientInv
<1> QED BY <1>1, <1>2

\* A step of a listener that leaves the readers alone.
LEMMA ListenerMoves ==
    ASSUME IInv, NEW p \in Pids, NEW place \in ListenerPlaces, NEW i \in Instances,
           listener' = [listener EXCEPT ![p] = place], instance' = [instance EXCEPT ![p] = i],
           UNCHANGED <<listening, pids, readers, joinable, sessionVars, historyVars>>,
           UNCHANGED <<stage, pipeOf, born>>,
           said' \in [Agents -> {"nothing", "register", "ready", "error"}],
           \A a \in Agents : said'[a] \in {said[a], "nothing"},
           got' \in [Agents -> Nat], \A a \in Agents : got'[a] \in {got[a], config},
           \A a \in Agents : got'[a] # got[a] => stage[a] # "none",
           listener[p] # "none", place # "none", place = "erase" => ~listening,
           i \in Agents => i = instance[p],
           place \in {"config", "ready", "hand over"} => i \in Agents,
           place \in {"poll", "register", "config", "ready", "hand over"} =>
               listening \/ listener[p] \in {"poll", "register", "config", "ready", "hand over"},
           i \in Agents /\ place \in {"ready", "hand over"} => got'[i] # 0,
           i \in Agents /\ place = "hand over" => stage[i] \in {"trace", "dead"}
    PROVE  IInv'
<1>0. /\ ThreadTypes /\ SessionTypes /\ AgentTypes /\ ConfigTaken
      /\ Client /\ (\A a \in Agents : AgentInv(a))
  BY DEF IInv, Types, Served
<1>1. Types'
  <2>1. ThreadTypes'
    BY <1>0 DEF ThreadTypes
  <2>2. AgentTypes'
    BY <1>0 DEF AgentTypes
  <2> QED BY <2>1, <2>2, <1>0, SessionKeeps DEF Types
<1>2. OneListener' /\ AskedGoesOn' /\ ConfigTaken' /\ Exit' /\ Prepared'
  BY PlaceMoves, <1>0 DEF ThreadTypes
<1>3. Client'
  <2> SUFFICES ASSUME NEW q \in Pids, listener'[q] \in {"config", "ready", "hand over"}
               PROVE  instance'[q] \in Agents
    BY DEF Client
  <2>1. CASE q = p
    BY <2>1, <1>0 DEF ThreadTypes
  <2>2. CASE q # p
    BY <2>2, <1>0 DEF Client, ThreadTypes
  <2> QED BY <2>1, <2>2
<1>4. ASSUME NEW a \in Agents PROVE AgentInv(a)'
  <2>1. AgentInv(a) /\ said'[a] \in {said[a], "nothing"} /\ readers' = readers /\ config' = config
    BY <1>0 DEF sessionVars
  <2>2. got[a] \in Nat /\ born[a] \in Nat /\ config \in Nat /\ got'[a] \in {got[a], config}
        /\ (got'[a] # got[a] => stage[a] # "none")
    BY <1>0 DEF AgentTypes, SessionTypes
  <2>3. /\ got[a] # 0 => got'[a] # 0
        /\ got'[a] # 0 => got'[a] >= born[a]
        /\ stage[a] = "none" => got'[a] = 0
    <3>1. CASE got'[a] = got[a]
      BY <2>1, <3>1 DEF AgentInv
    <3>2. CASE got'[a] # got[a]
      <4>1. got'[a] = config /\ stage[a] # "none"
        BY <2>2, <3>2
      <4>2. 1 <= born[a] /\ born[a] <= config
        BY <2>1, <4>1 DEF AgentInv
      <4>3. config \in Nat /\ born[a] \in Nat
        BY <2>2
      <4>4. config # 0 /\ config >= born[a]
        BY <4>2, <4>3, BornBefore
      <4> QED BY <4>1, <4>4
    <3> QED BY <3>1, <3>2
  <2>4. i = a => ClientInv(a, p)'
    <3> SUFFICES ASSUME i = a PROVE ClientInv(a, p)'
      OBVIOUS
    <3>1. instance[p] = a /\ listener'[p] = place
      BY <1>0 DEF ThreadTypes
    <3>2. ClientInv(a, p)
      BY <2>1, <3>1 DEF AgentInv
    <3>3. /\ place \in {"ready", "hand over"} => got'[a] # 0
          /\ place = "hand over" => stage[a] \in {"trace", "dead"}
      OBVIOUS
    <3> QED BY <3>1, <3>2, <3>3 DEF ClientInv
  <2>5. \A q \in Pids : instance'[q] = a => ClientInv(a, q)'
    BY <1>0, <2>1, <2>3, <2>4, ClientMoves
  <2> QED BY <2>1, <2>3, <2>5 DEF AgentInv
<1> QED BY <1>1, <1>2, <1>3, <1>4 DEF IInv, Served

LEMMA ListenerStep ==
    ASSUME IInv, NEW p \in Pids, ListenerThread(p) PROVE IInv'
<1> USE ListenersAssumption
<1>0. /\ ThreadTypes /\ SessionTypes /\ AgentTypes /\ OneListener /\ AskedGoesOn /\ ConfigTaken
      /\ Client /\ (\A a \in Agents : AgentInv(a)) /\ Exit
  BY DEF IInv, Types, Served
<1>u. /\ UNCHANGED <<sessionVars, historyVars, stage, pipeOf, born>>
      /\ \A a \in Agents : said[a] \in {said[a], "nothing"}
      /\ said \in [Agents -> {"nothing", "register", "ready", "error"}] /\ got \in [Agents -> Nat]
      /\ instance[p] \in Instances /\ instance = [instance EXCEPT ![p] = instance[p]]
      /\ {"none", "listening", "left", "stop"} \subseteq Instances
  BY <1>0 DEF ListenerThread, AgentTypes, ThreadTypes, Instances
<1>1. CASE LookAtRunning(p) /\ UNCHANGED <<said, got>>
  BY <1>1, <1>u, ListenerMoves DEF LookAtRunning, ListenerGoes, ListenerPlaces
<1>2. CASE CreatePipe(p) /\ UNCHANGED <<said, got>>
  BY <1>2, <1>u, ListenerMoves DEF CreatePipe, ListenerGoes, ListenerPlaces
<1>3. CASE LookAtDeadline(p) /\ UNCHANGED <<said, got>>
  BY <1>3, <1>u, ListenerMoves DEF LookAtDeadline, ListenerGoes, ListenerPlaces
<1>4. CASE ConnectPipe(p) /\ UNCHANGED <<said, got>>
  BY <1>4, <1>u, ListenerMoves DEF ConnectPipe, ListenerGoes, ListenerPlaces
<1>5. CASE ClosePipe(p) /\ UNCHANGED <<said, got>>
  BY <1>5, <1>u, ListenerMoves DEF ClosePipe, ListenerGoes, ListenerPlaces
<1>r. ASSUME NEW a \in Agents, said' = [said EXCEPT ![a] = "nothing"]
      PROVE  /\ \A b \in Agents : said'[b] \in {said[b], "nothing"}
             /\ said' \in [Agents -> {"nothing", "register", "ready", "error"}]
  BY <1>r, <1>0 DEF AgentTypes
<1>6. CASE ReadRegistration(p)
  <2>0. UNCHANGED <<listening, pids, instance, readers, joinable, got>>
    BY <1>6 DEF ReadRegistration
  <2>1. CASE ReadFrom(p, "register", "register", "config")
    <3>1. PICK a \in Agents : /\ instance[p] = a /\ ListenerGoes(p, "register", "config")
                              /\ said' = [said EXCEPT ![a] = "nothing"]
      BY <2>1 DEF ReadFrom
    <3> QED BY <2>0, <3>1, <1>r, <1>u, ListenerMoves DEF ListenerGoes, ListenerPlaces
  <2>2. CASE ReadEnds(p, "register")
    BY <2>0, <2>2, <1>u, ListenerMoves DEF ReadEnds, ListenerGoes, ListenerPlaces
  <2> QED BY <1>6, <2>1, <2>2 DEF ReadRegistration
<1>7. CASE ReadReady(p)
  <2>0. UNCHANGED <<listening, pids, instance, readers, joinable, got>>
    BY <1>7 DEF ReadReady
  <2>1. CASE ReadFrom(p, "ready", "ready", "hand over")
    <3>1. PICK a \in Agents : /\ instance[p] = a /\ said[a] = "ready"
                              /\ ListenerGoes(p, "ready", "hand over")
                              /\ said' = [said EXCEPT ![a] = "nothing"]
      BY <2>1 DEF ReadFrom
    <3>2. stage[a] \in {"trace", "dead"} /\ got[a] # 0
      BY <1>0, <3>1 DEF AgentInv, ClientInv, ListenerGoes
    <3> QED BY <2>0, <3>1, <3>2, <1>r, <1>u, ListenerMoves DEF ListenerGoes, ListenerPlaces
  <2>2. CASE ReadFrom(p, "ready", "error", "close")
    BY <2>0, <2>2, <1>r, <1>u, ListenerMoves DEF ReadFrom, ListenerGoes, ListenerPlaces
  <2>3. CASE ReadEnds(p, "ready")
    BY <2>0, <2>3, <1>u, ListenerMoves DEF ReadEnds, ListenerGoes, ListenerPlaces
  <2> QED BY <1>7, <2>1, <2>2, <2>3 DEF ReadReady
<1>8. CASE WriteConfig(p)
  <2>1. PICK a \in Agents :
          /\ instance[p] = a
          /\ ListenerGoes(p, "config", IF Over(a) THEN "close" ELSE "ready")
          /\ got' = IF Over(a) THEN got ELSE [got EXCEPT ![a] = config]
          /\ UNCHANGED <<listening, pids, instance, readers, joinable, said>>
    BY <1>8 DEF WriteConfig
  <2>2. CASE Over(a)
    BY <2>1, <2>2, <1>u, ListenerMoves DEF ListenerGoes, ListenerPlaces
  <2>3. CASE ~Over(a)
    <3>1. /\ listener[p] = "config" /\ listener' = [listener EXCEPT ![p] = "ready"]
          /\ got' = [got EXCEPT ![a] = config]
      BY <2>1, <2>3 DEF ListenerGoes
    <3>2. stage[a] # "none" /\ AgentInv(a) /\ config \in Nat /\ born[a] \in Nat
      BY <2>1, <1>0 DEF AgentInv, ClientInv, SessionTypes, AgentTypes
    <3>3. config # 0
      BY <3>2 DEF AgentInv
    <3>4. /\ got' \in [Agents -> Nat] /\ got'[a] = config
          /\ \A b \in Agents : got'[b] \in {got[b], config}
          /\ \A b \in Agents : got'[b] # got[b] => b = a
      BY <1>0, <3>1, <3>2 DEF AgentTypes
    <3>5. /\ said' = said /\ instance' = [instance EXCEPT ![p] = a] /\ a \in Instances
          /\ UNCHANGED <<listening, pids, readers, joinable>>
      BY <2>1, <1>u
    <3>6. said' \in [Agents -> {"nothing", "register", "ready", "error"}]
          /\ \A b \in Agents : said'[b] \in {said[b], "nothing"}
      BY <3>5, <1>0 DEF AgentTypes
    <3>7. \A b \in Agents : got'[b] # got[b] => stage[b] # "none"
      BY <3>2, <3>4
    <3>8. got'[a] # 0 /\ listener[p] # "none"
      BY <3>1, <3>3, <3>4
    <3> QED BY <2>1, <3>1, <3>4, <3>5, <3>6, <3>7, <3>8, <1>u, ListenerMoves DEF ListenerPlaces
  <2> QED BY <2>2, <2>3
<1>9. CASE HandOver(p) /\ UNCHANGED <<said, got>>
  <2>1. /\ listener[p] = "hand over" /\ listener' = [listener EXCEPT ![p] = "loop"]
        /\ readers' = readers \cup {instance[p]} /\ joinable' = TRUE
        /\ instance' = [instance EXCEPT ![p] = "none"]
        /\ UNCHANGED <<listening, pids, said, got, stage, pipeOf, born, sessionVars, historyVars>>
    BY <1>9, <1>u DEF HandOver, ListenerGoes
  <2>2. PICK a \in Agents : instance[p] = a
    BY <1>0, <2>1 DEF Client
  <2>3. stage[a] \in {"trace", "dead"} /\ got[a] # 0
    BY <1>0, <2>1, <2>2 DEF AgentInv, ClientInv
  <2>4. Types'
    <3>1. ThreadTypes'
      BY <1>0, <2>1, <2>2 DEF ThreadTypes, ListenerPlaces, Instances
    <3>2. AgentTypes'
      BY <1>0, <2>1, AgentsKeep DEF agentVars
    <3> QED BY <3>1, <3>2, <1>0, <2>1, SessionKeeps DEF Types
  <2>5. OneListener' /\ AskedGoesOn' /\ ConfigTaken' /\ Exit' /\ Prepared'
    BY <2>1, PlaceMoves, <1>0 DEF ListenerPlaces, ThreadTypes
  <2>6. Client'
    BY <1>0, <2>1 DEF Client, ThreadTypes
  <2>7. ASSUME NEW b \in Agents PROVE AgentInv(b)'
    <3>1. AgentInv(b) /\ b # "none" /\ config' = config
      BY <1>0, <2>1 DEF sessionVars
    <3>2. b \in readers' => b \in readers \/ b = a
      BY <2>1, <2>2
    <3>3. \A q \in Pids : instance'[q] = b => ClientInv(b, q)'
      BY <1>0, <2>1, <3>1, ClientMoves
    <3> QED BY <2>1, <2>3, <3>1, <3>2, <3>3 DEF AgentInv
  <2> QED BY <2>4, <2>5, <2>6, <2>7 DEF IInv, Served
<1>10. CASE ErasePid(p) /\ UNCHANGED <<said, got>>
  <2>1. /\ listener[p] = "erase" /\ listener' = [listener EXCEPT ![p] = "none"]
        /\ pids' = pids \ {p} /\ UNCHANGED <<listening, instance, readers, joinable>>
        /\ UNCHANGED <<said, got, stage, pipeOf, born, sessionVars, historyVars>>
    BY <1>10, <1>u DEF ErasePid, ListenerGoes
  <2>2. /\ \A q \in Pids : listener'[q] = IF q = p THEN "none" ELSE listener[q]
        /\ starter' = starter /\ window' = window /\ asked' = asked /\ busy' = busy
        /\ session' = session /\ config' = config
    BY <1>0, <2>1 DEF ThreadTypes, sessionVars, historyVars
  <2>3. Types'
    <3>1. ThreadTypes'
      BY <1>0, <2>1 DEF ThreadTypes, ListenerPlaces
    <3>2. AgentTypes'
      BY <1>0, <2>1, AgentsKeep DEF agentVars
    <3> QED BY <3>1, <3>2, <1>0, <2>1, SessionKeeps DEF Types
  <2>4. \A s \in Starters, q \in Pids : Pushing(s, q)' <=> Pushing(s, q)
    BY <2>2 DEF Pushing
  <2>5. \A q \in Pids : Pushed(q)' <=> Pushed(q)
    BY <2>4 DEF Pushed
  <2>6. ~Pushed(p) /\ (listening => p \notin asked)
    BY <1>0, <2>1 DEF OneListener, AskedGoesOn
  <2>7. OneListener'
    <3> SUFFICES ASSUME NEW q \in Pids
                 PROVE  /\ q \in pids' <=> (listener'[q] # "none" \/ Pushed(q))
                        /\ listener'[q] # "none" => ~Pushed(q)
                        /\ \A s, t \in Starters : Pushing(s, q) /\ Pushing(t, q) => s = t
      BY <2>4, <2>5 DEF OneListener
    <3> QED BY <1>0, <2>1, <2>2, <2>6 DEF OneListener
  <2>8. AskedGoesOn' /\ ConfigTaken'
    BY <1>0, <2>1, <2>2, <2>5, <2>6 DEF AskedGoesOn, ConfigTaken, SessionTypes
  <2>9. Exit'
    <3>1. \A q \in Pids : listener'[q] = listener[q] \/ listener'[q] = "none"
      BY <2>2
    <3> QED BY <1>0, <2>1, <2>2, <3>1 DEF Exit, Leaving
  <2>10. Client'
    <3>1. \A q \in Pids : listener'[q] = listener[q] \/ listener'[q] = "none"
      BY <2>2
    <3> QED BY <1>0, <2>1, <3>1 DEF Client
  <2>11. ASSUME NEW b \in Agents PROVE AgentInv(b)'
    <3>1. AgentInv(b)
      BY <1>0
    <3>2. ASSUME NEW q \in Pids, instance[q] = b PROVE ClientInv(b, q)'
      <4>1. ClientInv(b, q)
        BY <3>1, <3>2 DEF AgentInv
      <4>2. listener'[q] = listener[q] \/ listener'[q] = "none"
        BY <2>2
      <4> QED BY <2>1, <4>1, <4>2 DEF ClientInv
    <3> QED BY <2>1, <2>2, <3>1, <3>2 DEF AgentInv
  <2>12. Prepared'
    BY <2>2, PreparedKeeps DEF IInv
  <2> QED BY <2>3, <2>7, <2>8, <2>9, <2>10, <2>11, <2>12 DEF IInv, Served
<1> QED BY <1>1, <1>2, <1>3, <1>4, <1>5, <1>6, <1>7, <1>8, <1>9, <1>10 DEF ListenerThread

-----------------------------------------------------------------------------
(* The starters, the launch worker and the window.                         *)

\* Who leaves the agents and their places at the listeners alone.
LEMMA ServedKeeps ==
    ASSUME IInv, UNCHANGED <<readers, agentVars>>, config' \in Nat, config <= config',
           \A q \in Pids : \/ instance'[q] = instance[q]
                           \/ instance[q] \notin Agents /\ instance'[q] \notin Agents,
           \A q \in Pids : listener'[q] \in {listener[q], "loop"}
    PROVE  Served' /\ AgentTypes'
<1>0. /\ AgentTypes /\ SessionTypes /\ Client /\ (\A a \in Agents : AgentInv(a))
      /\ stage' = stage /\ pipeOf' = pipeOf /\ said' = said /\ got' = got /\ born' = born
  BY DEF IInv, Types, Served, agentVars
<1>1. Client'
  BY <1>0 DEF Client
<1>2. ASSUME NEW a \in Agents PROVE AgentInv(a)'
  <2>1. AgentInv(a) /\ born[a] \in Nat /\ config \in Nat
    BY <1>0 DEF AgentTypes, SessionTypes
  <2>2. born[a] <= config => born[a] <= config'
    BY <2>1
  <2>3. ASSUME NEW q \in Pids, instance'[q] = a PROVE ClientInv(a, q)'
    <3>1. instance[q] = a
      BY <2>3
    <3>2. ClientInv(a, q)
      BY <2>1, <3>1 DEF AgentInv
    <3>3. listener'[q] \in {listener[q], "loop"}
      OBVIOUS
    <3> QED BY <1>0, <3>2, <3>3 DEF ClientInv
  <2> QED BY <1>0, <2>1, <2>2, <2>3 DEF AgentInv
<1>3. AgentTypes'
  BY <1>0, AgentsKeep
<1> QED BY <1>1, <1>2, <1>3 DEF Served

LEMMA StarterMoves ==
    ASSUME SessionTypes, NEW s \in Starters, NEW from, NEW to \in StarterPlaces,
           StarterGoes(s, from, to), to \in {"insert", "push"} => starter[s].pid \in Pids
    PROVE  /\ starter[s].at = from /\ starter'[s].at = to
           /\ to # "idle" => starter'[s].pid = starter[s].pid
           /\ \A u \in Starters : u # s => starter'[u] = starter[u]
           /\ starter' \in [Starters -> [at : StarterPlaces, pid : Pids \cup {NoPid}]]
           /\ \A u \in Starters : starter'[u].at \in {"insert", "push"} => starter'[u].pid \in Pids
<1>1. PICK q \in Pids \cup {NoPid} :
        /\ starter' = [starter EXCEPT ![s] = [at |-> to, pid |-> q]]
        /\ to # "idle" => q = starter[s].pid
  BY DEF SessionTypes, StarterGoes
<1>2. \A u \in Starters : starter'[u] = IF u = s THEN [at |-> to, pid |-> q] ELSE starter[u]
  BY <1>1 DEF SessionTypes
<1> QED BY <1>1, <1>2 DEF SessionTypes, StarterGoes

\* A starter that neither pushes nor has pushed.
LEMMA PushingKept ==
    ASSUME NEW s \in Starters, starter[s].at # "push", starter'[s].at # "push",
           \A u \in Starters : u # s => starter'[u] = starter[u]
    PROVE  /\ \A u \in Starters, q \in Pids : Pushing(u, q)' <=> Pushing(u, q)
           /\ \A q \in Pids : Pushed(q)' <=> Pushed(q)
<1>1. \A u \in Starters, q \in Pids : Pushing(u, q)' <=> Pushing(u, q)
  BY DEF Pushing
<1> QED BY <1>1 DEF Pushed

LEMMA StarterStep ==
    ASSUME IInv, NEW s \in Starters, Starter(s) PROVE IInv'
<1>0. /\ ThreadTypes /\ SessionTypes /\ AgentTypes /\ OneListener /\ AskedGoesOn /\ ConfigTaken /\ Exit
      /\ "launch" \in Starters /\ "child" \in Starters
  BY DEF IInv, Types, Starters
<1>s. /\ starter[s].pid \in Pids \cup {NoPid}
      /\ starter[s].at \in {"insert", "push"} => starter[s].pid \in Pids
  BY <1>0 DEF SessionTypes
<1>u. /\ UNCHANGED <<listening, instance, readers, session, target, config, window, busy>>
      /\ UNCHANGED agentVars
  BY DEF Starter, LookAtPid, InsertPid, PushListener, threadVars, historyVars
<1>1. CASE LookAtPid(s)
  <2>1. PICK to \in {"insert", "idle"} :
          StarterGoes(s, "ask", to) /\ (to = "insert" => starter[s].pid # NoPid /\ listening)
    BY <1>1 DEF LookAtPid
  <2>2. UNCHANGED <<threadVars, historyVars>>
    BY <1>1 DEF LookAtPid
  <2>3. /\ starter[s].at = "ask" /\ starter'[s].at = to
        /\ \A u \in Starters : u # s => starter'[u] = starter[u]
        /\ starter' \in [Starters -> [at : StarterPlaces, pid : Pids \cup {NoPid}]]
        /\ \A u \in Starters : starter'[u].at \in {"insert", "push"} => starter'[u].pid \in Pids
    BY <1>0, <1>s, <2>1, StarterMoves DEF StarterPlaces
  <2>4. Types' /\ Served'
    <3>1. ThreadTypes' /\ SessionTypes'
      BY <1>0, <1>u, <2>2, <2>3 DEF ThreadTypes, SessionTypes, threadVars, historyVars
    <3> QED BY <1>0, <1>u, <2>2, <3>1, ServedKeeps DEF Types, SessionTypes, threadVars
  <2>5. /\ \A u \in Starters, q \in Pids : Pushing(u, q)' <=> Pushing(u, q)
        /\ \A q \in Pids : Pushed(q)' <=> Pushed(q)
    BY <2>3, PushingKept
  <2>6. OneListener' /\ AskedGoesOn'
    BY <1>0, <2>2, <2>5 DEF OneListener, AskedGoesOn, threadVars, historyVars, SessionTypes
  <2>7. ConfigTaken'
    <3>1. \A u \in Starters : starter'[u].at # "configure" => starter[u].at # "configure"
      BY <2>3
    <3> QED BY <1>0, <1>u, <3>1 DEF ConfigTaken
  <2>8. Exit'
    <3>1. UNCHANGED <<listener, joinable, busy>>
      BY <2>2 DEF threadVars, historyVars
    <3>2. Leaving /\ ~busy => /\ starter'["launch"].at = "idle"
                             /\ starter'["child"].at \in {"idle", "ask"}
      <4> SUFFICES ASSUME Leaving /\ ~busy
                   PROVE  starter'["launch"].at = "idle" /\ starter'["child"].at \in {"idle", "ask"}
        OBVIOUS
      <4>1. listening = FALSE /\ starter["launch"].at = "idle" /\ starter["child"].at \in {"idle", "ask"}
        BY <1>0 DEF Exit
      <4>2. s # "launch" /\ to = "idle"
        BY <2>1, <2>3, <4>1
      <4> QED BY <1>0, <2>3, <4>1, <4>2
    <3>3. /\ window' = window /\ (Leaving' <=> Leaving) /\ (busy' <=> busy)
          /\ (listening = FALSE => listening' = FALSE)
      BY <1>u, <3>1 DEF Leaving
    <3> QED BY <1>0, <3>1, <3>2, <3>3 DEF Exit
  <2>20. Prepared'
    BY <1>0, <1>u, <2>3, PreparedKeeps DEF IInv
  <2> QED BY <2>4, <2>6, <2>7, <2>8, <2>20 DEF IInv
<1>2. CASE InsertPid(s)
  <2> DEFINE p == starter[s].pid
  <2>1. /\ StarterGoes(s, "insert", IF p \in pids THEN "idle" ELSE "push") /\ starter[s].at = "insert"
        /\ pids' = pids \cup {p} /\ UNCHANGED <<listener, joinable>>
        /\ asked' = IF listening /\ listener[p] # "erase" THEN asked \cup {p} ELSE asked
    BY <1>2 DEF InsertPid, StarterGoes
  <2>2. p \in Pids
    BY <1>s, <2>1
  <2>3. PICK to \in {"idle", "push"} : StarterGoes(s, "insert", to) /\ (to = "idle" <=> p \in pids)
    BY <2>1
  <2>4. /\ starter[s].at = "insert" /\ starter'[s].at = to /\ (to = "push" => starter'[s].pid = p)
        /\ \A u \in Starters : u # s => starter'[u] = starter[u]
        /\ starter' \in [Starters -> [at : StarterPlaces, pid : Pids \cup {NoPid}]]
        /\ \A u \in Starters : starter'[u].at \in {"insert", "push"} => starter'[u].pid \in Pids
    BY <1>0, <2>2, <2>3, StarterMoves DEF StarterPlaces
  <2> HIDE DEF p
  <2>5. Types' /\ Served'
    <3>1. ThreadTypes' /\ SessionTypes'
      BY <1>0, <1>u, <2>1, <2>2, <2>4 DEF ThreadTypes, SessionTypes
    <3> QED BY <1>0, <1>u, <2>1, <3>1, ServedKeeps DEF Types, SessionTypes
  <2>6. /\ \A u \in Starters, q \in Pids : u # s => (Pushing(u, q)' <=> Pushing(u, q))
        /\ \A q \in Pids : ~Pushing(s, q) /\ (Pushing(s, q)' <=> to = "push" /\ q = p)
    BY <2>4 DEF Pushing
  <2>7. \A q \in Pids : Pushed(q)' <=> Pushed(q) \/ (to = "push" /\ q = p)
    BY <2>6 DEF Pushed
  <2>8. to = "push" => ~Pushed(p) /\ listener[p] = "none"
    BY <1>0, <2>2, <2>3 DEF OneListener
  <2>9. to = "idle" => Pushed(p) \/ listener[p] # "none"
    BY <1>0, <2>2, <2>3 DEF OneListener
  <2>10. OneListener'
    <3> SUFFICES ASSUME NEW q \in Pids
                 PROVE  /\ q \in pids' <=> (listener[q] # "none" \/ Pushed(q)')
                        /\ listener[q] # "none" => ~Pushed(q)'
                        /\ \A u, t \in Starters : Pushing(u, q)' /\ Pushing(t, q)' => u = t
      BY <2>1 DEF OneListener
    <3>1. CASE q # p \/ to # "push"
      <4>1. (q \in pids' <=> q \in pids) /\ (Pushed(q)' <=> Pushed(q))
        BY <2>1, <2>3, <2>7, <3>1
      <4>2. \A u \in Starters : Pushing(u, q)' <=> Pushing(u, q)
        BY <2>6, <3>1
      <4> QED BY <1>0, <4>1, <4>2 DEF OneListener
    <3>2. CASE q = p /\ to = "push"
      <4>1. \A u \in Starters : ~Pushing(u, p)
        BY <2>8, <3>2 DEF Pushed
      <4> QED BY <2>1, <2>6, <2>7, <2>8, <3>2, <4>1
    <3> QED BY <3>1, <3>2
  <2>11. AskedGoesOn'
    <3> SUFFICES ASSUME listening, NEW q \in asked'
                 PROVE  listener[q] \notin {"none", "erase"} \/ Pushed(q)'
      BY <1>u, <2>1 DEF AskedGoesOn
    <3>1. q \in Pids /\ (q \in asked \/ (q = p /\ listener[p] # "erase"))
      BY <1>0, <2>1, <2>2 DEF SessionTypes
    <3>2. CASE q \in asked
      BY <1>0, <2>7, <3>1, <3>2 DEF AskedGoesOn
    <3>3. CASE q = p /\ listener[p] # "erase"
      BY <2>3, <2>7, <2>9, <3>1, <3>3
    <3> QED BY <3>1, <3>2, <3>3
  <2>12. ConfigTaken'
    <3>1. \A u \in Starters : starter'[u].at # "configure" => starter[u].at # "configure"
      BY <2>1, <2>4
    <3> QED BY <1>0, <1>u, <3>1 DEF ConfigTaken
  <2>13. Exit'
    BY <1>0, <1>u, <2>1, <2>3, <2>4, AllStarters DEF Exit, Leaving
  <2>20. Prepared'
    BY <1>0, <1>u, <2>1, <2>4, PreparedKeeps DEF IInv
  <2> QED BY <2>5, <2>10, <2>11, <2>12, <2>13, <2>20 DEF IInv
<1>3. CASE PushListener(s)
  <2> DEFINE p == starter[s].pid
  <2>1. /\ StarterGoes(s, "push", "idle") /\ starter[s].at = "push" /\ window.at # "leave"
        /\ listener' = [listener EXCEPT ![p] = "loop"] /\ joinable' = TRUE
        /\ UNCHANGED <<pids, asked>>
    BY <1>3 DEF PushListener, StarterGoes, ThreadsLocked, historyVars
  <2>2. p \in Pids
    BY <1>s, <2>1
  <2>4. /\ starter'[s].at = "idle"
        /\ \A u \in Starters : u # s => starter'[u] = starter[u]
        /\ starter' \in [Starters -> [at : StarterPlaces, pid : Pids \cup {NoPid}]]
        /\ \A u \in Starters : starter'[u].at \in {"insert", "push"} => starter'[u].pid \in Pids
    BY <1>0, <2>1, <2>2, StarterMoves DEF StarterPlaces
  <2>p. Pushing(s, p) /\ \A q \in Pids : Pushing(s, q) => q = p
    BY <2>1 DEF Pushing
  <2> HIDE DEF p
  <2>3. \A q \in Pids : listener'[q] = IF q = p THEN "loop" ELSE listener[q]
    BY <1>0, <2>1 DEF ThreadTypes
  <2>5. Types' /\ Served'
    <3>1. ThreadTypes' /\ SessionTypes'
      BY <1>0, <1>u, <2>1, <2>2, <2>4 DEF ThreadTypes, SessionTypes, ListenerPlaces
    <3> QED BY <1>0, <1>u, <2>3, <3>1, ServedKeeps DEF Types, SessionTypes
  <2>6. /\ \A u \in Starters, q \in Pids : Pushing(u, q)' => Pushing(u, q) /\ q # p
        /\ \A u \in Starters, q \in Pids : Pushing(u, q) /\ q # p => Pushing(u, q)'
    <3>1. \A u \in Starters, q \in Pids : Pushing(u, q)' <=> u # s /\ Pushing(u, q)
      BY <2>4 DEF Pushing
    <3>2. \A u \in Starters : Pushing(u, p) => u = s
      BY <1>0, <2>2, <2>p DEF OneListener
    <3> QED BY <3>1, <3>2, <2>p
  <2>7. \A q \in Pids : Pushed(q)' <=> Pushed(q) /\ q # p
    BY <2>6 DEF Pushed
  <2>8. Pushed(p) /\ p \in pids
    BY <1>0, <2>2, <2>p DEF OneListener, Pushed
  <2>9. OneListener'
    <3> SUFFICES ASSUME NEW q \in Pids
                 PROVE  /\ q \in pids <=> (listener'[q] # "none" \/ Pushed(q)')
                        /\ listener'[q] # "none" => ~Pushed(q)'
                        /\ \A u, t \in Starters : Pushing(u, q)' /\ Pushing(t, q)' => u = t
      BY <2>1 DEF OneListener
    <3> QED BY <1>0, <2>3, <2>6, <2>7, <2>8 DEF OneListener
  <2>10. AskedGoesOn'
    <3> SUFFICES ASSUME listening, NEW q \in asked
                 PROVE  listener'[q] \notin {"none", "erase"} \/ Pushed(q)'
      BY <1>u, <2>1 DEF AskedGoesOn
    <3>1. q \in Pids /\ (listener[q] \notin {"none", "erase"} \/ Pushed(q))
      BY <1>0 DEF SessionTypes, AskedGoesOn
    <3> QED BY <2>3, <2>7, <3>1
  <2>11. ConfigTaken'
    <3>1. \A u \in Starters : starter'[u].at # "configure" => starter[u].at # "configure"
      BY <2>1, <2>4
    <3> QED BY <1>0, <1>u, <3>1 DEF ConfigTaken
  <2>12. Exit'
    <3>1. ~(Leaving /\ ~busy)
      BY <1>0, <2>1, AllStarters DEF Exit
    <3> QED BY <1>0, <1>u, <3>1 DEF Exit, Leaving
  <2>20. Prepared'
    BY <1>0, <1>u, <2>1, <2>4, PreparedKeeps DEF IInv
  <2> QED BY <2>5, <2>9, <2>10, <2>11, <2>12, <2>20 DEF IInv
<1> QED BY <1>1, <1>2, <1>3 DEF Starter

\* Who leaves the listeners and what they are asked for alone.
LEMMA ListenersKeep ==
    ASSUME IInv, UNCHANGED <<listening, pids, listener>>, asked' \subseteq asked,
           \A u \in Starters, q \in Pids : Pushing(u, q)' <=> Pushing(u, q)
    PROVE  OneListener' /\ AskedGoesOn'
<1>0. OneListener /\ AskedGoesOn
  BY DEF IInv
<1>1. \A q \in Pids : Pushed(q)' <=> Pushed(q)
  BY DEF Pushed
<1>2. asked \subseteq Pids
  BY DEF IInv, Types, SessionTypes
<1> QED BY <1>0, <1>1, <1>2 DEF OneListener, AskedGoesOn

LEMMA LaunchStep ==
    ASSUME IInv, LaunchWorker \/ \E p \in Pids : QueueChild(p) PROVE IInv'
<1>0. /\ ThreadTypes /\ SessionTypes /\ AgentTypes /\ OneListener /\ AskedGoesOn /\ ConfigTaken /\ Exit
      /\ Prepared /\ "launch" \in Starters /\ "child" \in Starters
  BY DEF IInv, Types, Starters
<1>u. /\ UNCHANGED <<pids, listener, instance, readers, session, window, busy>>
      /\ joinable' \in BOOLEAN
      /\ UNCHANGED agentVars
  BY <1>0 DEF LaunchWorker, TakeConfig, Launches, StartAdditionalPipeListener, QueueChild, threadVars,
              historyVars, ThreadTypes
<1>t. ThreadTypes /\ listening' \in BOOLEAN => ThreadTypes'
  BY <1>u DEF ThreadTypes
<1>1. CASE TakeConfig
  <2>1. PICK to \in {"start", "idle"} : StarterGoes("launch", "configure", to)
    BY <1>1 DEF TakeConfig, Launches
  <2>2. /\ config' = session /\ target' \in Pids \cup {NoPid} /\ UNCHANGED <<listening, asked>>
    BY <1>0, <1>1 DEF TakeConfig, Launches, historyVars, SessionTypes
  <2>3. /\ starter["launch"].at = "configure" /\ starter'["launch"].at = to
        /\ \A u \in Starters : u # "launch" => starter'[u] = starter[u]
        /\ starter' \in [Starters -> [at : StarterPlaces, pid : Pids \cup {NoPid}]]
        /\ \A u \in Starters : starter'[u].at \in {"insert", "push"} => starter'[u].pid \in Pids
    BY <1>0, <2>1, StarterMoves DEF StarterPlaces
  <2>4. Types' /\ Served'
    <3>1. ThreadTypes' /\ SessionTypes'
      BY <1>0, <1>t, <1>u, <2>2, <2>3 DEF SessionTypes, ThreadTypes
    <3> QED BY <1>0, <1>u, <2>2, <3>1, ServedKeeps DEF Types, SessionTypes, ConfigTaken
  <2>5. \A u \in Starters, q \in Pids : Pushing(u, q)' <=> Pushing(u, q)
    BY <1>0, <2>3, PushingKept
  <2>6. OneListener' /\ AskedGoesOn'
    BY <1>u, <2>2, <2>5, ListenersKeep
  <2>7. ConfigTaken'
    BY <1>0, <1>u, <2>2 DEF ConfigTaken, SessionTypes
  <2>8. Exit'
    <3>1. ~(Leaving /\ ~busy)
      BY <1>0, <2>3 DEF Exit
    <3> QED BY <1>0, <1>u, <3>1 DEF Exit, Leaving
  <2>9. Prepared'
    BY <1>0, <1>u, <2>3, PreparedKeeps
  <2> QED BY <2>4, <2>6, <2>7, <2>8, <2>9 DEF IInv
<1>2. CASE StartAdditionalPipeListener
  <2>1. /\ target' \in Pids \cup {NoPid} /\ UNCHANGED config
        /\ starter["launch"].at = "start" /\ listening' \in BOOLEAN
        /\ asked' \subseteq asked /\ (listening' # listening => asked' = {})
    BY <1>0, <1>2 DEF StartAdditionalPipeListener, StarterGoes, SessionTypes, ThreadTypes
  <2>2. /\ starter'["launch"].at \in {"ask", "idle"}
        /\ \A u \in Starters : u # "launch" => starter'[u] = starter[u]
        /\ starter' \in [Starters -> [at : StarterPlaces, pid : Pids \cup {NoPid}]]
        /\ \A u \in Starters : starter'[u].at \in {"insert", "push"} => starter'[u].pid \in Pids
    <3>1. CASE listening
      <4>1. StarterGoes("launch", "start", "idle")
        BY <1>2, <3>1 DEF StartAdditionalPipeListener
      <4> QED BY <1>0, <4>1, StarterMoves DEF StarterPlaces
    <3>2. CASE ~listening
      <4>1. starter' = [starter EXCEPT !["launch"] = [at |-> "ask", pid |-> target']]
        BY <1>2, <3>2 DEF StartAdditionalPipeListener
      <4>2. \A u \in Starters :
              starter'[u] = IF u = "launch" THEN [at |-> "ask", pid |-> target'] ELSE starter[u]
        BY <1>0, <4>1 DEF SessionTypes
      <4>3. starter' \in [Starters -> [at : StarterPlaces, pid : Pids \cup {NoPid}]]
        BY <1>0, <2>1, <4>1 DEF SessionTypes, StarterPlaces
      <4>4. \A u \in Starters : starter'[u].at \in {"insert", "push"} => starter'[u].pid \in Pids
        BY <1>0, <4>2 DEF SessionTypes
      <4> QED BY <1>0, <4>2, <4>3, <4>4
    <3> QED BY <3>1, <3>2
  <2>4. Types' /\ Served'
    <3>1. ThreadTypes' /\ SessionTypes'
      BY <1>0, <1>t, <1>u, <2>1, <2>2 DEF SessionTypes
    <3> QED BY <1>0, <1>u, <2>1, <3>1, ServedKeeps DEF Types, SessionTypes
  <2>5. /\ \A u \in Starters, q \in Pids : Pushing(u, q)' <=> Pushing(u, q)
        /\ \A q \in Pids : Pushed(q)' <=> Pushed(q)
    BY <1>0, <2>1, <2>2, PushingKept
  <2>6. OneListener'
    BY <1>0, <1>u, <2>5 DEF OneListener
  <2>7. AskedGoesOn'
    <3>1. CASE asked' = {}
      BY <3>1 DEF AskedGoesOn
    <3>2. CASE asked' # {}
      <4>1. listening' = listening
        BY <2>1, <3>2
      <4> QED BY <1>0, <1>u, <2>1, <2>5, <4>1 DEF AskedGoesOn, SessionTypes
    <3> QED BY <3>1, <3>2
  <2>8. ConfigTaken'
    BY <1>0, <1>u, <2>1, <2>2 DEF ConfigTaken
  <2>9. Exit'
    <3>1. ~(Leaving /\ ~busy)
      BY <1>0, <2>1 DEF Exit
    <3> QED BY <1>0, <1>u, <3>1 DEF Exit, Leaving
  <2>10. Prepared'
    BY <1>0, <1>u, <2>1, PreparedKeeps
  <2> QED BY <2>4, <2>6, <2>7, <2>8, <2>9, <2>10 DEF IInv
<1>3. ASSUME NEW p \in Pids, QueueChild(p) PROVE IInv'
  <2>1. /\ starter["child"].at = "idle" /\ UNCHANGED <<target, config, listening, joinable, asked>>
        /\ starter' = [starter EXCEPT !["child"] = [at |-> "ask", pid |-> p]]
    BY <1>3 DEF QueueChild, threadVars, historyVars
  <2>2. /\ starter'["child"].at = "ask"
        /\ \A u \in Starters : u # "child" => starter'[u] = starter[u]
        /\ starter' \in [Starters -> [at : StarterPlaces, pid : Pids \cup {NoPid}]]
        /\ \A u \in Starters : starter'[u].at \in {"insert", "push"} => starter'[u].pid \in Pids
    <3>1. \A u \in Starters :
            starter'[u] = IF u = "child" THEN [at |-> "ask", pid |-> p] ELSE starter[u]
      BY <1>0, <2>1 DEF SessionTypes
    <3>2. starter' \in [Starters -> [at : StarterPlaces, pid : Pids \cup {NoPid}]]
      BY <1>0, <2>1 DEF SessionTypes, StarterPlaces
    <3>3. \A u \in Starters : starter'[u].at \in {"insert", "push"} => starter'[u].pid \in Pids
      BY <1>0, <3>1 DEF SessionTypes
    <3> QED BY <1>0, <3>1, <3>2, <3>3
  <2>4. Types' /\ Served'
    <3>1. ThreadTypes' /\ SessionTypes'
      BY <1>0, <1>t, <1>u, <2>1, <2>2 DEF SessionTypes, ThreadTypes
    <3> QED BY <1>0, <1>u, <2>1, <3>1, ServedKeeps DEF Types, SessionTypes
  <2>5. \A u \in Starters, q \in Pids : Pushing(u, q)' <=> Pushing(u, q)
    BY <1>0, <2>1, <2>2, PushingKept
  <2>6. OneListener' /\ AskedGoesOn'
    BY <1>u, <2>1, <2>5, ListenersKeep
  <2>7. starter'["launch"] = starter["launch"]
    BY <1>0, <2>2
  <2>8. ConfigTaken'
    BY <1>0, <1>u, <2>1, <2>7 DEF ConfigTaken
  <2>9. Exit'
    <3>1. /\ (Leaving' <=> Leaving) /\ (busy' <=> busy) /\ window' = window
          /\ (listening = FALSE => listening' = FALSE) /\ joinable' = joinable /\ listener' = listener
      BY <1>u, <2>1 DEF Leaving
    <3> QED BY <1>0, <2>2, <2>7, <3>1 DEF Exit
  <2>10. Prepared'
    BY <1>0, <1>u, <2>7, PreparedKeeps
  <2> QED BY <2>4, <2>6, <2>8, <2>9, <2>10 DEF IInv
<1> QED BY <1>1, <1>2, <1>3 DEF LaunchWorker

\* A step of the window that leaves the starters alone.
LEMMA WindowMoves ==
    ASSUME IInv, UNCHANGED <<pids, listener, readers, session, target, config, starter, agentVars>>,
           NEW at \in WindowPlaces, NEW left \in SUBSET Pids,
           window' = [at |-> at, left |-> left, next |-> window.next],
           window.at # "open", at # "open",
           at \in {"detach", "leave", "returned", "destroyed"} =>
               window.at \in {"detach", "leave", "returned", "destroyed"} \/ window.next = "exit",
           UNCHANGED <<listening, asked, busy>>, joinable' \in BOOLEAN,
           at \in {"leave", "returned", "destroyed"} =>
               joinable' = FALSE \/ (joinable' = joinable
                                     /\ window.at \in {"leave", "returned", "destroyed"}),
           instance' \in [Pids -> Instances],
           \A q \in Pids : \/ instance'[q] = instance[q]
                           \/ instance[q] \notin Agents /\ instance'[q] \notin Agents
    PROVE  IInv'
<1>0. /\ ThreadTypes /\ SessionTypes /\ AgentTypes /\ ConfigTaken /\ Exit /\ Prepared
  BY DEF IInv, Types
<1>1. window'.at = at /\ window'.next = window.next
  OBVIOUS
<1>2. Types' /\ Served'
  <2>1. ThreadTypes' /\ SessionTypes'
    BY <1>0 DEF ThreadTypes, SessionTypes
  <2> QED BY <1>0, <2>1, ServedKeeps DEF Types, SessionTypes
<1>3. OneListener' /\ AskedGoesOn'
  <2>1. \A u \in Starters, q \in Pids : Pushing(u, q)' <=> Pushing(u, q)
    BY DEF Pushing
  <2> QED BY <2>1, ListenersKeep
<1>4. ConfigTaken' /\ Prepared'
  BY <1>0, <1>1 DEF ConfigTaken, Prepared
<1>5. Exit'
  <2>1. (Leaving' <=> Leaving) /\ (busy' <=> busy) /\ (listening = FALSE => listening' = FALSE)
    BY <1>1 DEF Leaving
  <2>2. joinable = FALSE /\ at \in {"leave", "returned", "destroyed"}
        /\ window.at \in {"leave", "returned", "destroyed"} => joinable' = FALSE
    OBVIOUS
  <2> QED BY <1>0, <1>1, <2>1, <2>2 DEF Exit
<1> QED BY <1>2, <1>3, <1>4, <1>5 DEF IInv

LEMMA WindowStep == ASSUME IInv, Window PROVE IInv'
<1> USE ListenersAssumption
<1>0. /\ ThreadTypes /\ SessionTypes /\ AgentTypes /\ OneListener /\ AskedGoesOn /\ ConfigTaken /\ Exit
      /\ Prepared /\ "launch" \in Starters /\ "child" \in Starters
  BY DEF IInv, Types, Starters
<1>w. /\ window = [at |-> window.at, left |-> window.left, next |-> window.next]
      /\ window.at \in WindowPlaces /\ window.left \subseteq Pids
      /\ window.next \in {"launch", "exit"}
  BY <1>0 DEF SessionTypes
<1>1. CASE SnapshotPids
  <2>1. window' = [at |-> "poke", left |-> pids, next |-> window.next] /\ window.at = "snapshot"
    BY <1>1, <1>w DEF SnapshotPids
  <2>2. /\ UNCHANGED <<pids, listener, readers, session, target, config, starter, agentVars>>
        /\ UNCHANGED <<listening, asked, busy, joinable, instance>>
    BY <1>1 DEF SnapshotPids, threadVars, historyVars
  <2> QED BY <1>0, <2>1, <2>2, WindowMoves DEF ThreadTypes, WindowPlaces
<1>2. ASSUME NEW p \in Pids, PokePipe(p) PROVE IInv'
  <2>1. PICK at \in {"hang up", "poke"} :
          window' = [at |-> at, left |-> window.left \ {p}, next |-> window.next]
    BY <1>2, <1>w DEF PokePipe
  <2>2. /\ UNCHANGED <<pids, listener, readers, session, target, config, starter, agentVars>>
        /\ UNCHANGED <<listening, asked, busy, joinable>> /\ window.at = "poke"
        /\ \/ UNCHANGED instance
           \/ instance[p] = "listening" /\ instance' = [instance EXCEPT ![p] = "stop"]
    BY <1>2 DEF PokePipe, historyVars
  <2>3. instance' \in [Pids -> Instances]
    BY <1>0, <2>2 DEF ThreadTypes, Instances
  <2>4. \A q \in Pids : \/ instance'[q] = instance[q]
                        \/ instance[q] \notin Agents /\ instance'[q] \notin Agents
    BY <1>0, <2>2 DEF ThreadTypes
  <2>5. /\ at \in WindowPlaces /\ at # "open" /\ window.left \ {p} \in SUBSET Pids /\ window.at # "open"
        /\ at \notin {"detach", "leave", "returned", "destroyed"} /\ joinable' \in BOOLEAN
    BY <1>0, <1>w, <2>2 DEF ThreadTypes, WindowPlaces
  <2> QED BY <2>1, <2>2, <2>3, <2>4, <2>5, WindowMoves
<1>3. CASE HangUp
  <2>1. window' = [at |-> "poke", left |-> window.left, next |-> window.next]
    BY <1>3, <1>w DEF HangUp
  <2>2. /\ UNCHANGED <<pids, listener, readers, session, target, config, starter, agentVars>>
        /\ UNCHANGED <<listening, asked, busy, joinable>> /\ window.at = "hang up"
        /\ instance' = [p \in Pids |-> IF instance[p] = "stop" THEN "left" ELSE instance[p]]
    BY <1>3 DEF HangUp, historyVars
  <2>3. instance' \in [Pids -> Instances]
    BY <1>0, <2>2 DEF ThreadTypes, Instances
  <2>4. \A q \in Pids : \/ instance'[q] = instance[q]
                        \/ instance[q] \notin Agents /\ instance'[q] \notin Agents
    BY <1>0, <2>2 DEF ThreadTypes
  <2> QED BY <1>0, <1>w, <2>1, <2>2, <2>3, <2>4, WindowMoves DEF ThreadTypes, WindowPlaces
<1>4. CASE DetachThreads
  <2>1. window' = [at |-> "leave", left |-> window.left, next |-> window.next]
    BY <1>4, <1>w DEF DetachThreads
  <2>2. /\ UNCHANGED <<pids, listener, readers, session, target, config, starter, agentVars>>
        /\ UNCHANGED <<listening, asked, busy, instance>> /\ joinable' = FALSE /\ window.at = "detach"
    BY <1>4 DEF DetachThreads, historyVars
  <2> QED BY <1>0, <1>w, <2>1, <2>2, WindowMoves DEF ThreadTypes, WindowPlaces
<1>5. CASE Leave
  <2>1. PICK at \in {"returned", "destroyed"} :
          window' = [at |-> at, left |-> window.left, next |-> window.next]
    BY <1>5, <1>w DEF Leave
  <2>2. /\ UNCHANGED <<pids, listener, readers, session, target, config, starter, agentVars>>
        /\ UNCHANGED <<listening, asked, busy, joinable, instance>> /\ window.at \in {"leave", "returned"}
    BY <1>5 DEF Leave, historyVars, threadVars
  <2> QED BY <1>0, <1>w, <2>1, <2>2, WindowMoves DEF ThreadTypes, WindowPlaces
<1>6. CASE StopEnds
  <2>1. CASE window.next = "exit"
    <3>1. /\ window' = [at |-> "detach", left |-> window.left, next |-> window.next]
          /\ UNCHANGED <<session, starter>>
      BY <1>6, <1>w, <2>1 DEF StopEnds
    <3>2. /\ UNCHANGED <<pids, listener, readers, target, config, agentVars>>
          /\ UNCHANGED <<listening, asked, busy, joinable, instance>> /\ window.at = "poke"
      BY <1>6 DEF StopEnds, historyVars, threadVars
    <3> QED BY <1>0, <1>w, <2>1, <3>1, <3>2, WindowMoves DEF ThreadTypes, WindowPlaces
  <2>2. CASE window.next = "launch"
    <3>1. /\ window' = [at |-> "open", left |-> window.left, next |-> "launch"]
          /\ starter' = [starter EXCEPT !["launch"].at = "configure"] /\ session' = session + 1
      BY <1>6, <1>w, <2>2 DEF StopEnds
    <3>2. /\ UNCHANGED <<threadVars, target, config, agentVars, historyVars>>
          /\ window.at = "poke" /\ starter["launch"].at = "idle"
      BY <1>0, <1>6, <2>2 DEF StopEnds, Prepared
    <3>3. /\ starter'["launch"].at = "configure"
          /\ \A u \in Starters : u # "launch" => starter'[u] = starter[u]
      BY <1>0, <3>1 DEF SessionTypes
    <3>4. starter' \in [Starters -> [at : StarterPlaces, pid : Pids \cup {NoPid}]]
      BY <1>0, <3>1 DEF SessionTypes, StarterPlaces
    <3>5. \A u \in Starters : starter'[u].at \in {"insert", "push"} => starter'[u].pid \in Pids
      BY <1>0, <3>3 DEF SessionTypes
    <3>6. ThreadTypes' /\ SessionTypes'
      <4>1. window' \in [at : WindowPlaces, left : SUBSET Pids, next : {"launch", "exit"}]
        BY <1>w, <3>1 DEF WindowPlaces
      <4> QED BY <1>0, <3>1, <3>2, <3>4, <3>5, <4>1 DEF ThreadTypes, SessionTypes, threadVars, historyVars
    <3>7. Types' /\ Served'
      BY <1>0, <3>2, <3>6, ServedKeeps DEF Types, SessionTypes, threadVars
    <3>8. OneListener' /\ AskedGoesOn'
      <4>1. \A u \in Starters, q \in Pids : Pushing(u, q)' <=> Pushing(u, q)
        BY <1>0, <3>2, <3>3, PushingKept
      <4> QED BY <3>2, <4>1, ListenersKeep DEF threadVars, historyVars
    <3>9. ConfigTaken' /\ Prepared'
      BY <1>0, <3>1, <3>2, <3>3 DEF ConfigTaken, Prepared, SessionTypes
    <3>10. Exit'
      BY <3>1 DEF Exit, Leaving
    <3> QED BY <3>7, <3>8, <3>9, <3>10 DEF IInv
  <2> QED BY <1>w, <2>1, <2>2
<1> QED BY <1>1, <1>2, <1>3, <1>4, <1>5, <1>6 DEF Window

LEMMA StopStep ==
    ASSUME IInv, NEW next \in {"launch", "exit"}, StopAdditionalPipeListener(next) PROVE IInv'
<1>0. /\ ThreadTypes /\ SessionTypes /\ AgentTypes /\ OneListener /\ ConfigTaken /\ Exit
      /\ "launch" \in Starters /\ "child" \in Starters
  BY DEF IInv, Types, Starters
<1>1. /\ window.at = "open" /\ listening' = FALSE /\ asked' = {}
      /\ busy' = (next = "exit" /\ UnderWay)
      /\ next = "launch" => starter["launch"].at = "idle"
      /\ UNCHANGED <<pids, listener, instance, readers, joinable, session, target, config, starter, agentVars>>
  BY DEF StopAdditionalPipeListener
<1>2. PICK at \in {"snapshot", "poke"} : window' = [at |-> at, left |-> {}, next |-> next]
  BY DEF StopAdditionalPipeListener
<1>3. busy' \in BOOLEAN /\ (next = "exit" /\ ~busy' => ~UnderWay)
  BY <1>1
<1>4. Types' /\ Served'
  <2>1. window' \in [at : WindowPlaces, left : SUBSET Pids, next : {"launch", "exit"}]
    BY <1>2 DEF WindowPlaces
  <2>2. ThreadTypes'
    BY <1>0, <1>1 DEF ThreadTypes
  <2>3. SessionTypes'
    BY <1>0, <1>1, <1>3, <2>1 DEF SessionTypes
  <2> QED BY <1>0, <1>1, <2>2, <2>3, ServedKeeps DEF Types, SessionTypes
<1>5. OneListener'
  <2>1. /\ \A u \in Starters, q \in Pids : Pushing(u, q)' <=> Pushing(u, q)
        /\ \A q \in Pids : Pushed(q)' <=> Pushed(q)
    BY <1>1 DEF Pushing, Pushed
  <2> QED BY <1>0, <1>1, <2>1 DEF OneListener
<1>6. AskedGoesOn'
  BY <1>1 DEF AskedGoesOn
<1>7. ConfigTaken' /\ Prepared'
  BY <1>0, <1>1, <1>2 DEF ConfigTaken, Prepared
<1>8. Exit'
  <2>1. Leaving' /\ ~busy' => ~UnderWay
    BY <1>2, <1>3 DEF Leaving
  <2>2. window'.at \in {"snapshot", "poke"}
    BY <1>2
  <2> QED BY <1>0, <1>1, <2>1, <2>2 DEF Exit, UnderWay
<1> QED BY <1>4, <1>5, <1>6, <1>7, <1>8 DEF IInv

-----------------------------------------------------------------------------
(* The agents.                                                             *)

LEMMA RestKeeps ==
    ASSUME IInv, UNCHANGED <<listening, pids, listener, joinable, sessionVars, historyVars>>
    PROVE  OneListener' /\ AskedGoesOn' /\ ConfigTaken' /\ Exit' /\ Prepared' /\ SessionTypes'
<1>0. /\ SessionTypes /\ ConfigTaken /\ Exit /\ Prepared
  BY DEF IInv, Types
<1>1. UNCHANGED <<session, target, config, starter, window, asked, busy>>
  BY DEF sessionVars, historyVars
<1>2. OneListener' /\ AskedGoesOn'
  <2>1. \A u \in Starters, q \in Pids : Pushing(u, q)' <=> Pushing(u, q)
    BY <1>1 DEF Pushing
  <2> QED BY <1>1, <2>1, ListenersKeep
<1>3. ConfigTaken' /\ Prepared'
  BY <1>0, <1>1 DEF ConfigTaken, Prepared
<1>4. Exit'
  BY <1>0, <1>1 DEF Exit, Leaving
<1> QED BY <1>0, <1>2, <1>3, <1>4, SessionKeeps

\* A step of the agent a, which may take an instance that listens.
LEMMA AgentMoves ==
    ASSUME IInv, NEW a \in Agents, AgentTypes', AgentInv(a)',
           UNCHANGED <<listening, pids, listener, joinable, sessionVars, historyVars>>,
           readers' \subseteq readers,
           \A b \in Agents : b # a =>
               /\ stage'[b] = stage[b] /\ pipeOf'[b] = pipeOf[b] /\ said'[b] = said[b]
               /\ got'[b] = got[b] /\ born'[b] = born[b],
           instance' \in [Pids -> Instances],
           \A q \in Pids : \/ instance'[q] = instance[q]
                           \/ instance[q] = "listening" /\ instance'[q] = a
    PROVE  IInv'
<1> USE ListenersAssumption
<1>0. /\ ThreadTypes /\ Client /\ (\A b \in Agents : AgentInv(b)) /\ config' = config
  BY DEF IInv, Types, Served, sessionVars
<1>1. OneListener' /\ AskedGoesOn' /\ ConfigTaken' /\ Exit' /\ Prepared' /\ SessionTypes'
  BY RestKeeps
<1>2. Types'
  BY <1>0, <1>1 DEF Types, ThreadTypes
<1>3. Client'
  BY <1>0 DEF Client
<1>4. ASSUME NEW b \in Agents, b # a PROVE AgentInv(b)'
  <2>1. /\ AgentInv(b) /\ stage'[b] = stage[b] /\ pipeOf'[b] = pipeOf[b] /\ said'[b] = said[b]
        /\ got'[b] = got[b] /\ born'[b] = born[b]
    BY <1>0, <1>4
  <2>2. ASSUME NEW q \in Pids, instance'[q] = b PROVE ClientInv(b, q)'
    <3>1. instance[q] = b
      BY <1>4, <2>2
    <3>2. ClientInv(b, q)
      BY <2>1, <3>1 DEF AgentInv
    <3> QED BY <2>1, <3>2 DEF ClientInv
  <2> QED BY <1>0, <2>1, <2>2 DEF AgentInv
<1> QED BY <1>1, <1>2, <1>3, <1>4 DEF IInv, Served

\* Where the agent a goes from a place where its hooks are not reported yet, what
\* it writes on the way, and what it leaves alone.
Goes(a, to) ==
    /\ stage[a] # "none" /\ stage' = [stage EXCEPT ![a] = to]
    /\ to # "none" /\ to \in AgentPlaces
    /\ stage[a] \in {"trace", "dead", "failed"} => to = "dead"
Says(a, to) ==
    \/ said' = said
    \/ to # "dead" /\ said' = [said EXCEPT ![a] = "register"]
    \/ to = "trace" /\ said' = [said EXCEPT ![a] = "ready"]
    \/ to = "failed" /\ said' = [said EXCEPT ![a] = "error"]
Stays ==
    /\ UNCHANGED <<listening, pids, listener, joinable, readers>>
    /\ UNCHANGED <<sessionVars, historyVars, pipeOf, born, got>>

LEMMA AgentGoesOn ==
    ASSUME IInv, NEW a \in Agents, NEW to, Goes(a, to), Says(a, to), Stays,
           instance' \in [Pids -> Instances],
           \A q \in Pids : \/ instance'[q] = instance[q]
                           \/ /\ instance[q] = "listening" /\ instance'[q] = a /\ pipeOf[a] = q
                              /\ listener[q] \notin {"ready", "hand over"}
    PROVE  IInv'
<1> USE DEF Goes, Stays
<1>0. AgentTypes /\ AgentInv(a) /\ config' = config
  BY DEF IInv, Types, Served, sessionVars
<1>1. AgentTypes'
  BY <1>0 DEF AgentTypes, Says
<1>2. \A b \in Agents : b # a =>
          /\ stage'[b] = stage[b] /\ pipeOf'[b] = pipeOf[b] /\ said'[b] = said[b]
          /\ got'[b] = got[b] /\ born'[b] = born[b]
  BY <1>0 DEF AgentTypes, Says
<1>3. stage'[a] = to
  BY <1>0 DEF AgentTypes
<1>4. /\ said'[a] = "ready" => to \in {"trace", "dead"}
      /\ said'[a] = "error" => to \in {"failed", "dead"}
  <2>1. CASE said' = said
    BY <1>0, <2>1 DEF AgentInv
  <2>2. CASE said' # said
    BY <1>0, <2>2 DEF AgentTypes, Says
  <2> QED BY <2>1, <2>2
<1>5. ASSUME NEW q \in Pids, instance'[q] = a PROVE ClientInv(a, q)'
  <2>1. CASE instance[q] = a
    <3>1. ClientInv(a, q)
      BY <1>0, <2>1 DEF AgentInv
    <3> QED BY <1>3, <3>1 DEF ClientInv
  <2>2. CASE instance[q] # a
    BY <1>3, <1>5, <2>2 DEF ClientInv
  <2> QED BY <2>1, <2>2
<1>6. AgentInv(a)'
  BY <1>0, <1>3, <1>4, <1>5 DEF AgentInv
<1>7. /\ UNCHANGED <<listening, pids, listener, joinable, sessionVars, historyVars>>
      /\ readers' \subseteq readers
  OBVIOUS
<1>8. \A q \in Pids : instance'[q] = instance[q] \/ (instance[q] = "listening" /\ instance'[q] = a)
  OBVIOUS
<1> QED BY <1>1, <1>2, <1>6, <1>7, <1>8, AgentMoves

\* ... without a step at its pipe.
LEMMA AgentSpeaks ==
    ASSUME IInv, NEW a \in Agents, NEW to, Goes(a, to), Says(a, to), Stays, UNCHANGED instance
    PROVE  IInv'
<1>1. instance' \in [Pids -> Instances]
  BY DEF IInv, Types, ThreadTypes
<1>2. \A q \in Pids : \/ instance'[q] = instance[q]
                      \/ /\ instance[q] = "listening" /\ instance'[q] = a /\ pipeOf[a] = q
                         /\ listener[q] \notin {"ready", "hand over"}
  OBVIOUS
<1> QED BY <1>1, <1>2, AgentGoesOn

LEMMA AgentStep ==
    ASSUME IInv, NEW a \in Agents,
           AgentSteps(a) \/ ReaderGoes(a) \/ ProcessDies(a)
             \/ \E p \in Pids : stage[a] = "none" /\ LoadAgent(a, p)
    PROVE  IInv'
<1> USE ListenersAssumption
<1>0. /\ ThreadTypes /\ SessionTypes /\ AgentTypes /\ ConfigTaken /\ AgentInv(a) /\ Client
      /\ instance \in [Pids -> Instances]
  BY DEF IInv, Types, Served, ThreadTypes
<1>1. CASE TryPipe(a)
  <2>1. stage[a] = "connect" /\ Stays /\ said' = said
    BY <1>1 DEF TryPipe, Stays
  <2>2. CASE instance[pipeOf[a]] = "listening"
    <3>1. /\ stage' = [stage EXCEPT ![a] = "register"]
          /\ instance' = [instance EXCEPT ![pipeOf[a]] = a]
      BY <1>1, <2>2 DEF TryPipe, AgentGoes
    <3>2. instance' \in [Pids -> Instances]
      BY <1>0, <3>1 DEF Instances
    <3>3. \A q \in Pids : \/ instance'[q] = instance[q]
                          \/ /\ instance[q] = "listening" /\ instance'[q] = a /\ pipeOf[a] = q
                             /\ listener[q] \notin {"ready", "hand over"}
      <4> SUFFICES ASSUME NEW q \in Pids
                   PROVE  \/ instance'[q] = instance[q]
                          \/ /\ instance[q] = "listening" /\ instance'[q] = a /\ pipeOf[a] = q
                             /\ listener[q] \notin {"ready", "hand over"}
        OBVIOUS
      <4>1. CASE q = pipeOf[a]
        <5>1. instance[q] = "listening" /\ instance'[q] = a
          BY <1>0, <2>2, <3>1, <4>1
        <5>2. instance[q] \notin Agents
          BY <5>1
        <5>3. listener[q] \notin {"ready", "hand over"}
          BY <1>0, <5>2 DEF Client
        <5> QED BY <4>1, <5>1, <5>3
      <4>2. CASE q # pipeOf[a]
        BY <1>0, <3>1, <4>2
      <4> QED BY <4>1, <4>2
    <3>4. Goes(a, "register") /\ Says(a, "register")
      BY <2>1, <3>1 DEF Goes, Says, AgentPlaces
    <3> QED BY <2>1, <3>2, <3>3, <3>4, AgentGoesOn
  <2>3. CASE instance[pipeOf[a]] # "listening"
    <3>1. Goes(a, "gave up") /\ UNCHANGED instance
      BY <1>1, <2>3 DEF TryPipe, AgentGoes, Goes, AgentPlaces
    <3>2. Says(a, "gave up")
      BY <2>1 DEF Says
    <3> QED BY <2>1, <3>1, <3>2, AgentSpeaks
  <2> QED BY <2>2, <2>3
<1>2. CASE WriteRegistration(a)
  <2>1. PICK to \in {"read config", "lost"} : Goes(a, to) /\ Says(a, to)
    <3>1. CASE Connected(a)
      BY <1>2, <3>1 DEF WriteRegistration, Write, Goes, Says, AgentPlaces
    <3>2. CASE ~Connected(a)
      BY <1>2, <3>2 DEF WriteRegistration, Write, Goes, Says, AgentPlaces
    <3> QED BY <3>1, <3>2
  <2>2. Stays /\ UNCHANGED instance
    BY <1>2 DEF WriteRegistration, Stays, threadVars
  <2> QED BY <2>1, <2>2, AgentSpeaks
<1>3. CASE ReadAnswer(a)
  <2>1. Goes(a, "install") /\ Says(a, "install")
    BY <1>3 DEF ReadAnswer, AgentGoes, Goes, Says, AgentPlaces
  <2>2. Stays /\ UNCHANGED instance
    BY <1>3 DEF ReadAnswer, Stays, threadVars
  <2> QED BY <2>1, <2>2, AgentSpeaks
<1>4. CASE ActivateHooks(a)
  <2>1. PICK to \in {"report ready", "report error"} : Goes(a, to) /\ Says(a, to)
    BY <1>4 DEF ActivateHooks, AgentGoes, Goes, Says, AgentPlaces
  <2>2. Stays /\ UNCHANGED instance
    BY <1>4 DEF ActivateHooks, Stays, threadVars
  <2> QED BY <2>1, <2>2, AgentSpeaks
<1>5. CASE ReportHooks(a)
  <2>1. PICK to \in {"trace", "failed", "lost"} : Goes(a, to) /\ Says(a, to)
    <3>1. CASE Connected(a)
      BY <1>5, <3>1 DEF ReportHooks, Write, Goes, Says, AgentPlaces
    <3>2. CASE ~Connected(a)
      BY <1>5, <3>2 DEF ReportHooks, Write, Goes, Says, AgentPlaces
    <3> QED BY <3>1, <3>2
  <2>2. Stays /\ UNCHANGED instance
    BY <1>5 DEF ReportHooks, Stays, threadVars
  <2> QED BY <2>1, <2>2, AgentSpeaks
<1>6. CASE ProcessDies(a)
  <2>1. Goes(a, "dead") /\ Says(a, "dead")
    BY <1>6 DEF ProcessDies, Goes, Says, AgentPlaces
  <2>2. Stays /\ UNCHANGED instance
    BY <1>6 DEF ProcessDies, Stays, threadVars
  <2> QED BY <2>1, <2>2, AgentSpeaks
<1>7. CASE ReaderGoes(a)
  <2>1. /\ readers' = readers \ {a} /\ UNCHANGED agentVars
        /\ UNCHANGED <<listening, pids, listener, instance, joinable, sessionVars, historyVars>>
    BY <1>7 DEF ReaderGoes
  <2>2. UNCHANGED <<stage, pipeOf, said, got, born, config>>
    BY <2>1 DEF agentVars, sessionVars
  <2>3. ASSUME NEW q \in Pids, instance[q] = a PROVE ClientInv(a, q)'
    <3>1. ClientInv(a, q)
      BY <1>0, <2>3 DEF AgentInv
    <3> QED BY <2>1, <2>2, <3>1 DEF ClientInv
  <2>4. AgentInv(a)'
    BY <1>0, <2>1, <2>2, <2>3 DEF AgentInv
  <2>5. AgentTypes' /\ instance' \in [Pids -> Instances] /\ readers' \subseteq readers
    BY <1>0, <2>1, <2>2, AgentsKeep
  <2>6. UNCHANGED <<listening, pids, listener, joinable, sessionVars, historyVars>>
    BY <2>1
  <2>7. \A b \in Agents : b # a =>
               /\ stage'[b] = stage[b] /\ pipeOf'[b] = pipeOf[b] /\ said'[b] = said[b]
               /\ got'[b] = got[b] /\ born'[b] = born[b]
    BY <2>2
  <2>8. \A q \in Pids : instance'[q] = instance[q] \/ (instance[q] = "listening" /\ instance'[q] = a)
    BY <2>1
  <2> QED BY <2>4, <2>5, <2>6, <2>7, <2>8, AgentMoves
<1>8. ASSUME NEW p \in Pids, stage[a] = "none", LoadAgent(a, p) PROVE IInv'
  <2>1. /\ stage' = [stage EXCEPT ![a] = "connect"] /\ pipeOf' = [pipeOf EXCEPT ![a] = p]
        /\ born' = [born EXCEPT ![a] = session] /\ session > 0 /\ starter["launch"].at = "idle"
        /\ UNCHANGED <<threadVars, sessionVars, said, got, historyVars>>
    BY <1>8 DEF LoadAgent, AgentGoes
  <2>2. UNCHANGED <<listening, pids, listener, instance, readers, joinable, config>>
    BY <2>1 DEF threadVars, sessionVars
  <2>3. AgentTypes'
    BY <1>0, <2>1 DEF AgentTypes, AgentPlaces, SessionTypes
  <2>4. stage'[a] = "connect" /\ born'[a] = config
    BY <1>0, <2>1 DEF AgentTypes, ConfigTaken
  <2>5. 1 <= config /\ config \in Nat
    BY <1>0, <2>1 DEF ConfigTaken, SessionTypes
  <2>6. /\ got[a] = 0 /\ said[a] \notin {"ready", "error"} /\ a \notin readers
        /\ \A q \in Pids : instance[q] # a
    BY <1>0, <1>8 DEF AgentInv, ClientInv
  <2>7. AgentInv(a)'
    BY <2>1, <2>2, <2>4, <2>5, <2>6 DEF AgentInv
  <2>8. \A b \in Agents : b # a =>
               /\ stage'[b] = stage[b] /\ pipeOf'[b] = pipeOf[b] /\ said'[b] = said[b]
               /\ got'[b] = got[b] /\ born'[b] = born[b]
    BY <1>0, <2>1 DEF AgentTypes
  <2>9. instance' \in [Pids -> Instances] /\ readers' \subseteq readers
    BY <1>0, <2>2
  <2>10. UNCHANGED <<listening, pids, listener, joinable, sessionVars, historyVars>>
    BY <2>1, <2>2
  <2>11. \A q \in Pids : instance'[q] = instance[q] \/ (instance[q] = "listening" /\ instance'[q] = a)
    BY <2>2
  <2> QED BY <2>3, <2>7, <2>8, <2>9, <2>10, <2>11, AgentMoves
<1> QED BY <1>1, <1>2, <1>3, <1>4, <1>5, <1>6, <1>7, <1>8 DEF AgentSteps

-----------------------------------------------------------------------------
LEMMA IInvStep == IInv /\ [ListenersNext]_listenerVars => IInv'
<1> SUFFICES ASSUME IInv, [ListenersNext]_listenerVars PROVE IInv'
  OBVIOUS
<1>1. CASE UNCHANGED listenerVars
  <2>1. UNCHANGED <<listening, pids, listener, joinable, sessionVars, historyVars, instance, readers, agentVars>>
    BY <1>1 DEF listenerVars, threadVars
  <2>2. OneListener' /\ AskedGoesOn' /\ ConfigTaken' /\ Exit' /\ Prepared' /\ SessionTypes'
    BY <2>1, RestKeeps
  <2>3. config \in Nat /\ config' = config /\ ThreadTypes
    BY <2>1 DEF IInv, Types, SessionTypes, sessionVars
  <2>4. Served' /\ AgentTypes'
    BY <2>1, <2>3, ServedKeeps
  <2>5. ThreadTypes'
    BY <2>1, <2>3 DEF ThreadTypes
  <2> QED BY <2>2, <2>4, <2>5 DEF IInv, Types
<1>2. CASE ListenersNext
  BY <1>2, ListenerStep, LaunchStep, AgentStep, WindowStep, StarterStep, StopStep DEF ListenersNext
<1> QED BY <1>1, <1>2

\* The invariant of the listeners holds in every behaviour of the two parts.
THEOREM Invariance == PartSpec => []IInv
<1>1. PartInit => IInv
  BY IInvInit DEF PartInit
<1>2. IInv /\ [PartNext]_partVars => IInv'
  <2> SUFFICES ASSUME IInv, [PartNext]_partVars PROVE IInv'
    OBVIOUS
  <2>1. [ListenersNext]_listenerVars
    BY DEF PartNext, partVars
  <2> QED BY <2>1, IInvStep
<1> QED BY <1>1, <1>2, PTL DEF PartSpec

\* A process whose pipe a reader serves has the configuration of the launch that
\* it belongs to or of a later one, for any number of launches, pids and agents
\* (PerformAdditionalPipeHandshake against SetActiveTraceConfig).
THEOREM ServedAreConfiguredHolds == PartSpec => []ServedAreConfigured
<1>1. IInv => ServedAreConfigured
  <2> SUFFICES ASSUME IInv, NEW a \in readers
               PROVE  stage[a] \in {"trace", "dead"} /\ got[a] > 0 /\ got[a] >= born[a]
    BY DEF ServedAreConfigured
  <2>1. a \in Agents /\ AgentInv(a) /\ got[a] \in Nat
    BY DEF IInv, Served, Types, ThreadTypes, AgentTypes
  <2>2. stage[a] \in {"trace", "dead"} /\ got[a] # 0 /\ got[a] >= born[a]
    BY <2>1 DEF AgentInv
  <2> QED BY <2>1, <2>2
<1> QED BY Invariance, <1>1, PTL

\* A pid has one listener at most and, while the listeners run, every pid that was
\* asked for has one that goes on (StartAdditionalPipeListenerForPid against the
\* end of the listener's thread).
THEOREM AskedIsListenedHolds == PartSpec => []AskedIsListened
<1>1. IInv => AskedIsListened
  <2> SUFFICES ASSUME IInv PROVE AskedIsListened
    OBVIOUS
  <2>0. OneListener /\ AskedGoesOn /\ SessionTypes
    BY DEF IInv, Types
  <2>1. ASSUME NEW p \in Pids
        PROVE  Cardinality({s \in Starters : starter[s].at = "push" /\ starter[s].pid = p})
                   + (IF listener[p] = "none" THEN 0 ELSE 1) = IF p \in pids THEN 1 ELSE 0
    <3> DEFINE S == {s \in Starters : starter[s].at = "push" /\ starter[s].pid = p}
    <3>1. CASE Pushed(p)
      <4>1. PICK s \in Starters : Pushing(s, p)
        BY <3>1 DEF Pushed
      <4>2. S = {s}
        BY <2>0, <4>1 DEF OneListener, Pushing
      <4>3. Cardinality(S) = 1
        BY <4>2, FS_Singleton
      <4>4. listener[p] = "none" /\ p \in pids
        BY <2>0, <3>1 DEF OneListener
      <4> HIDE DEF S
      <4>5. Cardinality(S) + (IF listener[p] = "none" THEN 0 ELSE 1) = IF p \in pids THEN 1 ELSE 0
        BY <4>3, <4>4
      <4> QED BY <4>5 DEF S
    <3>2. CASE ~Pushed(p)
      <4>1. S = {}
        BY <3>2 DEF Pushed, Pushing
      <4>2. Cardinality(S) = 0
        BY <4>1, FS_EmptySet
      <4>3. p \in pids <=> listener[p] # "none"
        BY <2>0, <3>2 DEF OneListener
      <4> HIDE DEF S
      <4>4. Cardinality(S) + (IF listener[p] = "none" THEN 0 ELSE 1) = IF p \in pids THEN 1 ELSE 0
        BY <4>2, <4>3
      <4> QED BY <4>4 DEF S
    <3> QED BY <3>1, <3>2
  <2>2. listening => \A p \in asked :
             \/ listener[p] \notin {"none", "erase"}
             \/ \E s \in Starters : starter[s].at = "push" /\ starter[s].pid = p
    BY <2>0 DEF AskedGoesOn, Pushed, Pushing
  <2> QED BY <2>1, <2>2 DEF AskedIsListened
<1> QED BY Invariance, <1>1, PTL

\* main leaves no joinable thread behind (controller.cpp:196-208), unless a
\* handshake or a start was under way when the window was closed.
THEOREM ExitDetachesAllHolds == PartSpec => []ExitDetachesAll
<1>1. IInv => ExitDetachesAll
  BY DEF IInv, Exit, Leaving, ExitDetachesAll
<1> QED BY Invariance, <1>1, PTL

\* What one step may make of a handshake whose registration was read.
GoesOn(p, a) ==
    \/ listener'[p] \in {"config", "ready", "hand over"} /\ instance'[p] = a
    \/ a \in readers' \/ Over(a)

LEMMA ListenerServes ==
    ASSUME IInv, NEW q \in Pids, ListenerThread(q), NEW p \in Pids, NEW a \in Agents,
           listener[p] \in {"config", "ready", "hand over"}, instance[p] = a
    PROVE  GoesOn(p, a)
<1> USE ListenersAssumption
<1>0. ThreadTypes /\ AgentInv(a)
  BY DEF IInv, Types, Served
<1>1. CASE q = p
  <2>1. \/ WriteConfig(p) \/ ReadReady(p) \/ HandOver(p)
    BY <1>1 DEF ListenerThread, LookAtRunning, CreatePipe, LookAtDeadline, ConnectPipe, ClosePipe,
                ErasePid, ReadRegistration, ReadFrom, ReadEnds, ListenerGoes
  <2>2. CASE WriteConfig(p)
    BY <1>0, <2>2 DEF WriteConfig, ListenerGoes, GoesOn, ThreadTypes
  <2>3. CASE ReadReady(p)
    <3>1. CASE ReadFrom(p, "ready", "ready", "hand over")
      BY <1>0, <2>3, <3>1 DEF ReadReady, ReadFrom, ListenerGoes, GoesOn, ThreadTypes
    <3>2. CASE ReadFrom(p, "ready", "error", "close")
      <4>1. said[a] = "error"
        BY <3>2 DEF ReadFrom
      <4> QED BY <1>0, <4>1 DEF AgentInv, Over, GoesOn
    <3>3. CASE ReadEnds(p, "ready")
      BY <3>3 DEF ReadEnds, GoesOn
    <3> QED BY <2>3, <3>1, <3>2, <3>3 DEF ReadReady
  <2>4. CASE HandOver(p)
    BY <2>4 DEF HandOver, GoesOn
  <2> QED BY <2>1, <2>2, <2>3, <2>4
<1>2. CASE q # p
  <2>1. PICK place, i : /\ listener' = [listener EXCEPT ![q] = place]
                        /\ instance' = instance \/ instance' = [instance EXCEPT ![q] = i]
    BY DEF ListenerThread, LookAtRunning, CreatePipe, LookAtDeadline, ConnectPipe, ClosePipe,
           ErasePid, ReadRegistration, WriteConfig, ReadReady, HandOver, ReadFrom, ReadEnds, ListenerGoes
  <2> QED BY <1>0, <1>2, <2>1 DEF ThreadTypes, GoesOn
<1> QED BY <1>1, <1>2

LEMMA OthersServe ==
    ASSUME IInv, [ListenersNext]_listenerVars, \A q \in Pids : ~ListenerThread(q),
           NEW p \in Pids, NEW a \in Agents,
           listener[p] \in {"config", "ready", "hand over"}, instance[p] = a
    PROVE  GoesOn(p, a)
<1> USE ListenersAssumption
<1>0. ThreadTypes /\ SessionTypes /\ OneListener /\ a \notin {"none", "listening", "left", "stop"}
  BY DEF IInv, Types
<1>q. listener'[p] = listener[p] /\ instance'[p] = instance[p] => GoesOn(p, a)
  BY DEF GoesOn
<1>1. CASE UNCHANGED listenerVars
  BY <1>1, <1>q DEF listenerVars, threadVars
<1>2. ASSUME NEW q \in Pids, QueueChild(q) PROVE GoesOn(p, a)
  BY <1>2, <1>q DEF QueueChild, threadVars
<1>3. ASSUME NEW b \in Agents,
             AgentSteps(b) \/ ReaderGoes(b) \/ ProcessDies(b) \/ (\E q \in Pids : LoadAgent(b, q))
      PROVE  GoesOn(p, a)
  <2>1. CASE TryPipe(b)
    <3>1. listener' = listener
      BY <2>1 DEF TryPipe
    <3>2. CASE instance[pipeOf[b]] = "listening"
      <4>1. instance' = [instance EXCEPT ![pipeOf[b]] = b] /\ pipeOf[b] # p
        BY <1>0, <2>1, <3>2 DEF TryPipe
      <4> QED BY <1>0, <1>q, <3>1, <4>1 DEF ThreadTypes
    <3>3. CASE instance[pipeOf[b]] # "listening"
      BY <1>q, <2>1, <3>1, <3>3 DEF TryPipe
    <3> QED BY <3>2, <3>3
  <2>2. CASE ~TryPipe(b)
    <3>1. listener' = listener /\ instance' = instance
      BY <1>3, <2>2 DEF AgentSteps, WriteRegistration, ReadAnswer, ActivateHooks, ReportHooks,
                        ReaderGoes, ProcessDies, LoadAgent, threadVars
    <3> QED BY <1>q, <3>1
  <2> QED BY <2>1, <2>2
<1>4. CASE LaunchWorker
  BY <1>4, <1>q DEF LaunchWorker, TakeConfig, StartAdditionalPipeListener, threadVars
<1>5. CASE Window
  <2>1. listener' = listener
    BY <1>5 DEF Window, SnapshotPids, PokePipe, HangUp, StopEnds, DetachThreads, Leave, threadVars
  <2>2. CASE \E q \in Pids : PokePipe(q)
    <3>1. PICK q \in Pids : PokePipe(q)
      BY <2>2
    <3>2. instance'[p] = instance[p]
      <4>1. CASE instance[q] = "listening"
        <5>1. instance' = [instance EXCEPT ![q] = "stop"] /\ q # p
          BY <1>0, <3>1, <4>1 DEF PokePipe
        <5> QED BY <1>0, <5>1 DEF ThreadTypes
      <4>2. CASE instance[q] # "listening"
        BY <3>1, <4>2 DEF PokePipe
      <4> QED BY <4>1, <4>2
    <3> QED BY <1>q, <2>1, <3>2
  <2>3. CASE HangUp
    <3>1. instance'[p] = instance[p]
      BY <1>0, <2>3 DEF HangUp
    <3> QED BY <1>q, <2>1, <3>1
  <2>4. CASE SnapshotPids \/ StopEnds \/ DetachThreads \/ Leave
    BY <1>q, <2>4 DEF SnapshotPids, StopEnds, DetachThreads, Leave, threadVars
  <2> QED BY <1>5, <2>2, <2>3, <2>4 DEF Window
<1>6. ASSUME NEW s \in Starters, Starter(s) PROVE GoesOn(p, a)
  <2>1. CASE LookAtPid(s) \/ InsertPid(s)
    BY <1>q, <2>1 DEF LookAtPid, InsertPid, threadVars
  <2>2. CASE PushListener(s)
    <3>1. /\ listener' = [listener EXCEPT ![starter[s].pid] = "loop"] /\ instance' = instance
          /\ starter[s].at = "push"
      BY <2>2 DEF PushListener, StarterGoes
    <3>2. starter[s].pid # p
      BY <1>0, <3>1 DEF OneListener, Pushed, Pushing
    <3> QED BY <1>0, <1>q, <3>1, <3>2 DEF ThreadTypes
  <2> QED BY <1>6, <2>1, <2>2 DEF Starter
<1>7. ASSUME NEW next, StopAdditionalPipeListener(next) PROVE GoesOn(p, a)
  BY <1>7, <1>q DEF StopAdditionalPipeListener
<1> QED BY <1>1, <1>2, <1>3, <1>4, <1>5, <1>6, <1>7 DEF ListenersNext

\* A handshake whose registration was read ends with a reader thread, whoever
\* stops the listeners meanwhile, and whatever the deadline is.
THEOREM RegisteredIsServedHolds == PartSpec => RegisteredIsServed
<1>1. IInv /\ [PartNext]_partVars =>
        [\A p \in Pids, a \in Agents :
           listener[p] \in {"config", "ready", "hand over"} /\ instance[p] = a
           => \/ listener'[p] \in {"config", "ready", "hand over"} /\ instance'[p] = a
              \/ a \in readers' \/ Over(a)]_listenerVars
  <2> SUFFICES ASSUME IInv, [PartNext]_partVars, NEW p \in Pids, NEW a \in Agents,
                      listener[p] \in {"config", "ready", "hand over"}, instance[p] = a
               PROVE  GoesOn(p, a)
    BY DEF GoesOn
  <2>1. [ListenersNext]_listenerVars
    BY DEF PartNext, partVars
  <2>2. CASE \E q \in Pids : ListenerThread(q)
    BY <2>2, ListenerServes
  <2>3. CASE ~\E q \in Pids : ListenerThread(q)
    BY <2>1, <2>3, OthersServe
  <2> QED BY <2>2, <2>3
<1> QED BY <1>1, Invariance, PTL DEF PartSpec, RegisteredIsServed

-----------------------------------------------------------------------------
\* What holds of the launch alone holds of it composed with the listeners, whose
\* steps leave its variables alone.
THEOREM LaunchHolds == PartSpec => [](NotFreedInUse /\ CleanOutcome)
<1> DEFINE Inv == LaunchInv /\ HandlesInv /\ WritersInv /\ TargetInv
<1>1. PartInit => Inv
  BY LaunchInvInit, HandlesInit, WritersInit, TargetInit DEF PartInit
<1>2. Inv /\ [PartNext]_partVars => Inv'
  <2> SUFFICES ASSUME Inv, [PartNext]_partVars PROVE Inv'
    OBVIOUS
  <2>1. [Next]_vars
    BY DEF PartNext, partVars
  <2> QED BY <2>1, LaunchInvStep, HandlesStep, WritersStep, TargetStep
<1>3. Inv => NotFreedInUse /\ CleanOutcome
  BY JobInvIsNotFreed, InvariantsClean DEF LaunchInv
<1> QED BY <1>1, <1>2, <1>3, PTL DEF PartSpec

==============================================================================
