------------------------ MODULE MonitoredProcessProofs ------------------------
(***************************************************************************)
(* Theorems of AgentPipe, for any number of threads and calls and any size *)
(* of the pipe, with all the failures the module has; and, in the second   *)
(* half, of HookManager, for any functions, modules and threads.           *)
(***************************************************************************)
EXTENDS MonitoredProcess, SequenceTheorems, TLAPS

\* Once the readiness message is written only SendJsonPayload writes.
Told == {"status", "monitor", "peek", "remove", "unload", "unloaded"}
Opening == {"connect", "register", "config"}

\* The thread at the pipe is the one that holds its mutex; so does the monitor
\* loop, in which the agent's thread sends nothing.
OneWriter ==
    /\ \A s \in Senders : at[s] \in {"header", "payload"} => pipeMutex = s
    /\ agent = "peek" => pipeMutex = AgentThread
    /\ agent # "status" => at[AgentThread] = "out"

NoReady == \A i \in 1 .. Len(toServer) : toServer[i].what # "ready"

\* How far the two ends are with each other.
Stages ==
    /\ server \in Opening => agent \in Opening \cup {"ended"} /\ toAgent = <<>> /\ ~callback
    /\ agent \in Opening \cup {"install", "callback", "error", "error text", "close"} => ~callback
    /\ ~callback => \A s \in Senders : at[s] \in {"out", "log"}
    /\ agent \in {"callback", "ready", "status", "monitor", "peek"} => hooks
    /\ agent \in {"ready", "status", "monitor", "peek"} => callback
    /\ agent \in {"remove", "unload", "unloaded"} => ~ServerOpen
    /\ server \in {"header", "payload"} => agent \in Told
    /\ agent \notin Told => NoReady

\* What may come after an item in a pipe that a reader serves or will serve.
PayloadOf(h) == [h EXCEPT !.what = "payload"]
Follows(a, b) == IF a.what = "telemetry" THEN b = PayloadOf(a) ELSE b.what = "telemetry"

Streaming ==
    \/ server \in {"header", "payload"}
    \/ server = "ready" /\ toServer # <<>> /\ toServer[1].what = "ready"

Ordered == \A i \in 1 .. Len(toServer) - 1 : Follows(toServer[i], toServer[i + 1])
Fits ==
    /\ server = "header" /\ toServer # <<>> => toServer[1].what = "telemetry"
    /\ server = "payload" =>
         /\ header \in Items /\ header.what = "telemetry"
         /\ toServer # <<>> => toServer[1] = PayloadOf(header)

\* The last item is a header exactly while somebody has its payload to write.
HalfWritten(s) ==
    IF toServer # <<>> THEN toServer[Len(toServer)] = Item("telemetry", s)
                       ELSE server = "payload" /\ header = Item("telemetry", s)
Complete == IF toServer # <<>> THEN toServer[Len(toServer)].what # "telemetry"
                               ELSE server = "header"
Ends ==
    PipeWorks =>
        /\ \A s \in Senders : at[s] = "payload" => HalfWritten(s)
        /\ (\A s \in Senders : at[s] # "payload") => Complete

Stream ==
    /\ Streaming => Ordered /\ Fits /\ Ends
    /\ server = "ready" /\ PipeWorks /\ toServer = <<>>
         => \A s \in Senders : at[s] # "payload"

IInv == TypeOK /\ OneWriter /\ Stages /\ Stream /\ WholeMessages

-----------------------------------------------------------------------------
(* Facts about items, counters and sequences.                              *)

LEMMA ItemIsItem ==
    ASSUME TypeOK, NEW s \in Senders,
           NEW what \in {"register", "ready", "error", "telemetry", "payload"}
    PROVE  Item(what, s) \in Items /\ Item(what, s).what = what
BY DEF TypeOK, Items, Item

LEMMA AgentIsSender == AgentThread \in Senders /\ Threads \subseteq Senders /\ Nobody \notin Senders
BY PipeAssumption DEF Senders

LEMMA Counts ==
    ASSUME NEW n \in 0 .. MaxCalls + Statuses, n < MaxCalls \/ n < Statuses
    PROVE  n + 1 \in 0 .. MaxCalls + Statuses
BY PipeAssumption

LEMMA MadeGrows ==
    ASSUME TypeOK, NEW s \in Senders, made[s] < MaxCalls \/ made[s] < Statuses,
           made' = [made EXCEPT ![s] = @ + 1]
    PROVE  made' \in [Senders -> 0 .. MaxCalls + Statuses]
<1>1. made[s] \in 0 .. MaxCalls + Statuses
  BY DEF TypeOK
<1>2. made[s] + 1 \in 0 .. MaxCalls + Statuses
  BY <1>1, Counts
<1> QED BY <1>2 DEF TypeOK

LEMMA Appended ==
    ASSUME NEW S, NEW q \in Seq(S), NEW e \in S
    PROVE  /\ Append(q, e) \in Seq(S) /\ Append(q, e) # <<>>
           /\ Len(Append(q, e)) = Len(q) + 1
           /\ \A i \in 1 .. Len(q) : Append(q, e)[i] = q[i]
           /\ Append(q, e)[Len(q) + 1] = e
BY AppendProperties

LEMMA Lengths ==
    ASSUME NEW S, NEW q \in Seq(S)
    PROVE  /\ Len(q) \in Nat
           /\ q # <<>> => Len(q) >= 1 /\ 1 \in 1 .. Len(q)
           /\ q = <<>> => Len(q) = 0
<1>1. Len(q) \in Nat
  BY LenProperties
<1>2. q # <<>> => Len(q) \in Nat \ {0}
  BY EmptySeq
<1>3. q = <<>> => Len(q) = 0
  BY EmptySeq
<1> QED BY <1>1, <1>2, <1>3

LEMMA Tailed ==
    ASSUME NEW S, NEW q \in Seq(S), q # <<>>
    PROVE  /\ Tail(q) \in Seq(S) /\ Head(q) \in S /\ Head(q) = q[1]
           /\ Len(Tail(q)) = Len(q) - 1 /\ Len(q) \in Nat \ {0}
           /\ \A i \in 1 .. Len(q) - 1 : Tail(q)[i] = q[i + 1]
           /\ Tail(q) = <<>> <=> Len(q) = 1
<1>1. /\ Tail(q) \in Seq(S) /\ Head(q) \in S /\ Head(q) = q[1]
      /\ Len(Tail(q)) = Len(q) - 1
      /\ \A i \in 1 .. Len(q) - 1 : Tail(q)[i] = q[i + 1]
  BY HeadTailProperties
<1>2. Len(q) \in Nat \ {0}
  BY EmptySeq, LenProperties
<1>3. Tail(q) = <<>> <=> Len(Tail(q)) = 0
  BY <1>1, EmptySeq
<1> QED BY <1>1, <1>2, <1>3

LEMMA ConfigSent ==
    /\ Append(<<>>, "config") = <<"config">> /\ Tail(<<"config">>) = <<>>
    /\ <<"config">> # <<>>
OBVIOUS

\* A longer, and a shorter, sequence of items.
LEMMA TypeOfWrite ==
    ASSUME TypeOK, NEW s \in Senders, Len(toServer) < PipeSize,
           NEW what \in {"register", "ready", "error", "telemetry", "payload"},
           toServer' = Append(toServer, Item(what, s))
    PROVE  /\ toServer' \in Seq(Items) /\ Len(toServer') <= PipeSize
           /\ toServer' # <<>> /\ Len(toServer') = Len(toServer) + 1
           /\ \A i \in 1 .. Len(toServer) : toServer'[i] = toServer[i]
           /\ toServer'[Len(toServer) + 1] = Item(what, s)
<1>1. toServer \in Seq(Items) /\ Len(toServer) \in Nat /\ Item(what, s) \in Items
  BY ItemIsItem, LenProperties DEF TypeOK
<1>2. Len(Append(toServer, Item(what, s))) = Len(toServer) + 1
  BY <1>1, Appended
<1>3. Len(toServer) + 1 <= PipeSize
  BY <1>1, PipeAssumption
<1> QED BY <1>1, <1>2, <1>3, Appended

LEMMA TypeOfRead ==
    ASSUME TypeOK, toServer # <<>>, toServer' = Tail(toServer)
    PROVE  /\ toServer' \in Seq(Items) /\ Len(toServer') <= PipeSize
           /\ Head(toServer) \in Items /\ Head(toServer) = toServer[1]
<1>1. toServer \in Seq(Items) /\ Len(toServer) \in Nat /\ Len(toServer) <= PipeSize
  BY LenProperties DEF TypeOK
<1>2. Len(Tail(toServer)) = Len(toServer) - 1
  BY <1>1, Tailed
<1>3. Len(toServer) - 1 <= PipeSize
  BY <1>1, PipeAssumption
<1> QED BY <1>1, <1>2, <1>3, Tailed

LEMMA IInvInit == Init => IInv
<1> SUFFICES ASSUME Init PROVE IInv
  OBVIOUS
<1> USE DEF Init
<1>1. TypeOK
  <2>1. <<>> \in Seq(Items) /\ Len(<<>>) = 0 /\ <<>> \in Seq(Items \X Items)
    OBVIOUS
  <2>2. Len(<<>>) <= PipeSize /\ 0 \in 0 .. MaxCalls + Statuses
    BY <2>1, PipeAssumption
  <2>3. made \in [Senders -> 0 .. MaxCalls + Statuses]
    BY <2>2
  <2> QED BY <2>1, <2>2, <2>3 DEF TypeOK
<1>2. OneWriter /\ Stream
  BY AgentIsSender DEF OneWriter, Stream, Streaming
<1>3. Stages
  BY DEF Stages, Opening, Told, ServerOpen, NoReady
<1>4. WholeMessages
  BY DEF WholeMessages
<1> QED BY <1>1, <1>2, <1>3, <1>4 DEF IInv

\* The types in three parts.
TypeOfEnds ==
    /\ kind \in Kinds /\ proc \in {"suspended", "running", "gone"}
    /\ agent \in {"connect", "register", "config", "install", "callback", "ready",
                  "error", "error text", "close", "status", "monitor", "peek",
                  "remove", "unload", "ended", "unloaded"}
    /\ hooks \in BOOLEAN /\ callback \in BOOLEAN
    /\ client \in {"none", "open", "closed"}
    /\ server \in {"connect", "register", "config", "ready", "header", "payload",
                   "failed", "ended"}
TypeOfThreads ==
    /\ at \in [Senders -> {"out", "log", "lock", "header", "payload"}]
    /\ callbackMutex \in Senders \cup {Nobody} /\ pipeMutex \in Senders \cup {Nobody}
    /\ made \in [Senders -> 0 .. MaxCalls + Statuses]
TypeOfPipe ==
    /\ toServer \in Seq(Items) /\ Len(toServer) <= PipeSize
    /\ toAgent \in {<<>>, <<"config">>}
    /\ header \in Items \cup {<<>>}
    /\ received \in Seq(Items \X Items)

LEMMA Types ==
    /\ TypeOK <=> TypeOfEnds /\ TypeOfThreads /\ TypeOfPipe
    /\ TypeOK' <=> TypeOfEnds' /\ TypeOfThreads' /\ TypeOfPipe'
BY DEF TypeOK, TypeOfEnds, TypeOfThreads, TypeOfPipe

LEMMA TypesKeep ==
    /\ TypeOfEnds /\ UNCHANGED <<kind, proc, agent, hooks, callback, client, server>> => TypeOfEnds'
    /\ TypeOfThreads /\ UNCHANGED <<at, callbackMutex, pipeMutex, made>> => TypeOfThreads'
    /\ TypeOfPipe /\ UNCHANGED <<toServer, toAgent, header, received>> => TypeOfPipe'
<1>1. TypeOfEnds /\ UNCHANGED <<kind, proc, agent, hooks, callback, client, server>> => TypeOfEnds'
  BY DEF TypeOfEnds
<1>2. TypeOfThreads /\ UNCHANGED <<at, callbackMutex, pipeMutex, made>> => TypeOfThreads'
  BY DEF TypeOfThreads, Senders
<1>3. TypeOfPipe /\ UNCHANGED <<toServer, toAgent, header, received>> => TypeOfPipe'
  BY DEF TypeOfPipe, Items, Senders
<1> QED BY <1>1, <1>2, <1>3

-----------------------------------------------------------------------------
(* What leaves the stream of items as it is.                               *)

LEMMA StreamKeeps ==
    ASSUME Stream, UNCHANGED <<server, header, toServer>>,
           PipeWorks' => /\ PipeWorks
                         /\ \A s \in Senders :
                              /\ at'[s] = "payload" <=> at[s] = "payload"
                              /\ at[s] = "payload" => made'[s] = made[s]
    PROVE  Stream'
<1>1. Streaming' => Streaming
  BY DEF Streaming
<1>2. ASSUME Streaming PROVE Ordered' /\ Fits'
  BY <1>2 DEF Stream, Ordered, Fits
<1>3. ASSUME Streaming PROVE Ends'
  <2> SUFFICES ASSUME PipeWorks'
               PROVE  /\ \A s \in Senders : at'[s] = "payload" => HalfWritten(s)'
                      /\ (\A s \in Senders : at'[s] # "payload") => Complete'
    BY DEF Ends
  <2>1. \A s \in Senders : at[s] = "payload" => HalfWritten(s)'
    BY <1>3 DEF Stream, Ends, HalfWritten, Item
  <2>2. (\A s \in Senders : at[s] # "payload") => Complete'
    BY <1>3 DEF Stream, Ends, Complete
  <2> QED BY <2>1, <2>2
<1>4. (server = "ready" /\ PipeWorks /\ toServer = <<>>
         => \A s \in Senders : at[s] # "payload")'
  BY DEF Stream
<1> QED BY <1>1, <1>2, <1>3, <1>4 DEF Stream

LEMMA StreamOver ==
    ASSUME server' \notin {"ready", "header", "payload"} PROVE Stream'
BY DEF Stream, Streaming

\* Before the readiness message is written nothing is served.
LEMMA NothingServed == ASSUME TypeOK', Stages', agent' \notin Told PROVE ~Streaming'
<1>1. /\ server' \notin {"header", "payload"}
      /\ \A i \in 1 .. Len(toServer') : toServer'[i].what # "ready"
  BY DEF Stages, NoReady, Told
<1>2. toServer' # <<>> => 1 \in 1 .. Len(toServer')
  <2>1. toServer' \in Seq(Items)
    BY DEF TypeOK
  <2> QED BY <2>1, Lengths
<1> QED BY <1>1, <1>2 DEF Streaming

-----------------------------------------------------------------------------
(* The threads and what they send.                                         *)

LEMMA Parts == IInv <=> TypeOK /\ OneWriter /\ Stages /\ Stream /\ WholeMessages
BY DEF IInv

\* A thread that writes nothing.
LEMMA ThreadMoves ==
    ASSUME IInv, NEW s \in Senders, NEW l \in {"out", "log", "lock", "header"}, Goto(s, l),
           UNCHANGED <<process, agent, hooks, callback, pipe, reader>>,
           callbackMutex' \in Senders \cup {Nobody},
           made' \in [Senders -> 0 .. MaxCalls + Statuses],
           \A r \in Senders : r # s => made'[r] = made[r],
           at[s] # "payload", s = AgentThread => agent = "status",
           l \in {"out", "log"} \/ callback,
           \/ l = "header" /\ pipeMutex = Nobody /\ pipeMutex' = s
           \/ l # "header" /\ at[s] # "header" /\ pipeMutex' = pipeMutex
    PROVE  IInv'
<1> USE DEF process, pipe, reader, Goto
<1>0. TypeOK /\ OneWriter /\ Stages /\ Stream /\ WholeMessages
  BY Parts
<1>a. /\ pipeMutex' \in Senders \cup {Nobody}
      /\ at' \in [Senders -> {"out", "log", "lock", "header", "payload"}]
      /\ \A r \in Senders : at'[r] = IF r = s THEN l ELSE at[r]
  BY <1>0 DEF TypeOK
<1>1. TypeOK'
  <2>1. TypeOfThreads'
    BY <1>0, <1>a, Types DEF TypeOfThreads, Senders
  <2>2. TypeOfEnds' /\ TypeOfPipe'
    BY <1>0, Types, TypesKeep
  <2> QED BY <2>1, <2>2, Types
<1>2. OneWriter'
  BY <1>0, <1>a, AgentIsSender DEF OneWriter
<1>3. Stages'
  <2>1. \A r \in Senders : at'[r] \in {at[r], l}
    BY <1>0 DEF TypeOK
  <2> QED BY <1>0, <2>1 DEF Stages, ServerOpen, NoReady, Told, Opening
<1>4. Stream'
  <2>1. \A r \in Senders : at'[r] = "payload" <=> at[r] = "payload"
    BY <1>0 DEF TypeOK
  <2>2. PipeWorks' => PipeWorks
    BY DEF PipeWorks, ServerOpen
  <2> QED BY <1>0, <2>1, <2>2, StreamKeeps
<1>5. WholeMessages'
  BY <1>0 DEF WholeMessages
<1> QED BY <1>1, <1>2, <1>3, <1>4, <1>5 DEF IInv

\* A thread that gives up because the pipe no longer works.
LEMMA ThreadReturns ==
    ASSUME IInv, NEW s \in Senders, Return(s), ~PipeWorks, at[s] # "out",
           UNCHANGED <<process, agent, hooks, callback, made, pipe, reader>>
    PROVE  IInv'
<1> USE DEF process, pipe, reader, Goto, Return, Release
<1>0. TypeOK /\ OneWriter /\ Stages /\ Stream /\ WholeMessages
  BY Parts
<1>a. /\ pipeMutex' \in Senders \cup {Nobody} /\ callbackMutex' \in Senders \cup {Nobody}
      /\ at' \in [Senders -> {"out", "log", "lock", "header", "payload"}]
  BY <1>0 DEF TypeOK
<1>1. TypeOK'
  <2>1. TypeOfThreads'
    BY <1>0, <1>a, Types DEF TypeOfThreads, Senders
  <2>2. TypeOfEnds' /\ TypeOfPipe'
    BY <1>0, Types, TypesKeep
  <2> QED BY <2>1, <2>2, Types
<1>2. OneWriter'
  BY <1>0, AgentIsSender DEF OneWriter, TypeOK
<1>3. Stages'
  <2>1. \A r \in Senders : at'[r] \in {at[r], "out"}
    BY <1>0 DEF TypeOK
  <2> QED BY <1>0, <2>1 DEF Stages, ServerOpen, NoReady, Told, Opening
<1>4. Stream'
  <2>1. ~PipeWorks'
    BY DEF PipeWorks, ServerOpen
  <2> QED BY <1>0, <2>1, StreamKeeps
<1>5. WholeMessages'
  BY <1>0 DEF WholeMessages
<1> QED BY <1>1, <1>2, <1>3, <1>4, <1>5 DEF IInv

\* A thread that writes an item; both its items fit where they are written.
LEMMA ThreadWrites ==
    ASSUME IInv, NEW s \in Senders, NEW l \in {"out", "payload"},
           NEW what \in {"telemetry", "payload"},
           l = "payload" => what = "telemetry" /\ at[s] = "header" /\ UNCHANGED locks,
           l = "out" => what = "payload" /\ at[s] = "payload",
           WritePipe(what, s), Goto(s, l),
           l = "out" => Return(s),
           UNCHANGED <<process, agent, hooks, callback, made, reader>>
    PROVE  IInv'
<1> USE DEF process, locks, reader, Goto, Return, Release
<1>0. TypeOK /\ OneWriter /\ Stages /\ Stream /\ WholeMessages
  BY Parts
<1>w. /\ PipeWorks /\ Len(toServer) < PipeSize /\ UNCHANGED <<client, toAgent>>
      /\ toServer' = Append(toServer, Item(what, s))
  BY DEF WritePipe
<1>q. /\ toServer' \in Seq(Items) /\ Len(toServer') <= PipeSize
      /\ toServer' # <<>> /\ Len(toServer') = Len(toServer) + 1
      /\ \A i \in 1 .. Len(toServer) : toServer'[i] = toServer[i]
      /\ toServer'[Len(toServer) + 1] = Item(what, s)
  BY <1>0, <1>w, TypeOfWrite
<1>l. Len(toServer) \in Nat /\ (toServer # <<>> => Len(toServer) >= 1)
  <2>1. toServer \in Seq(Items)
    BY <1>0 DEF TypeOK
  <2> QED BY <2>1, Lengths
<1>e. toServer = <<>> => Len(toServer) = 0
  BY EmptySeq
<1>at. \A r \in Senders : at'[r] = IF r = s THEN l ELSE at[r]
  BY <1>0 DEF TypeOK
<1>a. /\ pipeMutex' \in Senders \cup {Nobody} /\ callbackMutex' \in Senders \cup {Nobody}
      /\ at' \in [Senders -> {"out", "log", "lock", "header", "payload"}]
  BY <1>0 DEF TypeOK
<1>1. TypeOK'
  <2>1. TypeOfThreads'
    BY <1>0, <1>a, Types DEF TypeOfThreads, Senders
  <2>2. TypeOfEnds'
    BY <1>0, <1>w, Types, TypesKeep
  <2>3. TypeOfPipe'
    BY <1>0, <1>w, <1>q, Types DEF TypeOfPipe, Items, Senders
  <2> QED BY <2>1, <2>2, <2>3, Types
<1>2. OneWriter'
  BY <1>0, <1>at, AgentIsSender DEF OneWriter, TypeOK
<1>3. Stages'
  <2>1. NoReady => NoReady'
    BY <1>0, <1>q, <1>l, ItemIsItem DEF NoReady
  <2>2. callback = TRUE
    BY <1>0 DEF Stages, TypeOK
  <2> QED BY <1>0, <1>w, <2>1, <2>2 DEF Stages, ServerOpen, Told, Opening
<1>p. \A r \in Senders : r # s => at[r] # "payload" /\ at'[r] # "payload"
  BY <1>0, <1>at DEF OneWriter
<1>4. Stream'
  <2>1. Streaming' => Streaming
    BY <1>0, <1>q, <1>l, <1>e, ItemIsItem DEF Streaming
  <2>2. ASSUME Streaming PROVE Ordered' /\ Fits' /\ Ends'
    <3>0. Ordered /\ Fits /\ Ends
      BY <1>0, <2>2 DEF Stream
    <3>1. what = "telemetry" => Complete
      BY <1>p, <1>w, <3>0 DEF Ends
    <3>2. what = "payload" => HalfWritten(s)
      BY <1>w, <3>0 DEF Ends
    <3>3. /\ Item(what, s).what = what
          /\ Item("payload", s) = PayloadOf(Item("telemetry", s))
      BY DEF Item, PayloadOf
    <3>4. toServer # <<>> => Follows(toServer[Len(toServer)], Item(what, s))
      BY <3>1, <3>2, <3>3 DEF Complete, HalfWritten, Follows, Item
    <3>5. Ordered'
      <4> SUFFICES ASSUME NEW i \in 1 .. Len(toServer) PROVE Follows(toServer'[i], toServer'[i + 1])
        BY <1>q, <1>l DEF Ordered, Follows, PayloadOf
      <4>1. CASE i < Len(toServer)
        <5>1. i \in 1 .. Len(toServer) - 1 /\ i + 1 \in 1 .. Len(toServer)
          BY <4>1, <1>l
        <5>2. toServer'[i] = toServer[i] /\ toServer'[i + 1] = toServer[i + 1]
          BY <5>1, <1>q
        <5> QED BY <3>0, <5>1, <5>2 DEF Ordered
      <4>2. CASE i = Len(toServer)
        BY <4>2, <1>q, <1>l, <1>e, <3>4
      <4> QED BY <4>1, <4>2, <1>l
    <3>6. toServer # <<>> => toServer'[1] = toServer[1]
      BY <1>q, <1>l
    <3>7. toServer = <<>> => toServer'[1] = Item(what, s)
      BY <1>q, <1>e
    <3>8. Fits'
      BY <1>q, <3>0, <3>1, <3>2, <3>3, <3>6, <3>7 DEF Fits, Complete, HalfWritten, PayloadOf
    <3>9. Ends'
      <4>1. toServer'[Len(toServer')] = Item(what, s) /\ toServer' # <<>>
        BY <1>q
      <4>2. what = "telemetry" => HalfWritten(s)'
        BY <4>1 DEF HalfWritten, Item
      <4>3. what = "payload" => Complete'
        BY <4>1, <3>3 DEF Complete
      <4>4. l = "payload" <=> what = "telemetry"
        OBVIOUS
      <4> QED BY <1>p, <1>at, <4>2, <4>3, <4>4 DEF Ends
    <3> QED BY <3>5, <3>8, <3>9
  <2> QED BY <1>q, <2>1, <2>2 DEF Stream
<1>5. WholeMessages'
  BY <1>0 DEF WholeMessages
<1> QED BY <1>1, <1>2, <1>3, <1>4, <1>5 DEF IInv

LEMMA SendKeeps == ASSUME IInv, NEW s \in Senders, SendJsonPayload(s) PROVE IInv'
<1>0. TypeOK /\ OneWriter /\ Stages
  BY Parts
<1>1. CASE SendLock(s)
  <2>1. callback /\ callbackMutex \in Senders \cup {Nobody} /\ (s = AgentThread => agent = "status")
    BY <1>0, <1>1 DEF SendLock, Stages, OneWriter, TypeOK
  <2> QED BY <1>0, <1>1, <2>1, ThreadMoves DEF SendLock, TypeOK
<1>2. CASE SendHeader(s)
  <2>1. CASE WritePipe("telemetry", s) /\ Goto(s, "payload") /\ UNCHANGED locks
    BY <1>2, <2>1, ThreadWrites DEF SendHeader
  <2>2. CASE WriteFails /\ Return(s)
    BY <1>2, <2>2, ThreadReturns DEF SendHeader, WriteFails, reader
  <2> QED BY <1>2, <2>1, <2>2 DEF SendHeader
<1>3. CASE SendPayload(s)
  <2>0. Goto(s, "out")
    BY <1>3 DEF SendPayload, Return
  <2>1. CASE WritePipe("payload", s)
    BY <1>3, <2>0, <2>1, ThreadWrites DEF SendPayload
  <2>2. CASE WriteFails
    BY <1>3, <2>2, ThreadReturns DEF SendPayload, WriteFails
  <2> QED BY <1>3, <2>1, <2>2 DEF SendPayload
<1> QED BY <1>1, <1>2, <1>3 DEF SendJsonPayload

LEMMA LogKeeps == ASSUME IInv, NEW s \in Senders, LogTelemetry(s) PROVE IInv'
<1>0. TypeOK /\ at[s] = "log" /\ (s = AgentThread => agent = "status") /\ made' = made /\ pipeMutex' = pipeMutex
  BY Parts DEF LogTelemetry, OneWriter
<1>1. made' \in [Senders -> 0 .. MaxCalls + Statuses]
  BY <1>0 DEF TypeOK
<1>2. CASE callback
  BY <1>0, <1>1, <1>2, ThreadMoves DEF LogTelemetry
<1>3. CASE ~callback
  <2>1. callbackMutex' \in Senders \cup {Nobody}
    BY <1>0, <1>3 DEF LogTelemetry, TypeOK
  <2> QED BY <1>0, <1>1, <1>3, <2>1, ThreadMoves DEF LogTelemetry
<1> QED BY <1>2, <1>3

LEMMA CallKeeps == ASSUME IInv, NEW t \in Threads, Call(t) PROVE IInv'
<1>0. TypeOK /\ t \in Senders /\ t # AgentThread /\ at[t] = "out" /\ callbackMutex' = callbackMutex
      /\ pipeMutex' = pipeMutex
  BY Parts, AgentIsSender, PipeAssumption DEF Call, locks
<1>1. made' \in [Senders -> 0 .. MaxCalls + Statuses]
  BY <1>0, MadeGrows DEF Call
<1>2. callbackMutex' \in Senders \cup {Nobody} /\ \A r \in Senders : r # t => made'[r] = made[r]
  BY <1>0 DEF Call, TypeOK
<1>3. PICK l \in {"out", "log"} : Goto(t, l)
  BY DEF Call
<1> QED BY <1>0, <1>1, <1>2, <1>3, ThreadMoves DEF Call

\* Whoever only ends the process or the reader, or resumes the process.
LEMMA EndsMove ==
    ASSUME IInv, UNCHANGED <<kind, agent, hooks, callback, at, locks, made, toServer,
                             toAgent, header, received>>,
           proc' \in {"suspended", "running", "gone"},
           client' = client \/ client' = "closed",
           server' = server \/ server' \in {"failed", "ended"}
    PROVE  IInv'
<1> USE DEF locks
<1>0. TypeOK /\ OneWriter /\ Stages /\ Stream /\ WholeMessages
  BY Parts
<1>1. TypeOK'
  <2>1. TypeOfEnds'
    BY <1>0, Types DEF TypeOfEnds
  <2> QED BY <1>0, <2>1, Types, TypesKeep
<1>2. OneWriter'
  BY <1>0 DEF OneWriter, Senders
<1>3. Stages'
  BY <1>0 DEF Stages, Told, Opening, NoReady, ServerOpen, Senders
<1>4. Stream'
  <2>1. CASE server' = server
    <3>1. PipeWorks' => PipeWorks
      BY <2>1 DEF PipeWorks, ServerOpen
    <3> QED BY <1>0, <2>1, <3>1, StreamKeeps
  <2>2. CASE server' \in {"failed", "ended"}
    BY <2>2, StreamOver
  <2> QED BY <2>1, <2>2
<1>5. WholeMessages'
  BY <1>0 DEF WholeMessages
<1> QED BY <1>1, <1>2, <1>3, <1>4, <1>5 DEF IInv

-----------------------------------------------------------------------------
(* The agent's thread.                                                     *)

AgentLabels == {"connect", "register", "config", "install", "callback", "ready",
                "error", "error text", "close", "status", "monitor", "peek",
                "remove", "unload", "ended", "unloaded"}

\* The agent goes on and writes nothing.
LEMMA AgentMoves ==
    ASSUME IInv, UNCHANGED <<process, made, toServer, reader>>,
           agent' \in AgentLabels, hooks' \in BOOLEAN, callback' \in BOOLEAN,
           client' \in {"none", "open", "closed"}, toAgent' \in {<<>>, <<"config">>},
           callbackMutex' = callbackMutex,
           at' \in [Senders -> {"out", "log", "lock", "header", "payload"}],
           \A s \in Senders : at'[s] = "payload" <=> at[s] = "payload",
           pipeMutex' \in Senders \cup {Nobody}, OneWriter', Stages',
           server = "connect" \/ (PipeWorks' => PipeWorks)
    PROVE  IInv'
<1> USE DEF process, reader
<1>0. TypeOK /\ OneWriter /\ Stages /\ Stream /\ WholeMessages
  BY Parts
<1>1. TypeOK'
  <2>1. TypeOfEnds'
    BY <1>0, Types DEF TypeOfEnds, AgentLabels
  <2>2. TypeOfThreads'
    BY <1>0, Types DEF TypeOfThreads, Senders
  <2>3. TypeOfPipe'
    BY <1>0, Types DEF TypeOfPipe, Items, Senders
  <2> QED BY <2>1, <2>2, <2>3, Types
<1>2. Stream'
  <2>1. CASE server = "connect"
    BY <2>1, StreamOver
  <2>2. CASE PipeWorks' => PipeWorks
    BY <1>0, <2>2, StreamKeeps
  <2> QED BY <2>1, <2>2
<1>3. WholeMessages'
  BY <1>0 DEF WholeMessages
<1> QED BY <1>1, <1>2, <1>3 DEF IInv

LEMMA AfterWrite ==
    ASSUME NoReady, NEW n \in Nat, Len(toServer) = n, Len(toServer') = n + 1,
           \A i \in 1 .. n : toServer'[i] = toServer[i]
    PROVE  /\ toServer'[n + 1].what # "ready" => NoReady'
           /\ n >= 1 => toServer'[1].what # "ready"
           /\ n = 0 => Len(toServer') = 1 /\ Ordered'
<1>1. \A i \in 1 .. n + 1 : i \in 1 .. n \/ i = n + 1
  OBVIOUS
<1>2. \A i \in 1 .. n : toServer'[i].what # "ready"
  BY DEF NoReady
<1>3. toServer'[n + 1].what # "ready" => NoReady'
  BY <1>1, <1>2 DEF NoReady
<1>4. n >= 1 => 1 \in 1 .. n
  OBVIOUS
<1>5. n = 0 => Len(toServer') = 1 /\ 1 .. Len(toServer') - 1 = {}
  OBVIOUS
<1> QED BY <1>2, <1>3, <1>4, <1>5 DEF Ordered

\* It writes an item of its own, before anybody may be served.
LEMMA AgentWrites ==
    ASSUME IInv, NEW what \in {"register", "ready", "error", "payload"},
           WritePipe(what, AgentThread), agent \notin Told \cup {"ended"},
           UNCHANGED <<process, hooks, callback, at, locks, made, reader>>,
           agent' \in AgentLabels, agent' \in Told <=> what = "ready",
           agent' \in Opening => agent \in Opening,
           agent' \in {"install", "callback", "error", "error text", "close"} => ~callback,
           agent' \in {"callback", "ready", "status", "monitor", "peek"} => hooks,
           agent' \in {"ready", "status", "monitor", "peek"} => callback,
           agent' \notin {"peek", "remove", "unload", "unloaded"},
           agent \in Opening => agent' \in Opening
    PROVE  IInv'
<1> USE DEF process, reader, locks
<1>0. TypeOK /\ OneWriter /\ Stages /\ Stream /\ WholeMessages
  BY Parts
<1>w. /\ PipeWorks /\ Len(toServer) < PipeSize /\ UNCHANGED <<client, toAgent>>
      /\ toServer' = Append(toServer, Item(what, AgentThread))
  BY DEF WritePipe
<1>q. /\ toServer' \in Seq(Items) /\ Len(toServer') <= PipeSize
      /\ toServer' # <<>> /\ Len(toServer') = Len(toServer) + 1
      /\ \A i \in 1 .. Len(toServer) : toServer'[i] = toServer[i]
      /\ toServer'[Len(toServer) + 1] = Item(what, AgentThread)
  BY <1>0, <1>w, TypeOfWrite, AgentIsSender
<1>l. Len(toServer) \in Nat /\ (toServer # <<>> => Len(toServer) >= 1)
      /\ (toServer = <<>> => Len(toServer) = 0)
  <2>1. toServer \in Seq(Items)
    BY <1>0 DEF TypeOK
  <2> QED BY <2>1, Lengths
<1>i. Item(what, AgentThread).what = what
  BY DEF Item
<1>1. TypeOK'
  <2>1. TypeOfEnds'
    BY <1>0, <1>w, Types DEF TypeOfEnds, AgentLabels
  <2>2. TypeOfThreads'
    BY <1>0, Types, TypesKeep
  <2>3. TypeOfPipe'
    BY <1>0, <1>w, <1>q, Types DEF TypeOfPipe, Items, Senders
  <2> QED BY <2>1, <2>2, <2>3, Types
<1>2. OneWriter'
  BY <1>0 DEF OneWriter, Senders, Told
<1>n. NoReady /\ server \notin {"header", "payload"}
  BY <1>0 DEF Stages
<1>3. Stages'
  <2>1. what # "ready" => NoReady'
    BY <1>n, <1>q, <1>l, <1>i, AfterWrite
  <2>2. at' = at /\ server' = server /\ toAgent' = toAgent
    BY <1>w
  <2>a. (hooks => hooks') /\ (callback => callback') /\ (callback' => callback)
    OBVIOUS
  <2>3. (server \in Opening => agent \in Opening \cup {"ended"} /\ toAgent = <<>> /\ ~callback)'
    <3>1. server \in Opening => agent' \in Opening /\ toAgent = <<>> /\ ~callback
      BY <1>0 DEF Stages
    <3> QED BY <2>2, <2>a, <3>1 DEF Opening
  <2>4. (agent \in Opening \cup {"install", "callback", "error", "error text", "close"} => ~callback)'
    BY <1>0, <2>a DEF Stages, Opening
  <2>5. (~callback => \A s \in Senders : at[s] \in {"out", "log"})'
    BY <1>0, <2>2, <2>a DEF Stages, Senders
  <2>6. (agent \in {"callback", "ready", "status", "monitor", "peek"} => hooks)'
    BY <2>a
  <2>7. (agent \in {"ready", "status", "monitor", "peek"} => callback)'
    BY <2>a
  <2>8. (agent \in {"remove", "unload", "unloaded"} => ~ServerOpen)'
    OBVIOUS
  <2>9. (server \in {"header", "payload"} => agent \in Told)'
    BY <1>n, <2>2
  <2>10. (agent \notin Told => NoReady)'
    BY <2>1 DEF Told
  <2> QED BY <2>3, <2>4, <2>5, <2>6, <2>7, <2>8, <2>9, <2>10 DEF Stages
<1>4. Stream'
  <2>1. CASE agent' \notin Told
    BY <1>1, <1>3, <1>q, <2>1, NothingServed DEF Stream
  <2>2. CASE what = "ready" /\ toServer # <<>>
    <3>1. toServer'[1].what # "ready"
      BY <1>q, <1>l, <1>n, <2>2, AfterWrite
    <3> QED BY <1>n, <1>q, <3>1 DEF Stream, Streaming
  <2>3. CASE what = "ready" /\ toServer = <<>>
    <3>1. /\ Len(toServer) = 0 /\ Len(toServer') = 1 /\ Ordered'
          /\ toServer'[1] = Item("ready", AgentThread)
      BY <1>q, <1>l, <1>n, <2>3, AfterWrite
    <3>3. Fits'
      BY <1>n DEF Fits
    <3>4. Complete'
      BY <1>q, <1>i, <2>3, <3>1 DEF Complete
    <3>5. server = "ready" => \A s \in Senders : at'[s] # "payload"
      BY <1>0, <1>w, <2>3 DEF Stream
    <3>6. server = "ready" => Ends'
      BY <3>4, <3>5 DEF Ends, Senders
    <3>7. Streaming' => server = "ready"
      BY <1>n DEF Streaming
    <3> QED BY <1>q, <3>1, <3>3, <3>6, <3>7 DEF Stream
  <2> QED BY <2>1, <2>2, <2>3
<1>5. WholeMessages'
  BY <1>0 DEF WholeMessages
<1> QED BY <1>1, <1>2, <1>3, <1>4, <1>5 DEF IInv

LEMMA AgentSpeaks ==
    ASSUME IInv, Register \/ ErrorHeader \/ ErrorText \/ Ready, PipeWorks PROVE IInv'
<1> USE DEF Told, Opening, AgentLabels
<1>1. CASE Register
  BY <1>1, AgentWrites DEF Register, WritePipe
<1>2. CASE ErrorHeader
  <2>1. ~callback
    BY <1>2, Parts DEF ErrorHeader, Stages
  <2> QED BY <1>2, <2>1, AgentWrites DEF ErrorHeader, WritePipe
<1>3. CASE ErrorText
  <2>1. ~callback
    BY <1>3, Parts DEF ErrorText, Stages
  <2> QED BY <1>3, <2>1, AgentWrites DEF ErrorText, WritePipe
<1>4. CASE Ready
  <2>1. callback /\ hooks
    BY <1>4, Parts DEF Ready, Stages
  <2> QED BY <1>4, <2>1, AgentWrites DEF Ready, WritePipe
<1> QED BY <1>1, <1>2, <1>3, <1>4

\* The agent closes its end, or ends; nothing is served.
LEMMA AgentCloses ==
    ASSUME IInv, UNCHANGED <<process, callback, at, locks, made, toServer, toAgent, reader>>,
           client' \in {client, "closed"}, hooks' \in BOOLEAN,
           agent' = "ended", agent \notin Told
    PROVE  IInv'
<1> USE DEF process, reader, locks
<1>0. TypeOK /\ OneWriter /\ Stages
  BY Parts
<1>1. OneWriter'
  BY <1>0 DEF OneWriter, Senders, Told
<1>2. Stages'
  <2>1. (~callback => \A s \in Senders : at[s] \in {"out", "log"})'
    <3>1. callback => callback'
      OBVIOUS
    <3>2. at' = at
      OBVIOUS
    <3> QED BY <1>0, <3>1, <3>2 DEF Stages, Senders
  <2>2. (server \in Opening => agent \in Opening \cup {"ended"} /\ toAgent = <<>> /\ ~callback)'
    <3>1. callback' => callback
      OBVIOUS
    <3> QED BY <1>0, <3>1 DEF Stages, Opening
  <2>3. (agent \notin Told => NoReady)' /\ (server \in {"header", "payload"} => agent \in Told)'
    BY <1>0 DEF Stages, NoReady
  <2>4. agent' \notin Opening
    BY DEF Opening
  <2> QED BY <2>1, <2>2, <2>3, <2>4 DEF Stages, Opening
<1>3. /\ at' \in [Senders -> {"out", "log", "lock", "header", "payload"}] /\ at' = at
      /\ pipeMutex' \in Senders \cup {Nobody} /\ callback' \in BOOLEAN
      /\ client' \in {"none", "open", "closed"} /\ toAgent' \in {<<>>, <<"config">>}
  BY <1>0 DEF TypeOK
<1>4. PipeWorks' => PipeWorks
  BY DEF PipeWorks, ServerOpen
<1> QED BY <1>1, <1>2, <1>3, <1>4, AgentMoves DEF AgentLabels

LEMMA AgentKeeps == ASSUME IInv, Agent PROVE IInv'
<1>0. TypeOK /\ OneWriter /\ Stages /\ AgentThread \in Senders
  BY Parts, AgentIsSender
<1>t. /\ pipeMutex \in Senders \cup {Nobody} /\ callback \in BOOLEAN /\ hooks \in BOOLEAN
      /\ client \in {"none", "open", "closed"} /\ toAgent \in {<<>>, <<"config">>}
      /\ made \in [Senders -> 0 .. MaxCalls + Statuses]
      /\ at \in [Senders -> {"out", "log", "lock", "header", "payload"}]
      /\ callbackMutex \in Senders \cup {Nobody}
  BY <1>0 DEF TypeOK
<1>1. CASE Connect /\ agent' = "register"
  <2> USE <1>1 DEF Connect, locks, process, reader
  <2>1. OneWriter'
    BY <1>0 DEF OneWriter, Senders
  <2>2. Stages'
    BY <1>0 DEF Stages, Told, Opening, NoReady, Senders
  <2> QED BY <1>t, <2>1, <2>2, AgentMoves DEF AgentLabels
<1>2. CASE Connect /\ agent' = "ended"
  BY <1>2, <1>t, AgentCloses DEF Connect, Told
<1>3. CASE (Register \/ ErrorHeader \/ ErrorText \/ Ready) /\ PipeWorks
  BY <1>3, AgentSpeaks
<1>4. CASE (Register \/ ErrorHeader \/ ErrorText \/ Ready) /\ ~PipeWorks
  <2>1. CASE Register
    BY <2>1, <1>4, <1>t, AgentCloses DEF Register, CloseClient, WritePipe, Told
  <2>2. CASE ErrorHeader
    BY <2>2, <1>4, <1>t, AgentCloses DEF ErrorHeader, CloseClient, WritePipe, Told
  <2>3. CASE ErrorText
    BY <2>3, <1>4, <1>t, AgentCloses DEF ErrorText, CloseClient, WritePipe, Told
  <2>4. CASE Ready
    BY <2>4, <1>4, <1>t, AgentCloses DEF Ready, CloseClient, WritePipe, Told
  <2> QED BY <1>4, <2>1, <2>2, <2>3, <2>4
<1>5. CASE ErrorClose
  BY <1>5, <1>t, AgentCloses DEF ErrorClose, CloseClient, Told
<1>6. CASE ReadConfig
  <2> USE <1>6 DEF ReadConfig, locks, process, reader
  <2>1. OneWriter'
    BY <1>0 DEF OneWriter, Senders
  <2>2. Stages'
    BY <1>0 DEF Stages, Told, Opening, NoReady, Senders, ServerOpen
  <2>3. toAgent' \in {<<>>, <<"config">>}
    BY <1>t, ConfigSent
  <2>4. PipeWorks' => PipeWorks
    BY DEF PipeWorks, ServerOpen
  <2> QED BY <1>t, <2>1, <2>2, <2>3, <2>4, AgentMoves DEF AgentLabels
<1>7. CASE InstallHooks
  <2> USE <1>7 DEF InstallHooks, locks, process, reader, pipe
  <2>1. OneWriter'
    BY <1>0 DEF OneWriter, Senders
  <2>2. Stages'
    BY <1>0 DEF Stages, Told, Opening, NoReady, Senders, ServerOpen
  <2>3. hooks' \in BOOLEAN
    BY <1>t
  <2>4. PipeWorks' => PipeWorks
    BY DEF PipeWorks, ServerOpen
  <2> QED BY <1>t, <2>1, <2>2, <2>3, <2>4, AgentMoves DEF AgentLabels
<1>8. CASE RegisterTelemetryCallback
  <2> USE <1>8 DEF RegisterTelemetryCallback, locks, process, reader, pipe
  <2>1. OneWriter'
    BY <1>0 DEF OneWriter, Senders
  <2>2. Stages'
    BY <1>0 DEF Stages, Told, Opening, NoReady, Senders, ServerOpen
  <2>4. PipeWorks' => PipeWorks
    BY DEF PipeWorks, ServerOpen
  <2> QED BY <1>t, <2>1, <2>2, <2>4, AgentMoves DEF AgentLabels
<1>9. CASE SendStatus /\ agent' = "monitor"
  <2> USE <1>9 DEF SendStatus, locks, process, reader, pipe
  <2>0. at' = at /\ made' = made
    OBVIOUS
  <2>1. OneWriter'
    BY <1>0, <2>0 DEF OneWriter, Senders
  <2>2. Stages'
    BY <1>0, <2>0 DEF Stages, Told, Opening, NoReady, Senders, ServerOpen
  <2>4. PipeWorks' => PipeWorks
    BY DEF PipeWorks, ServerOpen
  <2> QED BY <1>t, <2>0, <2>1, <2>2, <2>4, AgentMoves DEF AgentLabels
<1>10. CASE SendStatus /\ agent' = "status"
  <2>1. /\ agent' = agent /\ agent = "status" /\ callback /\ at[AgentThread] = "out" /\ Goto(AgentThread, "lock")
        /\ made' = [made EXCEPT ![AgentThread] = @ + 1] /\ made[AgentThread] < Statuses
        /\ UNCHANGED <<process, hooks, callback, locks, pipe, reader>>
    BY <1>0, <1>10 DEF SendStatus, Stages
  <2>2. made' \in [Senders -> 0 .. MaxCalls + Statuses]
    BY <1>0, <2>1, MadeGrows
  <2>3. /\ callbackMutex' \in Senders \cup {Nobody} /\ pipeMutex' = pipeMutex
        /\ \A r \in Senders : r # AgentThread => made'[r] = made[r]
    BY <1>t, <2>1 DEF locks
  <2> QED BY <1>0, <2>1, <2>2, <2>3, ThreadMoves
<1>11. CASE MonitorLock
  <2> USE <1>11 DEF MonitorLock, locks, process, reader, pipe, Goto, ShouldTrace
  <2>0. /\ at[AgentThread] = "out" /\ at' = at
        /\ \A s \in Senders : at[s] \notin {"header", "payload"}
    BY <1>0, <1>t, AgentIsSender DEF OneWriter
  <2>1. OneWriter'
    BY <1>0, <2>0 DEF OneWriter, Senders
  <2>2. Stages'
    BY <1>0, <2>0 DEF Stages, Told, Opening, NoReady, Senders, ServerOpen
  <2>4. PipeWorks' => PipeWorks
    BY DEF PipeWorks, ServerOpen
  <2> QED BY <1>0, <1>t, <2>0, <2>1, <2>2, <2>4, AgentMoves DEF AgentLabels
<1>12. CASE MonitorPeek
  <2> USE <1>12 DEF MonitorPeek, locks, process, reader, pipe, CloseClient
  <2>0. at' = at /\ pipeMutex = AgentThread /\ at[AgentThread] = "out" /\ agent' # "peek"
    BY <1>0 DEF OneWriter
  <2>1. OneWriter'
    BY <1>0, <2>0, AgentIsSender DEF OneWriter, Senders
  <2>2. Stages'
    BY <1>0 DEF Stages, Told, Opening, NoReady, Senders, ServerOpen
  <2>4. PipeWorks' => PipeWorks
    BY DEF PipeWorks, ServerOpen
  <2> QED BY <1>t, <2>1, <2>2, <2>4, AgentMoves DEF AgentLabels
<1>13. CASE RemoveHooks
  <2> USE <1>13 DEF RemoveHooks, locks, process, reader, pipe
  <2>1. OneWriter'
    BY <1>0 DEF OneWriter, Senders
  <2>2. Stages'
    BY <1>0 DEF Stages, Told, Opening, NoReady, Senders, ServerOpen
  <2>4. PipeWorks' => PipeWorks
    BY DEF PipeWorks, ServerOpen
  <2> QED BY <1>t, <2>1, <2>2, <2>4, AgentMoves DEF AgentLabels
<1>14. CASE Unload
  <2> USE <1>14 DEF Unload, locks, process, reader, pipe
  <2>1. OneWriter'
    BY <1>0 DEF OneWriter, Senders
  <2>2. Stages'
    BY <1>0 DEF Stages, Told, Opening, NoReady, Senders, ServerOpen
  <2>4. PipeWorks' => PipeWorks
    BY DEF PipeWorks, ServerOpen
  <2> QED BY <1>t, <2>1, <2>2, <2>4, AgentMoves DEF AgentLabels
<1>15. CASE SendStatus
  BY <1>9, <1>10, <1>15 DEF SendStatus
<1>16. CASE Connect
  BY <1>1, <1>2, <1>16 DEF Connect
<1> QED
  BY <1>0, <1>3, <1>4, <1>5, <1>6, <1>7, <1>8, <1>11, <1>12, <1>13, <1>14, <1>15, <1>16,
     SendKeeps, LogKeeps DEF Agent

-----------------------------------------------------------------------------
(* The controller's end.                                                   *)

\* One item is read.
LEMMA Read ==
    ASSUME IInv, toServer # <<>>, toServer' = Tail(toServer)
    PROVE  /\ toServer' \in Seq(Items) /\ Len(toServer') <= PipeSize
           /\ Head(toServer) = toServer[1] /\ Head(toServer) \in Items
           /\ Len(toServer) \in Nat \ {0} /\ Len(toServer') = Len(toServer) - 1
           /\ \A i \in 1 .. Len(toServer) - 1 : toServer'[i] = toServer[i + 1]
           /\ toServer' = <<>> <=> Len(toServer) = 1
           /\ NoReady => NoReady'
           /\ Ordered => Ordered'
           /\ Ordered /\ toServer' # <<>> => Follows(toServer[1], toServer'[1])
           /\ toServer' # <<>> => toServer'[Len(toServer')] = toServer[Len(toServer)]
<1>0. TypeOK /\ toServer \in Seq(Items)
  BY Parts DEF TypeOK
<1>1. /\ toServer' \in Seq(Items) /\ Len(toServer') <= PipeSize
      /\ Head(toServer) = toServer[1] /\ Head(toServer) \in Items
  BY <1>0, TypeOfRead
<1>2. /\ Len(toServer) \in Nat \ {0} /\ Len(toServer') = Len(toServer) - 1
      /\ \A i \in 1 .. Len(toServer) - 1 : toServer'[i] = toServer[i + 1]
      /\ toServer' = <<>> <=> Len(toServer) = 1
  BY <1>0, Tailed
<1> DEFINE n == Len(toServer)
<1>3. n \in Nat \ {0} /\ Len(toServer') = n - 1
  BY <1>2
<1>4. \A i \in 1 .. n - 1 : toServer'[i] = toServer[i + 1]
  BY <1>2
<1> HIDE DEF n
<1>5. ASSUME NoReady PROVE NoReady'
  <2>1. \A i \in 1 .. n - 1 : i + 1 \in 1 .. n
    BY <1>3
  <2>2. \A i \in 1 .. n : toServer[i].what # "ready"
    BY <1>5 DEF NoReady, n
  <2> QED BY <1>3, <1>4, <2>1, <2>2 DEF NoReady
<1>6. ASSUME Ordered PROVE Ordered' /\ (n > 1 => Follows(toServer[1], toServer'[1]))
  <2>1. \A i \in 1 .. n - 1 : Follows(toServer[i], toServer[i + 1])
    BY <1>6 DEF Ordered, n
  <2>2. ASSUME NEW i \in 1 .. (n - 1) - 1 PROVE Follows(toServer'[i], toServer'[i + 1])
    <3>1. i \in 1 .. n - 1 /\ i + 1 \in 1 .. n - 1
      BY <1>3
    <3>2. toServer'[i] = toServer[i + 1] /\ toServer'[i + 1] = toServer[(i + 1) + 1]
      BY <1>4, <3>1
    <3>3. Follows(toServer[i + 1], toServer[(i + 1) + 1])
      BY <2>1, <3>1
    <3> QED BY <3>2, <3>3
  <2>3. Ordered'
    BY <1>3, <2>2 DEF Ordered, Follows, PayloadOf
  <2>4. n > 1 => 1 \in 1 .. n - 1
    BY <1>3
  <2> QED BY <1>4, <2>1, <2>3, <2>4
<1>7. n > 1 => toServer'[n - 1] = toServer[n]
  BY <1>3, <1>4
<1>8. toServer' # <<>> => n > 1
  BY <1>2, <1>3 DEF n
<1> QED BY <1>1, <1>2, <1>3, <1>5, <1>6, <1>7, <1>8 DEF n

\* The controller refuses the process, or connects to it, or answers.
LEMMA ServerMoves ==
    ASSUME IInv, UNCHANGED <<kind, Clients, received, header>>,
           toServer' = toServer \/ (toServer # <<>> /\ toServer' = Tail(toServer)),
           proc' \in {"suspended", "running", "gone"}, client' \in {client, "closed"},
           server' \in {"register", "config", "failed"},
           server' # "failed" => server \in Opening,
           toAgent' = toAgent
    PROVE  IInv'
<1> USE DEF Clients, locks
<1>0. TypeOK /\ OneWriter /\ Stages /\ Stream /\ WholeMessages
  BY Parts
<1>q. toServer' \in Seq(Items) /\ Len(toServer') <= PipeSize /\ (NoReady => NoReady')
  <2>1. CASE toServer' = toServer
    BY <1>0, <2>1 DEF TypeOK, NoReady
  <2>2. CASE toServer # <<>> /\ toServer' = Tail(toServer)
    BY <2>2, Read
  <2> QED BY <2>1, <2>2
<1>1. TypeOK'
  <2>1. TypeOfEnds'
    BY <1>0, Types DEF TypeOfEnds
  <2>2. TypeOfThreads'
    BY <1>0, Types, TypesKeep
  <2>3. TypeOfPipe'
    BY <1>0, <1>q, Types DEF TypeOfPipe, Items, Senders
  <2> QED BY <2>1, <2>2, <2>3, Types
<1>2. OneWriter'
  BY <1>0 DEF OneWriter, Senders
<1>3. Stages'
  BY <1>0, <1>q DEF Stages, Told, Opening, ServerOpen, Senders
<1>4. Stream'
  BY StreamOver
<1>5. WholeMessages'
  BY <1>0 DEF WholeMessages
<1> QED BY <1>1, <1>2, <1>3, <1>4, <1>5 DEF IInv

LEMMA RefuseMoves == ASSUME TypeOK, Refuse
    PROVE  /\ proc' \in {"suspended", "running", "gone"} /\ client' \in {client, "closed"}
           /\ server' = "failed"
BY DEF Refuse, TypeOK

LEMMA HandshakeKeeps ==
    ASSUME IInv, ServerConnect \/ ServerRegister \/ ServerConfig PROVE IInv'
<1>0. TypeOK /\ OneWriter /\ Stages /\ Stream /\ WholeMessages
  BY Parts
<1>p. proc \in {"suspended", "running", "gone"}
  BY <1>0 DEF TypeOK
<1>1. CASE ServerConnect
  BY <1>p, <1>1, ServerMoves DEF ServerConnect, process, pipe, Opening
<1>2. CASE ServerRegister
  <2>1. CASE toServer # <<>> /\ Head(toServer).what = "register" /\ toServer' = Tail(toServer)
             /\ server' = "config" /\ UNCHANGED <<proc, client>>
    BY <1>p, <1>2, <2>1, ServerMoves DEF ServerRegister, Opening
  <2>2. CASE Refuse
    BY <1>0, <1>2, <2>2, RefuseMoves, ServerMoves DEF ServerRegister
  <2> QED BY <1>2, <2>1, <2>2 DEF ServerRegister
<1>3. CASE ServerConfig /\ Refuse
  BY <1>0, <1>3, RefuseMoves, ServerMoves DEF ServerConfig, Refuse
<1>4. CASE ServerConfig /\ server' = "ready"
  <2> USE <1>4 DEF ServerConfig, Clients, locks
  <2>a. /\ toAgent' = Append(toAgent, "config") /\ server = "config"
        /\ UNCHANGED <<proc, client, toServer, header, received, agent, at, callback, kind, hooks,
                       callbackMutex, pipeMutex, made>>
    BY DEF Refuse
  <2>b. toAgent = <<>> /\ agent \in Opening \cup {"ended"} /\ callback = FALSE
    BY <1>0, <2>a DEF Stages, Opening, TypeOK
  <2>0. /\ toAgent' = <<"config">> /\ agent \in Opening \cup {"ended"} /\ callback = FALSE
        /\ UNCHANGED <<proc, client, toServer, header, received, agent, at, callback>>
    BY <2>a, <2>b, ConfigSent
  <2>1. TypeOK'
    <3>1. TypeOfEnds'
      BY <1>0, <2>a, Types DEF TypeOfEnds
    <3>2. TypeOfThreads'
      BY <1>0, Types, TypesKeep
    <3>3. TypeOfPipe'
      BY <1>0, <2>0, Types DEF TypeOfPipe, Items, Senders
    <3> QED BY <3>1, <3>2, <3>3, Types
  <2>2. OneWriter'
    BY <1>0 DEF OneWriter, Senders
  <2>3. Stages'
    BY <1>0, <2>0 DEF Stages, Told, Opening, ServerOpen, Senders, NoReady
  <2>4. Stream'
    <3>1. ~Streaming'
      BY <2>0, <2>1, <2>3, NothingServed DEF Told, Opening
    <3>2. \A s \in Senders : at'[s] # "payload"
      BY <1>0, <2>0 DEF Stages
    <3> QED BY <3>1, <3>2 DEF Stream, Senders
  <2>5. WholeMessages'
    BY <1>0 DEF WholeMessages
  <2> QED BY <2>1, <2>2, <2>3, <2>4, <2>5 DEF IInv
<1> QED BY <1>1, <1>2, <1>3, <1>4 DEF ServerConfig, Refuse

\* The message that comes first is the readiness message, or it is refused.
LEMMA ReadyKeeps == ASSUME IInv, ServerReady PROVE IInv'
<1>0. TypeOK /\ OneWriter /\ Stages /\ Stream /\ WholeMessages
  BY Parts
<1>1. CASE Refuse
  BY <1>0, <1>1, RefuseMoves, ServerMoves DEF ServerReady
<1>2. CASE toServer # <<>> /\ Head(toServer).what = "ready" /\ toServer' = Tail(toServer)
           /\ server' = "header" /\ UNCHANGED <<proc, client>>
  <2> USE <1>2 DEF ServerReady, Clients, locks
  <2>0. UNCHANGED <<kind, agent, hooks, callback, at, callbackMutex, pipeMutex, made, toAgent,
                    header, received>>
    OBVIOUS
  <2>a. Streaming /\ Ordered /\ Fits /\ Ends
    BY <1>0, Read DEF Streaming, Stream
  <2>b. agent \in Told
    <3>a. Len(toServer) \in Nat \ {0} /\ Head(toServer) = toServer[1]
      BY Read
    <3>1. 1 \in 1 .. Len(toServer) /\ toServer[1].what = "ready"
      BY <3>a
    <3> QED BY <1>0, <3>1 DEF Stages, NoReady
  <2>1. TypeOK'
    <3>1. TypeOfEnds'
      BY <1>0, Types DEF TypeOfEnds
    <3>2. TypeOfThreads'
      BY <1>0, <2>0, Types, TypesKeep
    <3>3. TypeOfPipe'
      BY <1>0, <2>0, Read, Types DEF TypeOfPipe, Items, Senders
    <3> QED BY <3>1, <3>2, <3>3, Types
  <2>2. OneWriter'
    BY <1>0, <2>0 DEF OneWriter, Senders
  <2>3. Stages'
    <3>1. (hooks => hooks') /\ (callback => callback') /\ (callback' => callback)
      BY <2>0
    <3>2. at' = at /\ agent' = agent
      BY <2>0
    <3> QED BY <1>0, <2>b, <3>1, <3>2 DEF Stages, Told, Opening, ServerOpen, Senders
  <2>4. Ordered'
    BY <2>a, Read
  <2>5. Fits'
    BY <2>a, Read DEF Fits, Follows
  <2>6. Ends'
    <3>1. PipeWorks' => PipeWorks
      BY DEF PipeWorks, ServerOpen
    <3>2. \A s \in Senders : HalfWritten(s) => HalfWritten(s)'
      <4>1. toServer[1].what = "ready"
        BY Read
      <4>2. ASSUME NEW s \in Senders, HalfWritten(s) PROVE toServer' # <<>>
        <5>1. toServer[Len(toServer)].what = "telemetry"
          BY <4>2 DEF HalfWritten, Item
        <5> QED BY <4>1, <5>1, Read
      <4>3. toServer' # <<>> => toServer'[Len(toServer')] = toServer[Len(toServer)]
        BY Read
      <4> QED BY <2>0, <4>2, <4>3 DEF HalfWritten, Item
    <3>3. Complete => Complete'
      BY Read DEF Complete
    <3> QED BY <2>a, <2>0, <3>1, <3>2, <3>3 DEF Ends, Senders
  <2>7. WholeMessages'
    BY <1>0, <2>0 DEF WholeMessages
  <2> QED BY <2>1, <2>2, <2>3, <2>4, <2>5, <2>6, <2>7 DEF IInv, Stream
<1> QED BY <1>1, <1>2 DEF ServerReady

-----------------------------------------------------------------------------
(* The reader.                                                             *)

LEMMA ReadHeaderKeeps == ASSUME IInv, ReadHeader PROVE IInv'
<1> USE DEF ReadHeader, Clients, locks
<1>0. TypeOK /\ OneWriter /\ Stages /\ Stream /\ WholeMessages
  BY Parts
<1>a. UNCHANGED <<kind, proc, agent, hooks, callback, at, callbackMutex, pipeMutex, made,
                  client, toAgent, received>>
  BY DEF process
<1>b. Streaming /\ Ordered /\ Fits /\ Ends
  BY <1>0 DEF Streaming, Stream
<1>h. /\ header' = toServer[1] /\ toServer[1] \in Items /\ toServer[1].what = "telemetry"
      /\ server' = "payload"
  <2>1. toServer[1] \in Items /\ Head(toServer) = toServer[1]
    BY Read
  <2> QED BY <1>b, <2>1 DEF Fits
<1>1. TypeOK'
  <2>1. TypeOfEnds'
    BY <1>0, <1>a, Types DEF TypeOfEnds
  <2>2. TypeOfThreads'
    BY <1>0, <1>a, Types, TypesKeep
  <2>3. TypeOfPipe'
    BY <1>0, <1>a, <1>h, Read, Types DEF TypeOfPipe, Items, Senders
  <2> QED BY <2>1, <2>2, <2>3, Types
<1>2. OneWriter'
  BY <1>0, <1>a DEF OneWriter, Senders
<1>3. Stages'
  <2>1. (hooks => hooks') /\ (callback => callback') /\ (callback' => callback)
    BY <1>a
  <2>2. at' = at /\ agent' = agent
    BY <1>a
  <2>3. NoReady => NoReady'
    BY Read
  <2> QED BY <1>0, <2>1, <2>2, <2>3 DEF Stages, Told, Opening, ServerOpen, Senders
<1>4. Ordered'
  BY <1>b, Read
<1>5. Fits'
  BY <1>b, <1>h, Read DEF Fits, Follows, PayloadOf, Items, Senders
<1>6. Ends'
  <2>1. PipeWorks' => PipeWorks
    BY <1>a DEF PipeWorks, ServerOpen
  <2>n. toServer' # <<>> => toServer'[Len(toServer')] = toServer[Len(toServer)]
    BY Read
  <2>e. toServer' = <<>> => toServer[Len(toServer)] = toServer[1]
    BY Read
  <2>2. \A s \in Senders : HalfWritten(s) => HalfWritten(s)'
    BY <1>a, <1>h, <2>n, <2>e DEF HalfWritten, Item
  <2>3. Complete => Complete'
    BY <1>h, <2>n, <2>e DEF Complete
  <2> QED BY <1>b, <1>a, <2>1, <2>2, <2>3 DEF Ends, Senders
<1>7. WholeMessages'
  BY <1>0, <1>a DEF WholeMessages
<1> QED BY <1>1, <1>2, <1>3, <1>4, <1>5, <1>6, <1>7, <1>h DEF IInv, Stream

LEMMA ReadPayloadKeeps == ASSUME IInv, ReadPayload PROVE IInv'
<1> USE DEF ReadPayload, Clients, locks
<1>0. TypeOK /\ OneWriter /\ Stages /\ Stream /\ WholeMessages
  BY Parts
<1>a. UNCHANGED <<kind, proc, agent, hooks, callback, at, callbackMutex, pipeMutex, made,
                  client, toAgent>>
  BY DEF process
<1>b. Streaming /\ Ordered /\ Fits /\ Ends
  BY <1>0 DEF Streaming, Stream
<1>h. /\ header \in Items /\ header.what = "telemetry" /\ header' = <<>>
      /\ toServer[1] \in Items /\ toServer[1] = PayloadOf(header) /\ toServer[1].what = "payload"
      /\ received' = Append(received, <<header, toServer[1]>>) /\ server' = "header"
  <2>1. toServer[1] \in Items /\ Head(toServer) = toServer[1]
    BY Read
  <2>2. header \in Items /\ header.what = "telemetry" /\ toServer[1] = PayloadOf(header)
    BY <1>b DEF Fits
  <2>3. PayloadOf(header).what = "payload"
    BY <2>2 DEF PayloadOf, Items
  <2> QED BY <2>1, <2>2, <2>3
<1>r. /\ received \in Seq(Items \X Items) /\ <<header, toServer[1]>> \in Items \X Items
      /\ received' \in Seq(Items \X Items) /\ Len(received) \in Nat
      /\ Len(received') = Len(received) + 1
      /\ \A i \in 1 .. Len(received) : received'[i] = received[i]
      /\ received'[Len(received) + 1] = <<header, toServer[1]>>
  <2>1. received \in Seq(Items \X Items) /\ <<header, toServer[1]>> \in Items \X Items
    BY <1>0, <1>h DEF TypeOK
  <2> QED BY <1>h, <2>1, Appended, Lengths
<1>1. TypeOK'
  <2>1. TypeOfEnds'
    BY <1>0, <1>a, <1>h, Types DEF TypeOfEnds
  <2>2. TypeOfThreads'
    BY <1>0, <1>a, Types, TypesKeep
  <2>3. TypeOfPipe'
    BY <1>0, <1>a, <1>h, <1>r, Read, Types DEF TypeOfPipe, Items, Senders
  <2> QED BY <2>1, <2>2, <2>3, Types
<1>2. OneWriter'
  BY <1>0, <1>a DEF OneWriter, Senders
<1>3. Stages'
  <2>1. (hooks => hooks') /\ (callback => callback') /\ (callback' => callback)
    BY <1>a
  <2>2. at' = at /\ agent' = agent
    BY <1>a
  <2>3. NoReady => NoReady'
    BY Read
  <2> QED BY <1>0, <1>h, <2>1, <2>2, <2>3 DEF Stages, Told, Opening, ServerOpen, Senders
<1>4. Ordered'
  BY <1>b, Read
<1>5. Fits'
  BY <1>b, <1>h, Read DEF Fits, Follows
<1>6. Ends'
  <2>1. PipeWorks' => PipeWorks
    BY <1>a, <1>h DEF PipeWorks, ServerOpen
  <2>n. toServer' # <<>> => toServer'[Len(toServer')] = toServer[Len(toServer)]
    BY Read
  <2>e. toServer' = <<>> => toServer[Len(toServer)].what = "payload"
    BY <1>h, Read
  <2>2. \A s \in Senders : HalfWritten(s) => HalfWritten(s)'
    BY <1>a, <2>n, <2>e DEF HalfWritten, Item
  <2>3. Complete => Complete'
    BY <1>h, <2>n DEF Complete
  <2> QED BY <1>b, <1>a, <2>1, <2>2, <2>3 DEF Ends, Senders
<1>7. WholeMessages'
  <2> SUFFICES ASSUME NEW i \in 1 .. Len(received) + 1
               PROVE  LET h == received'[i][1]  p == received'[i][2]
                      IN  h.what = "telemetry" /\ p = PayloadOf(h)
    <3>1. DOMAIN received' = 1 .. Len(received) + 1
      BY <1>r, LenProperties
    <3> QED BY <3>1 DEF WholeMessages, PayloadOf
  <2>1. CASE i \in 1 .. Len(received)
    <3>1. i \in DOMAIN received
      BY <1>r, <2>1, LenProperties
    <3> QED BY <1>0, <1>r, <2>1, <3>1 DEF WholeMessages, PayloadOf
  <2>2. CASE i = Len(received) + 1
    BY <1>h, <1>r, <2>2
  <2> QED BY <1>r, <2>1, <2>2
<1> QED BY <1>1, <1>2, <1>3, <1>4, <1>5, <1>6, <1>7, <1>h DEF IInv, Stream

-----------------------------------------------------------------------------
(* Theorems.                                                               *)

LEMMA IInvStep == IInv /\ [Next]_vars => IInv'
<1> SUFFICES ASSUME IInv, [Next]_vars PROVE IInv'
  OBVIOUS
<1>0. TypeOK
  BY Parts
<1>p. proc \in {"suspended", "running", "gone"}
  BY <1>0 DEF TypeOK
<1>1. CASE UNCHANGED vars
  BY <1>1, <1>p, EndsMove DEF vars, process, pipe, reader
<1>2. ASSUME NEW t \in Threads, Detour(t) PROVE IInv'
  <2>1. CASE Crash(t)
    BY <2>1, EndsMove DEF Crash, reader
  <2> QED BY <1>2, <2>1, AgentIsSender, SendKeeps, LogKeeps DEF Detour
<1>3. CASE ServerTimesOut
  BY <1>0, <1>3, RefuseMoves, EndsMove DEF ServerTimesOut, Clients
<1>4. CASE Resume
  BY <1>4, EndsMove DEF Resume, Clients, pipe, reader
<1>5. CASE ReaderEnds
  BY <1>5, <1>p, EndsMove DEF ReaderEnds, Clients, process, pipe
<1>6. CASE ProcessExits
  BY <1>6, EndsMove DEF ProcessExits, Clients, reader
<1>7. CASE ControllerExits
  BY <1>7, <1>p, EndsMove DEF ControllerExits, Clients, process, pipe
<1> QED
  BY <1>1, <1>2, <1>3, <1>4, <1>5, <1>6, <1>7, CallKeeps, AgentKeeps, HandshakeKeeps,
     ReadyKeeps, ReadHeaderKeeps, ReadPayloadKeeps DEF Next, Server

\* The invariant of the agent, its pipe and its two mutexes holds in every
\* behaviour, whatever fails and whoever goes away first.
THEOREM Invariance == Spec => []IInv
BY IInvInit, IInvStep, PTL DEF Spec

\* The variables of the two ends keep their types; the pipe never holds more
\* than it can.
THEOREM TypeCorrect == Spec => []TypeOK
<1>1. IInv => TypeOK
  BY DEF IInv
<1> QED BY <1>1, Invariance, PTL

\* However many threads send and however much the pipe holds, what the reader
\* hands over is a header with the payload that was written for it.
THEOREM WholeMessagesHolds == Spec => []WholeMessages
<1>1. IInv => WholeMessages
  BY DEF IInv
<1> QED BY <1>1, Invariance, PTL

\* A process that is served has its hooks and its callback.
THEOREM ServedMeansTracingHolds == Spec => []ServedMeansTracing
<1>1. IInv => ServedMeansTracing
  BY DEF IInv, Stages, ServedMeansTracing, Told, ServerOpen
<1> QED BY <1>1, Invariance, PTL

-----------------------------------------------------------------------------
(* Every call is told: the numbers of the messages of a thread are those   *)
(* of its calls.                                                           *)

\* The number of the last call of s that a message was sent for.
SentBy(s) == IF at[s] \in {"log", "lock", "header"} THEN made[s] - 1 ELSE made[s]

\* The numbers of s that the reader has handed over; that it has read; that
\* are read or stand in the pipe before its item i.
Handed(s) == {received[i][1].n : i \in {j \in 1 .. Len(received) : received[j][1].by = s}}
HasRead(s) == Handed(s) \cup (IF server = "payload" /\ header.by = s THEN {header.n} ELSE {})
Piped(q, s, i) == {q[j].n : j \in {j \in 1 .. i - 1 : q[j].what = "telemetry" /\ q[j].by = s}}
NumbersTo(s, i) == HasRead(s) \cup Piped(toServer, s, i)

\* The reader and the pipe have the numbers of each thread in order and without
\* a gap, up to the last that was sent for, unless an end of the pipe is closed.
InPipe ==
    ServerOpen => \A i \in 1 .. Len(toServer), s \in Senders :
        toServer[i].what = "telemetry" /\ toServer[i].by = s =>
            toServer[i].n > 0 /\ NumbersTo(s, i) = 1 .. toServer[i].n - 1
InReader ==
    server = "payload" => \A s \in Senders :
        header.by = s => header.n > 0 /\ Handed(s) = 1 .. header.n - 1
AllSent ==
    ServerOpen /\ client # "closed" =>
        \A s \in Senders : NumbersTo(s, Len(toServer) + 1) = 1 .. SentBy(s)
Numbered == NothingMissed /\ (kind = "root" => InPipe /\ InReader /\ AllSent)

\* A launched target calls nothing before it is served.
Callers ==
    /\ \A s \in Senders : at[s] \in {"log", "lock", "header"} => made[s] > 0
    /\ client = "none" => agent \in {"connect", "ended"} /\ ~callback
    /\ agent = "connect" => client = "none"
    /\ at[AgentThread] # "log"
    /\ kind = "root" =>
         /\ proc = "running" => agent \in Told
         /\ proc = "suspended" => \A t \in Threads : at[t] = "out" /\ made[t] = 0

LEMMA PipedAppend ==
    ASSUME NEW q \in Seq(Items), NEW e \in Items, NEW s, NEW L \in Nat, L = Len(q)
    PROVE  /\ \A i \in 1 .. L + 1 : Piped(Append(q, e), s, i) = Piped(q, s, i)
           /\ e.what = "telemetry" /\ e.by = s
                => Piped(Append(q, e), s, L + 2) = Piped(q, s, L + 1) \cup {e.n}
           /\ e.what # "telemetry" \/ e.by # s
                => Piped(Append(q, e), s, L + 2) = Piped(q, s, L + 1)
<1> DEFINE p == Append(q, e)
<1>1. p[L + 1] = e /\ \A j \in 1 .. L : p[j] = q[j]
  BY Appended
<1> HIDE DEF p
<1>2. ASSUME NEW i \in 1 .. L + 1 PROVE Piped(p, s, i) = Piped(q, s, i)
  <2>1. \A j \in 1 .. i - 1 : p[j] = q[j]
    BY <1>1
  <2> QED BY <2>1 DEF Piped
<1>3. \A j : j \in 1 .. L + 2 - 1 <=> j \in 1 .. L + 1 - 1 \/ j = L + 1
  OBVIOUS
<1>4. \A j \in 1 .. L + 1 - 1 : p[j] = q[j]
  BY <1>1
<1>5. e.what = "telemetry" /\ e.by = s => Piped(p, s, L + 2) = Piped(q, s, L + 1) \cup {e.n}
  BY <1>1, <1>3, <1>4 DEF Piped
<1>6. e.what # "telemetry" \/ e.by # s => Piped(p, s, L + 2) = Piped(q, s, L + 1)
  BY <1>1, <1>3, <1>4 DEF Piped
<1> QED BY <1>2, <1>5, <1>6 DEF p

LEMMA PipedTail ==
    ASSUME NEW q \in Seq(Items), q # <<>>, NEW s, NEW i \in 1 .. Len(q)
    PROVE  Piped(q, s, i + 1) =
               Piped(Tail(q), s, i)
               \cup (IF q[1].what = "telemetry" /\ q[1].by = s THEN {q[1].n} ELSE {})
<1> DEFINE t == Tail(q)
           first == IF q[1].what = "telemetry" /\ q[1].by = s THEN {q[1].n} ELSE {}
<1>1. Len(q) \in Nat \ {0} /\ \A j \in 1 .. Len(q) - 1 : t[j] = q[j + 1]
  BY Tailed
<1> HIDE DEF t
<1>2. ASSUME NEW j \in 1 .. i, q[j].what = "telemetry", q[j].by = s
      PROVE  q[j].n \in first \cup Piped(t, s, i)
  <2>1. CASE j = 1
    BY <1>2, <2>1
  <2>2. CASE j # 1
    <3>1. j - 1 \in 1 .. i - 1 /\ t[j - 1] = q[j]
      BY <1>1, <2>2
    <3> QED BY <1>2, <3>1 DEF Piped
  <2> QED BY <2>1, <2>2
<1>3. ASSUME NEW j \in 1 .. i - 1, t[j].what = "telemetry", t[j].by = s
      PROVE  t[j].n \in Piped(q, s, i + 1)
  <2>1. j + 1 \in 1 .. (i + 1) - 1 /\ t[j] = q[j + 1]
    BY <1>1
  <2> QED BY <1>3, <2>1 DEF Piped
<1>4. first \subseteq Piped(q, s, i + 1)
  <2>1. 1 \in 1 .. (i + 1) - 1
    OBVIOUS
  <2> QED BY <2>1 DEF Piped
<1>5. (i + 1) - 1 = i
  OBVIOUS
<1>6. Piped(q, s, i + 1) \subseteq first \cup Piped(t, s, i)
  <2> SUFFICES ASSUME NEW x \in Piped(q, s, i + 1) PROVE x \in first \cup Piped(t, s, i)
    OBVIOUS
  <2>1. PICK j \in 1 .. i : q[j].what = "telemetry" /\ q[j].by = s /\ x = q[j].n
    BY <1>5 DEF Piped
  <2> QED BY <1>2, <2>1
<1>7. Piped(t, s, i) \subseteq Piped(q, s, i + 1)
  <2> SUFFICES ASSUME NEW x \in Piped(t, s, i) PROVE x \in Piped(q, s, i + 1)
    OBVIOUS
  <2>1. PICK j \in 1 .. i - 1 : t[j].what = "telemetry" /\ t[j].by = s /\ x = t[j].n
    BY DEF Piped
  <2> QED BY <1>3, <2>1
<1> HIDE DEF first
<1> QED BY <1>4, <1>6, <1>7 DEF first, t

\* The numbers move on with an item that is read.
LEMMA BeforeTail ==
    ASSUME TypeOK, toServer # <<>>, toServer' = Tail(toServer), NEW s, NEW i \in 1 .. Len(toServer),
           HasRead(s)' = HasRead(s) \cup (IF toServer[1].what = "telemetry" /\ toServer[1].by = s
                                          THEN {toServer[1].n} ELSE {})
    PROVE  NumbersTo(s, i)' = NumbersTo(s, i + 1)
<1>1. toServer \in Seq(Items)
  BY DEF TypeOK
<1>2. Piped(toServer, s, i + 1) =
          Piped(Tail(toServer), s, i)
          \cup (IF toServer[1].what = "telemetry" /\ toServer[1].by = s THEN {toServer[1].n} ELSE {})
  BY <1>1, PipedTail
<1>3. Piped(toServer, s, i)' = Piped(Tail(toServer), s, i)
  BY DEF Piped
<1> QED BY <1>2, <1>3 DEF NumbersTo

LEMMA InPipeTail ==
    ASSUME TypeOK, toServer # <<>>, toServer' = Tail(toServer), InPipe, AllSent,
           ServerOpen, client' = client, UNCHANGED <<at, made>>,
           \A s \in Senders :
              HasRead(s)' = HasRead(s) \cup (IF toServer[1].what = "telemetry" /\ toServer[1].by = s
                                             THEN {toServer[1].n} ELSE {})
    PROVE  InPipe' /\ AllSent'
<1>1. /\ toServer \in Seq(Items) /\ Len(toServer) \in Nat \ {0} /\ Len(toServer') = Len(toServer) - 1
      /\ \A i \in 1 .. Len(toServer) - 1 : toServer'[i] = toServer[i + 1]
  BY Tailed DEF TypeOK
<1>2. \A s \in Senders, i \in 1 .. Len(toServer) : NumbersTo(s, i)' = NumbersTo(s, i + 1)
  BY BeforeTail
<1> PICK N : N = Len(toServer)
  OBVIOUS
<1>3. InPipe'
  <2> SUFFICES ASSUME NEW i \in 1 .. N - 1, NEW s \in Senders,
                      toServer'[i].what = "telemetry", toServer'[i].by = s
               PROVE  toServer'[i].n > 0 /\ NumbersTo(s, i)' = 1 .. toServer'[i].n - 1
    BY <1>1 DEF InPipe
  <2>1. i \in 1 .. N /\ i + 1 \in 1 .. N /\ toServer'[i] = toServer[i + 1]
    BY <1>1
  <2>2. toServer[i + 1].n > 0 /\ NumbersTo(s, i + 1) = 1 .. toServer[i + 1].n - 1
    BY <2>1 DEF InPipe
  <2> QED BY <2>1, <2>2, <1>2
<1>4. AllSent'
  <2> SUFFICES ASSUME client # "closed", NEW s \in Senders PROVE NumbersTo(s, N)' = 1 .. SentBy(s)'
    <3>1. Len(toServer') + 1 = N
      BY <1>1
    <3>2. \A s \in Senders : NumbersTo(s, Len(toServer) + 1)' = NumbersTo(s, N)'
      BY <3>1 DEF NumbersTo
    <3> QED BY <3>2 DEF AllSent
  <2>1. N \in 1 .. N
    BY <1>1
  <2>2. NumbersTo(s, N)' = NumbersTo(s, N + 1)
    BY <1>2, <2>1
  <2>3. NumbersTo(s, N + 1) = 1 .. SentBy(s)
    BY DEF AllSent
  <2>4. SentBy(s)' = SentBy(s)
    BY DEF SentBy
  <2> QED BY <2>2, <2>3, <2>4
<1> QED BY <1>3, <1>4

LEMMA MissedKeeps ==
    ASSUME NothingMissed, kind' = kind, received' = received PROVE NothingMissed'
BY DEF NothingMissed

\* What neither writes nor reads.
LEMMA FlowKeeps ==
    ASSUME Numbered, kind' = kind, UNCHANGED <<toServer, header, received>>,
           server' # server => server # "payload" /\ server' # "payload",
           ServerOpen' => ServerOpen,
           kind = "root" /\ ServerOpen' /\ client' # "closed" =>
               client # "closed" /\ \A s \in Senders : SentBy(s)' = SentBy(s)
    PROVE  Numbered'
<1>0. NothingMissed'
  BY MissedKeeps DEF Numbered
<1> SUFFICES ASSUME kind = "root" PROVE InPipe' /\ InReader' /\ AllSent'
  BY <1>0 DEF Numbered
<1>1. InPipe /\ InReader /\ AllSent
  BY DEF Numbered
<1>2. \A s \in Senders : Handed(s)' = Handed(s) /\ HasRead(s)' = HasRead(s)
  BY DEF Handed, HasRead
<1>3. \A s \in Senders, i \in Int : NumbersTo(s, i)' = NumbersTo(s, i)
  BY <1>2 DEF NumbersTo
<1>4. InReader'
  BY <1>1, <1>2 DEF InReader
<1>5. ASSUME NEW s \in Senders, NEW i PROVE NumbersTo(s, i)' = NumbersTo(s, i)
  BY <1>2 DEF NumbersTo
<1>6. InPipe'
  BY <1>1, <1>5 DEF InPipe
<1>7. AllSent'
  <2> SUFFICES ASSUME ServerOpen', client' # "closed", NEW s \in Senders
               PROVE  NumbersTo(s, Len(toServer) + 1)' = 1 .. SentBy(s)'
    BY DEF AllSent
  <2>1. NumbersTo(s, Len(toServer) + 1)' = NumbersTo(s, Len(toServer) + 1)
    BY <1>2 DEF NumbersTo
  <2>2. NumbersTo(s, Len(toServer) + 1) = 1 .. SentBy(s) /\ SentBy(s)' = SentBy(s)
    BY <1>1 DEF AllSent
  <2> QED BY <2>1, <2>2
<1> QED BY <1>4, <1>6, <1>7

\* The controller has closed its end.
LEMMA FlowStops ==
    ASSUME Numbered, kind' = kind, received' = received, server' \in {"failed", "ended"}
    PROVE  Numbered'
<1>1. NothingMissed'
  BY MissedKeeps DEF Numbered
<1> QED BY <1>1 DEF Numbered, InPipe, InReader, AllSent, ServerOpen

\* An item is written: the header of the next message of s, or what is none.
LEMMA FlowWrites ==
    ASSUME TypeOK, Numbered, UNCHANGED <<kind, server, header, received, made>>,
           NEW s \in Senders, NEW what \in {"register", "ready", "error", "telemetry", "payload"},
           WritePipe(what, s),
           \A r \in Senders : r # s => SentBy(r)' = SentBy(r),
           what # "telemetry" => SentBy(s)' = SentBy(s),
           what = "telemetry" => at[s] = "header" /\ made[s] > 0 /\ SentBy(s)' = made[s]
    PROVE  Numbered'
<1> DEFINE e == Item(what, s)
<1>0. NothingMissed'
  BY MissedKeeps DEF Numbered
<1> SUFFICES ASSUME kind = "root" PROVE InPipe' /\ InReader' /\ AllSent'
  BY <1>0 DEF Numbered
<1>1. InPipe /\ InReader /\ AllSent /\ ServerOpen /\ ServerOpen' /\ client = "open" /\ client' = client
  BY DEF Numbered, WritePipe, PipeWorks, ServerOpen
<1>2. /\ toServer \in Seq(Items) /\ e \in Items /\ e.what = what /\ e.by = s /\ e.n = made[s]
      /\ Len(toServer) \in Nat /\ toServer' = Append(toServer, e)
  BY ItemIsItem, LenProperties DEF TypeOK, WritePipe, Item
<1> HIDE DEF e
<1> PICK N \in Nat : N = Len(toServer)
  BY <1>2
<1>3. /\ Len(toServer') = N + 1 /\ toServer'[N + 1] = e /\ \A i \in 1 .. N : toServer'[i] = toServer[i]
  BY <1>2, Appended
<1>4. \A r \in Senders : Handed(r)' = Handed(r) /\ HasRead(r)' = HasRead(r)
  BY DEF Handed, HasRead
<1>5. ASSUME NEW r \in Senders, NEW i \in 1 .. N + 1 PROVE NumbersTo(r, i)' = NumbersTo(r, i)
  <2>1. Piped(Append(toServer, e), r, i) = Piped(toServer, r, i)
    BY <1>2, PipedAppend
  <2>2. Piped(toServer, r, i)' = Piped(Append(toServer, e), r, i)
    BY <1>2 DEF Piped
  <2> QED BY <1>4, <2>1, <2>2 DEF NumbersTo
<1>6. InReader'
  BY <1>1, <1>4 DEF InReader
<1>7. \A r \in Senders : NumbersTo(r, N + 1) = 1 .. SentBy(r)
  BY <1>1 DEF AllSent
<1>8. InPipe'
  <2> SUFFICES ASSUME NEW i \in 1 .. N + 1, NEW r \in Senders,
                      toServer'[i].what = "telemetry", toServer'[i].by = r
               PROVE  toServer'[i].n > 0 /\ NumbersTo(r, i)' = 1 .. toServer'[i].n - 1
    BY <1>3 DEF InPipe
  <2>1. CASE i \in 1 .. N
    <3>1. toServer'[i] = toServer[i] /\ i \in 1 .. N + 1
      BY <1>3, <2>1
    <3>2. toServer[i].n > 0 /\ NumbersTo(r, i) = 1 .. toServer[i].n - 1
      BY <1>1, <2>1, <3>1 DEF InPipe
    <3> QED BY <1>5, <3>1, <3>2
  <2>2. CASE i = N + 1
    <3>1. what = "telemetry" /\ r = s /\ toServer'[i].n = made[s]
      BY <1>2, <1>3, <2>2
    <3>2. NumbersTo(s, N + 1)' = 1 .. SentBy(s) /\ SentBy(s) = made[s] - 1
      BY <1>5, <1>7, <3>1 DEF SentBy
    <3> QED BY <2>2, <3>1, <3>2
  <2> QED BY <2>1, <2>2
<1>9. AllSent'
  <2> SUFFICES ASSUME NEW r \in Senders PROVE NumbersTo(r, N + 2)' = 1 .. SentBy(r)'
    <3>1. Len(toServer') + 1 = N + 2
      BY <1>3
    <3>2. \A r \in Senders : NumbersTo(r, Len(toServer) + 1)' = NumbersTo(r, N + 2)'
      BY <3>1 DEF NumbersTo
    <3> QED BY <3>2 DEF AllSent
  <2>1. Piped(toServer, r, N + 2)' = Piped(Append(toServer, e), r, N + 2)
    BY <1>2 DEF Piped
  <2>2. CASE what = "telemetry" /\ r = s
    <3>1. Piped(Append(toServer, e), s, N + 2) = Piped(toServer, s, N + 1) \cup {e.n}
      BY <1>2, <2>2, PipedAppend
    <3>2. NumbersTo(s, N + 2)' = NumbersTo(s, N + 1) \cup {made[s]}
      BY <1>2, <1>4, <2>1, <2>2, <3>1 DEF NumbersTo
    <3>3. NumbersTo(s, N + 1) = 1 .. made[s] - 1 /\ made[s] \in Nat \ {0}
      <4>1. made[s] \in 0 .. MaxCalls + Statuses
        BY DEF TypeOK
      <4>2. made[s] \in Nat
        BY <4>1
      <4> QED BY <1>7, <2>2, <4>2 DEF SentBy
    <3>4. (1 .. made[s] - 1) \cup {made[s]} = 1 .. made[s]
      BY <3>3
    <3> QED BY <2>2, <3>2, <3>3, <3>4
  <2>3. CASE what # "telemetry" \/ r # s
    <3>1. Piped(Append(toServer, e), r, N + 2) = Piped(toServer, r, N + 1)
      BY <1>2, <2>3, PipedAppend
    <3>2. NumbersTo(r, N + 2)' = NumbersTo(r, N + 1)
      BY <1>4, <2>1, <3>1 DEF NumbersTo
    <3>3. SentBy(r)' = SentBy(r)
      BY <2>3
    <3> QED BY <1>7, <3>2, <3>3
  <2> QED BY <2>2, <2>3
<1> QED BY <1>6, <1>8, <1>9

\* The reader takes a header.
LEMMA FlowHeader ==
    ASSUME IInv, Numbered, ReadHeader PROVE Numbered'
<1>0. TypeOK /\ Stream
  BY DEF IInv
<1>1. /\ server = "header" /\ toServer # <<>> /\ header' = toServer[1] /\ toServer' = Tail(toServer)
      /\ server' = "payload" /\ UNCHANGED <<kind, client, received, at, made>>
  BY <1>0, TypeOfRead DEF ReadHeader, process, Clients
<1>2. NothingMissed'
  BY <1>1, MissedKeeps DEF Numbered
<1> SUFFICES ASSUME kind = "root" PROVE InPipe' /\ InReader' /\ AllSent'
  BY <1>1, <1>2 DEF Numbered
<1>3. InPipe /\ AllSent /\ ServerOpen
  BY <1>1 DEF Numbered, ServerOpen
<1>4. toServer[1].what = "telemetry" /\ 1 \in 1 .. Len(toServer)
  <2>1. toServer \in Seq(Items)
    BY <1>0 DEF TypeOK
  <2> QED BY <2>1, <1>0, <1>1, Lengths DEF Stream, Streaming, Fits
<1>5. \A s \in Senders : Handed(s)' = Handed(s) /\ HasRead(s) = Handed(s)
  BY <1>1 DEF Handed, HasRead
<1>6. \A s \in Senders : HasRead(s)' = Handed(s) \cup IF toServer[1].by = s THEN {toServer[1].n} ELSE {}
  BY <1>1, <1>5 DEF HasRead
<1>7. InPipe' /\ AllSent'
  BY <1>0, <1>1, <1>3, <1>4, <1>5, <1>6, InPipeTail
<1>8. InReader'
  <2> SUFFICES ASSUME NEW s \in Senders, toServer[1].by = s
               PROVE  toServer[1].n > 0 /\ Handed(s) = 1 .. toServer[1].n - 1
    BY <1>1, <1>5 DEF InReader
  <2>1. toServer[1].n > 0 /\ NumbersTo(s, 1) = 1 .. toServer[1].n - 1
    BY <1>3, <1>4 DEF InPipe
  <2>2. NumbersTo(s, 1) = Handed(s)
    <3>1. 1 .. 1 - 1 = {}
      OBVIOUS
    <3>2. Piped(toServer, s, 1) = {}
      BY <3>1 DEF Piped
    <3> QED BY <1>5, <3>2 DEF NumbersTo
  <2> QED BY <2>1, <2>2
<1> QED BY <1>7, <1>8

\* The reader hands over a message.
LEMMA FlowPayload ==
    ASSUME IInv, Numbered, ReadPayload PROVE Numbered'
<1>0. TypeOK /\ Stream
  BY DEF IInv
<1>1. /\ server = "payload" /\ toServer # <<>> /\ toServer' = Tail(toServer)
      /\ received' = Append(received, <<header, toServer[1]>>)
      /\ server' = "header" /\ UNCHANGED <<kind, client, at, made>>
  BY <1>0, TypeOfRead DEF ReadPayload, process, Clients
<1>2. header \in Items /\ toServer[1].what # "telemetry" /\ toServer[1] \in Items
  <2>1. Fits
    BY <1>0, <1>1 DEF Stream, Streaming
  <2>2. toServer[1] \in Items
    BY <1>0, <1>1, TypeOfRead
  <2> QED BY <1>1, <2>1, <2>2 DEF Fits, PayloadOf, Items
<1> DEFINE m == <<header, toServer[1]>>
<1> PICK R \in Nat : R = Len(received)
  BY <1>0, LenProperties DEF TypeOK
<1>3. /\ m \in Items \X Items /\ m[1] = header /\ received \in Seq(Items \X Items)
      /\ received' = Append(received, m)
  BY <1>0, <1>1, <1>2 DEF TypeOK
<1> HIDE DEF m
<1>4. /\ Len(received') = R + 1 /\ received'[R + 1] = m /\ received' \in Seq(Items \X Items)
      /\ \A i \in 1 .. R : received'[i] = received[i]
  BY <1>3, Appended
<1>5. \A i \in 1 .. R + 1 : i \in 1 .. R \/ i = R + 1
  OBVIOUS
<1>6. \A s \in Senders : Handed(s)' = HasRead(s) /\ HasRead(s)' = HasRead(s)
  <2> SUFFICES ASSUME NEW s \in Senders PROVE Handed(s)' = HasRead(s) /\ HasRead(s)' = Handed(s)'
    OBVIOUS
  <2>1. Handed(s)' = Handed(s) \cup IF header.by = s THEN {header.n} ELSE {}
    BY <1>3, <1>4, <1>5 DEF Handed
  <2> QED BY <1>1, <2>1 DEF HasRead
<1> SUFFICES ASSUME kind = "root" PROVE NothingMissed' /\ InPipe' /\ InReader' /\ AllSent'
  BY <1>1 DEF Numbered, NothingMissed
<1>7. InPipe /\ AllSent /\ ServerOpen /\ InReader /\ NothingMissed
  BY <1>1 DEF Numbered, ServerOpen
<1>8. InPipe' /\ AllSent'
  BY <1>0, <1>1, <1>2, <1>6, <1>7, InPipeTail
<1>9. InReader'
  BY <1>1 DEF InReader
<1>10. NothingMissed'
  <2> SUFFICES ASSUME NEW i \in 1 .. R + 1
               PROVE  /\ received'[i][1].n > 0
                      /\ {received'[j][1].n : j \in {j \in 1 .. i - 1 : received'[j][1].by = received'[i][1].by}}
                            = 1 .. received'[i][1].n - 1
    <3>1. DOMAIN received' = 1 .. R + 1
      BY <1>4
    <3> QED BY <3>1, Zenon DEF NothingMissed
  <2>1. CASE i \in 1 .. R
    <3>1. received'[i] = received[i] /\ \A j \in 1 .. i - 1 : received'[j] = received[j]
      BY <1>4, <2>1
    <3>2. /\ received[i][1].n > 0
          /\ {received[j][1].n : j \in {j \in 1 .. i - 1 : received[j][1].by = received[i][1].by}}
                = 1 .. received[i][1].n - 1
      BY <1>3, <1>7, <2>1 DEF NothingMissed
    <3> QED BY <3>1, <3>2
  <2>2. CASE i = R + 1
    <3>1. received'[i][1] = header /\ \A j \in 1 .. R : received'[j] = received[j]
      BY <1>3, <1>4, <2>2
    <3>2. PICK s \in Senders : s = header.by
      BY <1>2 DEF Items
    <3>3. header.n > 0 /\ Handed(s) = 1 .. header.n - 1
      BY <1>1, <1>7, <3>2 DEF InReader
    <3>4. (R + 1) - 1 = R
      OBVIOUS
    <3>5. {received'[j][1].n : j \in {j \in 1 .. R : received'[j][1].by = s}} = Handed(s)
      BY <3>1 DEF Handed
    <3> QED BY <2>2, <3>1, <3>2, <3>3, <3>4, <3>5
  <2> QED BY <1>5, <2>1, <2>2
<1> QED BY <1>8, <1>9, <1>10

\* In the handshake the controller takes what is no header of a message.
LEMMA FlowShakes ==
    ASSUME IInv, Numbered, toServer # <<>>, toServer' = Tail(toServer),
           toServer[1].what # "telemetry", server # "payload", server' # "payload", ServerOpen,
           UNCHANGED <<kind, client, header, received, at, made>>
    PROVE  Numbered'
<1>1. NothingMissed'
  BY MissedKeeps DEF Numbered
<1> SUFFICES ASSUME kind = "root" PROVE InPipe' /\ InReader' /\ AllSent'
  BY <1>1 DEF Numbered
<1>2. InPipe /\ AllSent
  BY DEF Numbered
<1>3. \A s \in Senders : Handed(s)' = Handed(s) /\ HasRead(s)' = HasRead(s)
  BY DEF Handed, HasRead
<1>4. InPipe' /\ AllSent'
  BY <1>2, <1>3, InPipeTail DEF IInv
<1> QED BY <1>4 DEF InReader

\* What a thread is about to say, and where a served target may be.
LEMMA CallersInit == Init => Callers /\ Numbered
<1> SUFFICES ASSUME Init PROVE Callers /\ Numbered
  OBVIOUS
<1> USE DEF Init
<1>1. Callers
  BY AgentIsSender DEF Callers
<1>2. NothingMissed
  BY DEF NothingMissed
<1>3. InPipe /\ InReader
  BY DEF InPipe, InReader
<1>4. AllSent
  <2> SUFFICES ASSUME NEW s \in Senders PROVE NumbersTo(s, Len(toServer) + 1) = 1 .. SentBy(s)
    BY DEF AllSent
  <2>1. Handed(s) = {}
    <3>1. 1 .. Len(received) = {}
      OBVIOUS
    <3> QED BY <3>1 DEF Handed
  <2>2. Piped(toServer, s, Len(toServer) + 1) = {}
    <3>1. 1 .. (Len(toServer) + 1) - 1 = {}
      OBVIOUS
    <3> QED BY <3>1 DEF Piped
  <2>3. SentBy(s) = 0 /\ 1 .. 0 = {}
    BY DEF SentBy
  <2> QED BY <2>1, <2>2, <2>3 DEF NumbersTo, HasRead
<1> QED BY <1>1, <1>2, <1>3, <1>4 DEF Numbered

LEMMA CallersStep == ASSUME IInv, Callers, [Next]_vars PROVE Callers'
<1>0. TypeOK /\ OneWriter /\ Stages /\ AgentThread \in Senders /\ AgentThread \notin Threads
      /\ Threads \subseteq Senders
  BY AgentIsSender, PipeAssumption DEF IInv
<1> USE DEF process, locks, pipe, reader, Goto
<1>1. CASE UNCHANGED vars
  BY <1>1 DEF vars, Callers
<1>2. ASSUME NEW t \in Threads, Call(t) PROVE Callers'
  <2>1. made[t] \in Nat /\ (t = AgentThread <=> FALSE)
    <3>1. made[t] \in 0 .. MaxCalls + Statuses
      BY <1>0 DEF TypeOK
    <3> QED BY <3>1, <1>0
  <2>2. \A s \in Senders : s # t => made'[s] = made[s] /\ at'[s] = at[s]
    BY <1>0, <1>2 DEF Call, TypeOK
  <2>3. made'[t] = made[t] + 1
    BY <1>0, <1>2 DEF Call, TypeOK
  <2> QED BY <1>0, <1>2, <2>1, <2>2, <2>3 DEF Call, Callers
<1>3. ASSUME NEW s \in Senders, LogTelemetry(s) \/ SendJsonPayload(s), proc # "gone" PROVE Callers'
  <2>1. \A r \in Senders : at'[r] = at[r] \/ (r = s /\ at'[r] \in {"out", "lock", "header", "payload"}
                                              /\ at[r] \in {"log", "lock", "header", "payload"})
    BY <1>0, <1>3 DEF LogTelemetry, SendJsonPayload, SendLock, SendHeader, SendPayload, Return, TypeOK
  <2>2. \A r \in Senders : at'[r] \in {"log", "lock", "header"} => at[r] \in {"log", "lock", "header"}
    <3>1. SendPayload(s) => at'[s] = "out"
      BY <1>0 DEF SendPayload, Return, TypeOK
    <3>2. SendHeader(s) \/ SendLock(s) \/ LogTelemetry(s) => at[s] \in {"log", "lock", "header"}
      BY DEF SendHeader, SendLock, LogTelemetry
    <3> QED BY <1>3, <2>1, <3>1, <3>2 DEF SendJsonPayload
  <2>3. UNCHANGED <<kind, proc, agent, callback, made, client>>
    BY <1>3 DEF LogTelemetry, SendJsonPayload, SendLock, SendHeader, SendPayload, WritePipe, WriteFails
  <2>4. at'[AgentThread] # "log"
    BY <1>0, <2>1 DEF Callers
  <2>5. kind = "root" /\ proc = "suspended" => \A t \in Threads : at'[t] = "out"
    BY <1>0, <2>1 DEF Callers
  <2> QED BY <2>2, <2>3, <2>4, <2>5 DEF Callers
<1>4. ASSUME NEW t \in Threads, Crash(t) PROVE Callers'
  BY <1>4 DEF Crash, Callers
<1>5. CASE Agent
  <2>1. CASE SendJsonPayload(AgentThread) \/ LogTelemetry(AgentThread)
    BY <1>0, <1>3, <1>5, <2>1 DEF Agent
  <2>2. CASE SendStatus
    <3>1. made[AgentThread] \in Nat
      <4>1. made[AgentThread] \in 0 .. MaxCalls + Statuses
        BY <1>0 DEF TypeOK
      <4> QED BY <4>1
    <3>2. \A s \in Senders : s # AgentThread => made'[s] = made[s] /\ at'[s] = at[s]
      BY <1>0, <2>2 DEF SendStatus, TypeOK
    <3>3. /\ made'[AgentThread] >= made[AgentThread]
          /\ at'[AgentThread] \in {"lock", "out"} /\ agent' \in {agent, "monitor"} /\ agent = "status"
          /\ at'[AgentThread] = "lock" => made'[AgentThread] > 0
      BY <1>0, <2>2, <3>1 DEF SendStatus, TypeOK
    <3>4. \A t \in Threads : t # AgentThread /\ t \in Senders
      BY <1>0
    <3>5. UNCHANGED <<kind, proc, callback, client>>
      BY <2>2 DEF SendStatus
    <3>6. \A s \in Senders : at'[s] \in {"log", "lock", "header"} => made'[s] > 0
      BY <3>2, <3>3, <3>1 DEF Callers
    <3>7. client' # "none"
      BY <3>3, <3>5 DEF Callers
    <3> QED BY <3>2, <3>3, <3>4, <3>5, <3>6, <3>7 DEF Callers, Told
  <2>3. CASE MonitorLock
    <3>1. \A s \in Senders : at'[s] = IF s = AgentThread THEN "out" ELSE at[s]
      BY <1>0, <2>3 DEF MonitorLock, ShouldTrace, TypeOK
    <3> QED BY <1>0, <2>3, <3>1 DEF MonitorLock, Callers, Told
  <2>4. CASE Connect \/ Register \/ ReadConfig
    BY <2>4 DEF Connect, Register, ReadConfig, WritePipe, PipeWorks, CloseClient, Callers, Told
  <2>5. CASE InstallHooks \/ RegisterTelemetryCallback \/ Ready
    BY <2>5 DEF InstallHooks, RegisterTelemetryCallback, Ready, WritePipe, PipeWorks, CloseClient, Callers, Told
  <2>6. CASE ErrorHeader \/ ErrorText \/ ErrorClose
    BY <2>6 DEF ErrorHeader, ErrorText, ErrorClose, WritePipe, PipeWorks, CloseClient, Callers, Told
  <2>7. CASE MonitorPeek \/ RemoveHooks \/ Unload
    BY <2>7 DEF MonitorPeek, RemoveHooks, Unload, CloseClient, Callers, Told
  <2> QED BY <1>5, <2>1, <2>2, <2>3, <2>4, <2>5, <2>6, <2>7 DEF Agent
<1>6. CASE Server \/ ServerTimesOut \/ ProcessExits \/ ControllerExits
  <2>1. UNCHANGED <<kind, agent, callback, at, made>>
    BY <1>6 DEF Server, ServerConnect, ServerRegister, ServerConfig, ServerReady, Resume, ReadHeader,
                ReadPayload, ReaderEnds, ServerTimesOut, ProcessExits, ControllerExits, Clients
  <2>2. client' = client \/ (client = "open" /\ client' = "closed")
    BY <1>6 DEF Server, ServerConnect, ServerRegister, ServerConfig, ServerReady, Resume, ReadHeader,
                ReadPayload, ReaderEnds, ServerTimesOut, ProcessExits, ControllerExits, Refuse
  <2>3. proc' = proc \/ proc' = "gone" \/ Resume
    BY <1>6 DEF Server, ServerConnect, ServerRegister, ServerConfig, ServerReady, ReadHeader,
                ReadPayload, ReaderEnds, ServerTimesOut, ProcessExits, ControllerExits, Refuse
  <2>4. Resume => agent \in Told /\ proc' = "running"
    BY <1>0 DEF Resume, Stages
  <2> QED BY <2>1, <2>2, <2>3, <2>4 DEF Callers
<1> QED
  <2>1. CASE Next
    BY <1>0, <1>2, <1>3, <1>4, <1>5, <1>6, <2>1 DEF Next, Detour
  <2> QED BY <1>1, <2>1

LEMMA NumberedStep == ASSUME IInv, Callers, Numbered, [Next]_vars PROVE Numbered'
<1>0. TypeOK /\ OneWriter /\ Stages /\ Stream /\ AgentThread \in Senders /\ AgentThread \notin Threads
      /\ Threads \subseteq Senders
  BY AgentIsSender, PipeAssumption DEF IInv
<1> USE DEF process, locks, pipe, reader, Goto
<1>1. CASE UNCHANGED vars
  BY <1>1, FlowKeeps DEF vars, SentBy, ServerOpen
\* In a target that runs, and is served, calls are traced.
<1>2. ASSUME kind = "root", ServerOpen, client # "closed", NEW t \in Threads, proc = "running" \/ at[t] # "out"
      PROVE  (proc = "gone" \/ hooks) /\ (proc = "gone" \/ callback)
  <2>1. proc \in {"running", "suspended", "gone"}
    BY <1>0 DEF TypeOK
  <2>2. proc # "suspended"
    BY <1>2, <2>1 DEF Callers
  <2>3. proc = "running" => agent \in {"status", "monitor", "peek"}
    BY <1>0, <1>2 DEF Callers, Told, Stages
  <2> QED BY <1>0, <2>1, <2>2, <2>3 DEF Stages
<1>3. ASSUME NEW t \in Threads, Call(t) PROVE Numbered'
  <2>1. made[t] \in Int
    <3>1. made[t] \in 0 .. MaxCalls + Statuses
      BY <1>0 DEF TypeOK
    <3> QED BY <3>1
  <2>2. ASSUME kind = "root", ServerOpen, client # "closed", NEW s \in Senders PROVE SentBy(s)' = SentBy(s)
    <3>1. hooks /\ t # AgentThread /\ t \in Senders
      BY <1>0, <1>2, <1>3, <2>2 DEF Call
    <3>2. made' = [made EXCEPT ![t] = @ + 1] /\ at' = [at EXCEPT ![t] = "log"] /\ at[t] = "out"
      BY <1>3, <3>1 DEF Call, ShouldTrace
    <3>3. made'[s] = (IF s = t THEN made[t] + 1 ELSE made[s]) /\ at'[s] = (IF s = t THEN "log" ELSE at[s])
      BY <1>0, <3>2 DEF TypeOK
    <3> QED BY <2>1, <3>2, <3>3 DEF SentBy
  <2> QED BY <1>3, <2>2, FlowKeeps DEF Call, ServerOpen
<1>4. ASSUME NEW s \in Senders, LogTelemetry(s), proc # "gone" PROVE Numbered'
  <2>1. s \in Threads
    BY <1>4 DEF LogTelemetry, Callers, Senders
  <2>2. ASSUME kind = "root", ServerOpen, client # "closed", NEW r \in Senders PROVE SentBy(r)' = SentBy(r)
    <3>1. callback
      BY <1>2, <1>4, <2>1, <2>2 DEF LogTelemetry
    <3>2. at' = [at EXCEPT ![s] = "lock"] /\ at[s] = "log" /\ made' = made
      BY <1>4, <3>1 DEF LogTelemetry
    <3>3. at'[r] = IF r = s THEN "lock" ELSE at[r]
      BY <1>0, <3>2 DEF TypeOK
    <3> QED BY <3>2, <3>3 DEF SentBy
  <2> QED BY <1>4, <2>2, FlowKeeps DEF LogTelemetry, ServerOpen
<1>5. ASSUME NEW s \in Senders, SendLock(s) PROVE Numbered'
  <2>1. \A r \in Senders : at'[r] = IF r = s THEN "header" ELSE at[r]
    BY <1>0, <1>5 DEF SendLock, TypeOK
  <2>2. \A r \in Senders : SentBy(r)' = SentBy(r)
    BY <1>5, <2>1 DEF SendLock, SentBy
  <2> QED BY <1>5, <2>2, FlowKeeps DEF SendLock, ServerOpen
\* A pipe that does not work is closed at one of its ends.
<1>6. ASSUME ~PipeWorks, callback, ServerOpen PROVE client = "closed"
  <2>1. client \in {"none", "open", "closed"}
    BY <1>0 DEF TypeOK
  <2> QED BY <1>6, <2>1 DEF PipeWorks, Callers
<1>7. ASSUME NEW s \in Senders, SendHeader(s) PROVE Numbered'
  <2>0. at[s] = "header" /\ callback /\ made' = made /\ made[s] > 0
    BY <1>0, <1>7 DEF SendHeader, Stages, Callers
  <2>1. CASE WriteFails
    <3>1. ServerOpen => client = "closed"
      BY <1>6, <2>0, <2>1 DEF WriteFails
    <3> QED BY <1>7, <2>1, <3>1, FlowKeeps DEF SendHeader, WriteFails, ServerOpen
  <2>2. CASE WritePipe("telemetry", s) /\ Goto(s, "payload")
    <3>1. \A r \in Senders : at'[r] = IF r = s THEN "payload" ELSE at[r]
      BY <1>0, <2>2 DEF TypeOK
    <3>2. SentBy(s)' = made[s] /\ \A r \in Senders : r # s => SentBy(r)' = SentBy(r)
      BY <2>0, <3>1 DEF SentBy
    <3> QED BY <1>0, <1>7, <2>0, <2>2, <3>2, FlowWrites DEF SendHeader
  <2> QED BY <1>7, <2>1, <2>2 DEF SendHeader
<1>8. ASSUME NEW s \in Senders, SendPayload(s) PROVE Numbered'
  <2>1. \A r \in Senders : at'[r] = IF r = s THEN "out" ELSE at[r]
    BY <1>0, <1>8 DEF SendPayload, Return, TypeOK
  <2>2. \A r \in Senders : SentBy(r)' = SentBy(r)
    BY <1>8, <2>1 DEF SendPayload, SentBy
  <2>3. CASE WriteFails
    BY <1>8, <2>2, <2>3, FlowKeeps DEF SendPayload, WriteFails, ServerOpen
  <2>4. CASE WritePipe("payload", s)
    BY <1>0, <1>8, <2>2, <2>4, FlowWrites DEF SendPayload
  <2> QED BY <1>8, <2>3, <2>4 DEF SendPayload
<1>9. ASSUME NEW t \in Threads, Crash(t) PROVE Numbered'
  BY <1>9, FlowKeeps DEF Crash, ServerOpen
<1>10. CASE Register \/ ErrorHeader \/ ErrorText \/ Ready
  <2>1. \A r \in Senders : SentBy(r)' = SentBy(r)
    BY <1>10 DEF Register, ErrorHeader, ErrorText, Ready, SentBy
  <2>2. UNCHANGED <<kind, server, header, received, made>>
    BY <1>10 DEF Register, ErrorHeader, ErrorText, Ready
  <2>3. CASE ~PipeWorks /\ CloseClient
    BY <2>2, <2>3, FlowKeeps DEF CloseClient, ServerOpen
  <2>4. PICK what \in {"register", "error", "payload", "ready"} :
           WritePipe(what, AgentThread) \/ (~PipeWorks /\ CloseClient)
    BY <1>10 DEF Register, ErrorHeader, ErrorText, Ready
  <2>5. CASE WritePipe(what, AgentThread)
    <3>1. what \in {"register", "ready", "error", "telemetry", "payload"} /\ what # "telemetry"
      OBVIOUS
    <3> QED BY <1>0, <2>1, <2>2, <2>5, <3>1, FlowWrites
  <2> QED BY <2>3, <2>4, <2>5
<1>11. CASE Connect \/ ReadConfig \/ InstallHooks \/ RegisterTelemetryCallback \/ ErrorClose
            \/ MonitorPeek \/ RemoveHooks \/ Unload
  <2>1. UNCHANGED <<kind, server, header, received, made, at, toServer>>
    BY <1>11 DEF Connect, ReadConfig, InstallHooks, RegisterTelemetryCallback, ErrorClose,
                 MonitorPeek, RemoveHooks, Unload, CloseClient
  <2>2. client' # "closed" => client # "closed"
    <3>1. client \in {"none", "open", "closed"}
      BY <1>0 DEF TypeOK
    <3>2. Connect => client # "closed"
      BY DEF Connect, Callers
    <3> QED BY <1>11, <3>2 DEF ReadConfig, InstallHooks, RegisterTelemetryCallback, ErrorClose,
                 MonitorPeek, RemoveHooks, Unload, CloseClient
  <2> QED BY <2>1, <2>2, FlowKeeps DEF SentBy, ServerOpen
<1>12. CASE SendStatus
  <2>1. made[AgentThread] \in Int /\ AgentThread \in Senders
    <3>1. made[AgentThread] \in 0 .. MaxCalls + Statuses
      BY <1>0 DEF TypeOK
    <3> QED BY <1>0, <3>1
  <2>2. CASE made[AgentThread] < Statuses
    <3>1. \A s \in Senders : /\ made'[s] = (IF s = AgentThread THEN made[AgentThread] + 1 ELSE made[s])
                             /\ at'[s] = (IF s = AgentThread THEN "lock" ELSE at[s])
      BY <1>0, <1>12, <2>2 DEF SendStatus, TypeOK
    <3>2. at[AgentThread] = "out"
      BY <1>12 DEF SendStatus
    <3>3. \A s \in Senders : SentBy(s)' = SentBy(s)
      BY <2>1, <3>1, <3>2 DEF SentBy
    <3> QED BY <1>12, <3>3, FlowKeeps DEF SendStatus, ServerOpen
  <2>3. CASE ~(made[AgentThread] < Statuses)
    BY <1>12, <2>3, FlowKeeps DEF SendStatus, ServerOpen, SentBy
  <2> QED BY <2>2, <2>3
<1>13. CASE MonitorLock
  <2>1. \A s \in Senders : at'[s] = IF s = AgentThread THEN "out" ELSE at[s]
    BY <1>0, <1>13 DEF MonitorLock, ShouldTrace, TypeOK
  <2>2. at[AgentThread] = "out"
    BY <1>0, <1>13 DEF MonitorLock, OneWriter
  <2>3. \A s \in Senders : SentBy(s)' = SentBy(s)
    BY <1>13, <2>1, <2>2 DEF MonitorLock, SentBy
  <2> QED BY <1>13, <2>3, FlowKeeps DEF MonitorLock, ServerOpen
<1>14. CASE Agent
  BY <1>0, <1>4, <1>5, <1>7, <1>8, <1>10, <1>11, <1>12, <1>13, <1>14 DEF Agent, SendJsonPayload
<1>15. CASE Refuse /\ kind' = kind /\ received' = received
  BY <1>15, FlowStops DEF Refuse
<1>16. CASE ServerRegister \/ ServerReady
  <2>1. UNCHANGED <<kind, at, made, header, received>>
    BY <1>16 DEF ServerRegister, ServerReady, Clients
  <2>2. CASE Refuse
    BY <1>15, <2>1, <2>2
  <2>3. CASE ~Refuse
    <3>1. toServer # <<>> /\ toServer' = Tail(toServer) /\ Head(toServer).what \in {"register", "ready"}
          /\ server \in {"register", "ready"} /\ server' \in {"config", "header"} /\ client' = client
      BY <1>16, <2>3 DEF ServerRegister, ServerReady
    <3>2. Head(toServer) = toServer[1]
      BY <1>0, <3>1, TypeOfRead
    <3> QED BY <2>1, <3>1, <3>2, FlowShakes DEF ServerOpen
  <2> QED BY <2>2, <2>3
<1>17. CASE ServerConnect \/ Resume \/ ProcessExits
  BY <1>17, FlowKeeps DEF ServerConnect, Resume, ProcessExits, Clients, ServerOpen, SentBy
<1>18. CASE ServerConfig
  <2>1. CASE Refuse
    BY <1>15, <1>18, <2>1 DEF ServerConfig
  <2>2. CASE ~Refuse
    BY <1>18, <2>2, FlowKeeps DEF ServerConfig, Clients, ServerOpen, SentBy
  <2> QED BY <2>1, <2>2
<1>19. CASE ServerTimesOut
  BY <1>15, <1>19 DEF ServerTimesOut
<1>20. CASE ReaderEnds \/ ControllerExits
  BY <1>20, FlowStops DEF ReaderEnds, ControllerExits
<1>21. CASE Server
  BY <1>16, <1>17, <1>18, <1>20, <1>21, FlowHeader, FlowPayload DEF Server
<1>22. ASSUME NEW t \in Threads, Detour(t) PROVE Numbered'
  BY <1>0, <1>4, <1>5, <1>7, <1>8, <1>9, <1>22 DEF Detour, SendJsonPayload
<1>23. CASE Next
  BY <1>3, <1>14, <1>17, <1>19, <1>20, <1>21, <1>22, <1>23 DEF Next
<1> QED BY <1>1, <1>23

\* Whatever a launched target's threads call, and however slowly the pipe is
\* read, no call is missed and those of a thread come in order.
THEOREM NothingMissedHolds == Spec => []NothingMissed
<1>1. Init => IInv /\ Callers /\ Numbered
  BY IInvInit, CallersInit
<1>2. IInv /\ Callers /\ Numbered /\ [Next]_vars => (IInv /\ Callers /\ Numbered)'
  BY IInvStep, CallersStep, NumberedStep
<1>3. Numbered => NothingMissed
  BY DEF Numbered
<1> QED BY <1>1, <1>2, <1>3, PTL DEF Spec

-----------------------------------------------------------------------------
(***************************************************************************)
(* The hooks.  What is hooked and not lost is in MinHook's list, what is   *)
(* enabled there is patched, and nothing else is: so that whoever adds a   *)
(* hook while the agent's thread enables all, or takes them back, leaves   *)
(* none half done.                                                         *)
(***************************************************************************)

\* Before all hooks are enabled; after the agent has begun to take them back.
Before == {"early", "openssl", "late", "enable"}
After == {"failed", "disable", "disable failed", "uninitialize", "uninitialize failed",
          "removed", "stays", "unloaded"}
Removed == {"removed", "stays", "unloaded"}

Hook == [function : Functions, enabled : BOOLEAN]
SslPlace == [at : {"out", "lock", "create", "look", "enable"}, module : SslModules \cup {NoModule}]

HookTypes ==
    /\ list \in Seq(Hook) /\ hooked \subseteq Functions /\ patched \subseteq Functions
    /\ initialised \in BOOLEAN /\ activated \in BOOLEAN
    /\ installer \in {"initialize", "activate", "count", "installed"} \cup Before \cup After
    /\ next \in Nat \ {0} /\ found \subseteq SslModules
    /\ ssl \in [Users -> SslPlace]
    /\ \A u \in Users : ssl[u].at # "out" => ssl[u].module \in SslModules

Listed(f) == \E i \in DOMAIN list : list[i].function = f
\* A thread that has hooked f is about to enable it.
Hooking(f) == \E u \in Users : ssl[u].at \in {"look", "enable"} /\ f = Ssl(ssl[u].module)

\* MinHook's list is there between its two calls, and holds what is said to be
\* hooked; a hooked function that is not lost has its module where it was.
Opened ==
    /\ \A i \in DOMAIN list : list[i].function \in hooked
    /\ installer = "initialize" => ~initialised
    /\ installer \in {"activate", "count", "installed"} \cup Before => initialised
    /\ ~initialised => list = <<>>
Loaded == \A f \in hooked \ lost : ModuleOf(f) \in loaded

\* As long as nothing is lost, MinHook knows of every function that is patched.
Patches ==
    lost = {} =>
        /\ \A f \in patched : \E i \in DOMAIN list : list[i].function = f /\ list[i].enabled
        /\ installer \in Removed => ~initialised

\* Until the hooks are taken back, what is hooked and not lost is in the list, and
\* what is enabled there is patched; all of it once all are enabled, but for what
\* another thread is just adding.
Active ==
    installer \notin After =>
        /\ \A f \in hooked \ lost : Listed(f)
        /\ \A i \in DOMAIN list : list[i].enabled => list[i].function \in patched \cup lost
        /\ installer = "activate" => \A f \in hooked \ (lost \cup between) : f \in patched
        /\ installer \in {"count", "installed"} =>
              /\ activated
              /\ \A f \in hooked \ (lost \cup between) : f \in patched \/ Hooking(f)

HookInv == HookTypes /\ Opened /\ Loaded /\ Patches /\ Active

LEMMA HookInvInit == HookInit => HookInv
<1> SUFFICES ASSUME HookInit PROVE HookInv
  OBVIOUS
<1>1. HookTypes
  <2>1. Outside \in SslPlace /\ Outside.at = "out"
    BY DEF Outside, SslPlace
  <2>2. ssl \in [Users -> SslPlace] /\ \A u \in Users : ssl[u].at = "out"
    BY <2>1 DEF HookInit
  <2>3. list \in Seq(Hook)
    BY DEF HookInit
  <2>4. next \in Nat \ {0} /\ found \subseteq SslModules /\ installer = "initialize"
    BY DEF HookInit
  <2>5. hooked \subseteq Functions /\ patched \subseteq Functions /\ initialised \in BOOLEAN /\ activated \in BOOLEAN
    BY DEF HookInit
  <2> QED BY <2>2, <2>3, <2>4, <2>5 DEF HookTypes
<1>2. Opened /\ Loaded /\ Patches /\ Active
  BY DEF HookInit, Opened, Loaded, Patches, Active, Before, After, Removed
<1> QED BY <1>1, <1>2 DEF HookInv

LEMMA SslIsFunction == \A m \in SslModules : Ssl(m) \in Functions /\ ModuleOf(Ssl(m)) = m
BY DEF Functions, Ssl, ModuleOf

\* Another hook at the end of MinHook's list, or none.
Grows(f) ==
    /\ list' \in Seq(Hook)
    /\ \A i \in DOMAIN list : i \in DOMAIN list' /\ list'[i] = list[i]
    /\ \A i \in DOMAIN list' : i \in DOMAIN list \/ list'[i] = [function |-> f, enabled |-> FALSE]

LEMMA AppendGrows ==
    ASSUME list \in Seq(Hook), NEW f \in Functions, list' = Append(list, [function |-> f, enabled |-> FALSE])
    PROVE  Grows(f) /\ Listed(f)'
<1> DEFINE e == [function |-> f, enabled |-> FALSE]
<1>1. e \in Hook /\ e.function = f
  BY DEF Hook
<1> HIDE DEF e
<1>2. /\ list' \in Seq(Hook) /\ DOMAIN list' = 1 .. Len(list) + 1 /\ list'[Len(list) + 1] = e
      /\ \A i \in 1 .. Len(list) : list'[i] = list[i]
      /\ DOMAIN list = 1 .. Len(list) /\ Len(list) \in Nat
  BY <1>1 DEF e
<1>3. Grows(f)
  BY <1>2 DEF Grows, e
<1>4. Listed(f)'
  BY <1>1, <1>2 DEF Listed
<1> QED BY <1>3, <1>4

LEMMA CreateHookGrows ==
    ASSUME list \in Seq(Hook), NEW f \in Functions, CreateHook(f)
    PROVE  /\ Grows(f) /\ (Created(f) => Listed(f)')
           /\ list' = list \/ (initialised /\ ModuleOf(f) \in loaded /\ Created(f))
<1>1. CASE initialised /\ ModuleOf(f) \in loaded /\ Hooks(f) = {}
  BY <1>1, AppendGrows DEF CreateHook, Created
<1>2. CASE ~(initialised /\ ModuleOf(f) \in loaded /\ Hooks(f) = {})
  <2>1. list' = list
    BY <1>2 DEF CreateHook
  <2>2. Created(f) => Hooks(f) # {}
    BY <1>2 DEF Created
  <2> QED BY <2>1, <2>2 DEF Grows, Listed, Hooks
<1> QED BY <1>1, <1>2

\* The flags of some of the hooks change.
Flips(I, enable) ==
    /\ list' \in Seq(Hook) /\ DOMAIN list' = DOMAIN list
    /\ \A i \in DOMAIN list : /\ list'[i].function = list[i].function
                              /\ list'[i].enabled = IF i \in I THEN enable ELSE list[i].enabled

LEMMA Flipping ==
    ASSUME list \in Seq(Hook), NEW I, NEW enable \in BOOLEAN,
           list' = [i \in DOMAIN list |-> IF i \in I THEN [list[i] EXCEPT !.enabled = enable] ELSE list[i]]
    PROVE  Flips(I, enable)
<1>1. \A i \in DOMAIN list : list[i] \in Hook
  OBVIOUS
<1>2. \A i \in DOMAIN list :
         /\ list'[i] \in Hook /\ list'[i].function = list[i].function
         /\ list'[i].enabled = IF i \in I THEN enable ELSE list[i].enabled
  BY <1>1 DEF Hook
<1>3. DOMAIN list' = DOMAIN list /\ DOMAIN list = 1 .. Len(list) /\ Len(list) \in Nat
  OBVIOUS
<1>4. list' = [i \in 1 .. Len(list) |-> list'[i]] /\ \A i \in 1 .. Len(list) : list'[i] \in Hook
  BY <1>2, <1>3
<1>5. list' \in Seq(Hook)
  BY <1>3, <1>4
<1> QED BY <1>2, <1>3, <1>5 DEF Flips

FunctionsAt(I) == {list[i].function : i \in I}

LEMMA EnableAllFlips ==
    ASSUME list \in Seq(Hook), NEW enable \in BOOLEAN, EnableAll(enable)
    PROVE  /\ Flips(Switched(enable), enable)
           /\ patched' = IF enable THEN patched \cup FunctionsAt(Switched(enable))
                         ELSE patched \ FunctionsAt(Switched(enable))
BY Flipping DEF EnableAll, FunctionsAt

LEMMA EnableHookFlips ==
    ASSUME list \in Seq(Hook), NEW f, EnableHook(f)
    PROVE  \/ Flips(Hooks(f), TRUE) /\ patched' = patched \cup {f} /\ Listed(f)
           \/ /\ UNCHANGED <<list, patched>>
              /\ ModuleOf(f) \notin loaded \/ \A i \in Hooks(f) : list[i].enabled
<1>1. CASE ModuleOf(f) \in loaded /\ \E i \in Hooks(f) : ~list[i].enabled
  BY <1>1, Flipping DEF EnableHook, Listed, Hooks
<1>2. CASE ~(ModuleOf(f) \in loaded /\ \E i \in Hooks(f) : ~list[i].enabled)
  BY <1>2 DEF EnableHook
<1> QED BY <1>1, <1>2

\* A thread goes on in TryInstallOpenSslHooks, or leaves it.
LEMMA SslMoves ==
    ASSUME HookTypes, NEW u \in Users, NEW place \in {"create", "look", "enable"},
           ssl[u].at # "out",
           ssl' = [ssl EXCEPT ![u].at = place] \/ ssl' = [ssl EXCEPT ![u] = Outside]
    PROVE  /\ ssl' \in [Users -> SslPlace]
           /\ \A v \in Users : ssl'[v].at # "out" => ssl'[v].module \in SslModules
           /\ \A v \in Users : v # u => ssl'[v] = ssl[v]
           /\ ssl' = [ssl EXCEPT ![u].at = place] =>
                 ssl'[u].at = place /\ ssl'[u].module = ssl[u].module
<1>1. Outside \in SslPlace /\ Outside.at = "out"
  BY DEF Outside, SslPlace
<1>2. ssl \in [Users -> SslPlace] /\ ssl[u].module \in SslModules
  BY DEF HookTypes
<1>3. \A v \in Users : v # u => ssl'[v] = ssl[v]
  BY <1>2
<1>4. \A v \in Users : v # u /\ ssl'[v].at # "out" => ssl'[v].module \in SslModules
  BY <1>3 DEF HookTypes
<1>5. CASE ssl' = [ssl EXCEPT ![u].at = place]
  <2>1. ssl'[u] = [ssl[u] EXCEPT !.at = place]
    BY <1>2, <1>5
  <2>2. ssl'[u].at = place /\ ssl'[u].module = ssl[u].module /\ ssl'[u] \in SslPlace
    BY <1>2, <2>1 DEF SslPlace
  <2>3. ssl' \in [Users -> SslPlace]
    BY <1>2, <1>3, <1>5, <2>2
  <2> QED BY <1>2, <1>3, <1>4, <2>2, <2>3
<1>6. CASE ssl' = [ssl EXCEPT ![u] = Outside] /\ ssl' # [ssl EXCEPT ![u].at = place]
  <2>1. ssl'[u] = Outside
    BY <1>2, <1>6
  <2>2. ssl' \in [Users -> SslPlace]
    BY <1>1, <1>2, <1>6
  <2> QED BY <1>1, <1>3, <1>4, <1>6, <2>1, <2>2
<1> QED BY <1>5, <1>6

LEMMA SslLockKeeps == ASSUME HookInv, NEW u \in Users, SslLock(u) PROVE HookInv'
<1>0. /\ HookTypes /\ Opened /\ Loaded /\ Patches /\ Active
      /\ UNCHANGED <<loaded, patched, list, initialised, hooked, activated, installer, next, found, lost, between>>
      /\ ssl[u].at = "lock" /\ ssl' = [ssl EXCEPT ![u].at = "create"]
  BY DEF HookInv, SslLock, SslGoes, modules, minhook, agentThread, ghosts
<1>1. /\ ssl' \in [Users -> SslPlace]
      /\ \A v \in Users : ssl'[v].at # "out" => ssl'[v].module \in SslModules
      /\ \A v \in Users : v # u => ssl'[v] = ssl[v]
  BY <1>0, SslMoves
<1>2. HookTypes'
  BY <1>0, <1>1 DEF HookTypes
<1>3. \A f : Hooking(f) => Hooking(f)'
  BY <1>0, <1>1 DEF Hooking
<1>4. Opened' /\ Loaded' /\ Patches'
  BY <1>0 DEF Opened, Loaded, Patches
<1>5. Active'
  BY <1>0, <1>3 DEF Active, Listed
<1> QED BY <1>2, <1>4, <1>5 DEF HookInv

LEMMA SslLookKeeps == ASSUME HookInv, NEW u \in Users, SslLook(u) PROVE HookInv'
<1>0. /\ HookTypes /\ Opened /\ Loaded /\ Patches /\ Active
      /\ UNCHANGED <<loaded, patched, list, initialised, hooked, activated, installer, next, found, lost, between>>
      /\ ssl[u].at = "look"
      /\ IF activated THEN ssl' = [ssl EXCEPT ![u].at = "enable"] ELSE ssl' = [ssl EXCEPT ![u] = Outside]
  BY DEF HookInv, SslLook, SslGoes, SslLeaves, modules, minhook, agentThread, ghosts
<1>1. /\ ssl' \in [Users -> SslPlace]
      /\ \A v \in Users : ssl'[v].at # "out" => ssl'[v].module \in SslModules
      /\ \A v \in Users : v # u => ssl'[v] = ssl[v]
      /\ activated => ssl'[u].at = "enable" /\ ssl'[u].module = ssl[u].module
  BY <1>0, SslMoves
<1>2. HookTypes'
  BY <1>0, <1>1 DEF HookTypes
<1>3. \A f : activated /\ Hooking(f) => Hooking(f)'
  BY <1>0, <1>1 DEF Hooking
<1>4. Opened' /\ Loaded' /\ Patches'
  BY <1>0 DEF Opened, Loaded, Patches
<1>5. Active'
  BY <1>0, <1>3 DEF Active, Listed
<1> QED BY <1>2, <1>4, <1>5 DEF HookInv

\* A function that is hooked stays known, whoever else adds one.
LEMMA GrowthKeeps ==
    ASSUME HookInv, NEW f \in Functions, Grows(f), hooked' = hooked \cup {f} \/ (hooked' = hooked /\ list' = list),
           list' = list \/ (hooked' = hooked \cup {f} /\ initialised),
           f \in hooked' \ hooked => Listed(f)' /\ ModuleOf(f) \in loaded',
           loaded \subseteq loaded', UNCHANGED <<patched, initialised, lost, activated, installer>>,
           between \subseteq between',
           installer = "activate" => hooked' \ between' \subseteq hooked,
           \A g : Hooking(g) => Hooking(g)',
           installer \in {"count", "installed"} /\ hooked' # hooked => Hooking(f)'
    PROVE  Opened' /\ Loaded' /\ Patches' /\ Active'
<1>0. HookTypes /\ Opened /\ Loaded /\ Patches /\ Active
  BY DEF HookInv
<1>1. \A g \in hooked' : g \in hooked \/ (g = f /\ f \in hooked' \ hooked)
  OBVIOUS
<1>2. \A g : Listed(g) => Listed(g)'
  BY DEF Grows, Listed
<1>3. Opened'
  <2>1. \A i \in DOMAIN list' : list'[i].function \in hooked'
    <3>1. \A i \in DOMAIN list : list'[i].function \in hooked'
      BY <1>0 DEF Opened, Grows
    <3>2. ASSUME NEW i \in DOMAIN list', i \notin DOMAIN list PROVE list'[i].function \in hooked'
      BY <3>2 DEF Grows
    <3> QED BY <3>1, <3>2
  <2>2. ~initialised => list' = <<>>
    BY <1>0 DEF Opened
  <2> QED BY <1>0, <2>1, <2>2 DEF Opened
<1>4. Loaded'
  BY <1>0, <1>1 DEF Loaded
<1>5. Patches'
  BY <1>0 DEF Patches, Grows
<1>6. Active'
  <2> SUFFICES ASSUME installer \notin After PROVE Active'
    BY DEF Active
  <2>1. \A g \in hooked' \ lost' : Listed(g)'
    BY <1>0, <1>1, <1>2 DEF Active
  <2>2. \A i \in DOMAIN list' : list'[i].enabled => list'[i].function \in patched' \cup lost'
    <3>1. \A i \in DOMAIN list : list'[i].enabled => list'[i].function \in patched' \cup lost'
      BY <1>0 DEF Active, Grows
    <3>2. ASSUME NEW i \in DOMAIN list', i \notin DOMAIN list PROVE ~list'[i].enabled
      BY <3>2 DEF Grows
    <3> QED BY <3>1, <3>2
  <2>3. installer = "activate" => \A g \in hooked' \ (lost' \cup between') : g \in patched'
    BY <1>0 DEF Active
  <2>4. installer \in {"count", "installed"} =>
           activated' /\ \A g \in hooked' \ (lost' \cup between') : g \in patched' \/ Hooking(g)'
    BY <1>0, <1>1 DEF Active
  <2> QED BY <2>1, <2>2, <2>3, <2>4 DEF Active
<1> QED BY <1>3, <1>4, <1>5, <1>6

\* Only what CreateHook has made, or finds in the list, is said to be hooked.
LEMMA SslCreateKeeps == ASSUME HookInv, NEW u \in Users, SslCreate(u) PROVE HookInv'
<1> SUFFICES ASSUME NEW f, f = Ssl(ssl[u].module) PROVE HookInv'
  OBVIOUS
<1>0. /\ HookTypes /\ Opened /\ Loaded /\ Patches /\ Active
      /\ UNCHANGED <<loaded, patched, initialised, activated, installer, next, found, lost>>
      /\ ssl[u].at = "create"
  BY DEF HookInv, SslCreate, modules, agentThread
<1>1. /\ f \in Functions /\ ssl[u].module \in SslModules /\ list \in Seq(Hook)
      /\ \A g : Listed(g) <=> Hooks(g) # {}
  BY <1>0, SslIsFunction DEF HookTypes, Listed, Hooks
<1>2. CASE ~original /\ Created(f)
  <2>1. /\ CreateHook(f) /\ hooked' = hooked \cup {f} /\ ssl' = [ssl EXCEPT ![u].at = "look"]
        /\ between' = IF installer = "activate" THEN between \cup {f} ELSE between
    BY <1>2 DEF SslCreate
  <2>2. /\ ssl' \in [Users -> SslPlace]
        /\ \A v \in Users : ssl'[v].at # "out" => ssl'[v].module \in SslModules
        /\ \A v \in Users : v # u => ssl'[v] = ssl[v]
        /\ ssl'[u].at = "look" /\ ssl'[u].module = ssl[u].module
    BY <1>0, <2>1, SslMoves
  <2>3. Hooking(f)' /\ \A g : Hooking(g) => Hooking(g)'
    BY <1>0, <2>2 DEF Hooking
  <2>4. Grows(f) /\ Listed(f)' /\ (list' = list \/ initialised)
    BY <1>1, <1>2, <2>1, CreateHookGrows
  <2>5. f \in hooked' \ hooked => ModuleOf(f) \in loaded
    <3>1. Hooks(f) # {} => f \in hooked
      BY <1>0 DEF Hooks, Opened
    <3> QED BY <1>2, <3>1 DEF Created
  <2>6. Opened' /\ Loaded' /\ Patches' /\ Active'
    <3>1. list' = list \/ (hooked' = hooked \cup {f} /\ initialised)
      BY <2>1, <2>4
    <3>2. f \in hooked' \ hooked => Listed(f)' /\ ModuleOf(f) \in loaded'
      BY <1>0, <2>4, <2>5
    <3>3. loaded \subseteq loaded' /\ between \subseteq between'
      BY <1>0, <2>1
    <3>4. installer = "activate" => hooked' \ between' \subseteq hooked
      BY <2>1
    <3>5. installer \in {"count", "installed"} /\ hooked' # hooked => Hooking(f)'
      BY <2>3
    <3>6. hooked' = hooked \cup {f} \/ (hooked' = hooked /\ list' = list)
      BY <2>1
    <3>7. UNCHANGED <<patched, initialised, lost, activated, installer>>
      BY <1>0
    <3> QED BY <1>1, <2>3, <2>4, <3>1, <3>2, <3>3, <3>4, <3>5, <3>6, <3>7, GrowthKeeps
  <2>7. HookTypes'
    BY <1>0, <1>1, <2>1, <2>2, <2>4 DEF HookTypes, Grows
  <2> QED BY <2>6, <2>7 DEF HookInv
<1>3. CASE original \/ ~Created(f)
  <2>1. ssl' = [ssl EXCEPT ![u] = Outside] /\ UNCHANGED <<hooked, between>>
    BY <1>3 DEF SslCreate, SslLeaves
  <2>2. list' = list
    <3>1. CASE original
      BY <3>1 DEF SslCreate
    <3>2. CASE ~original
      BY <1>1, <1>3, <3>2, CreateHookGrows DEF SslCreate
    <3> QED BY <3>1, <3>2
  <2>3. /\ ssl' \in [Users -> SslPlace]
        /\ \A v \in Users : ssl'[v].at # "out" => ssl'[v].module \in SslModules
        /\ \A v \in Users : v # u => ssl'[v] = ssl[v]
    BY <1>0, <2>1, SslMoves
  <2>4. \A g : Hooking(g) => Hooking(g)'
    BY <1>0, <2>3 DEF Hooking
  <2>5. Opened' /\ Loaded' /\ Patches'
    BY <1>0, <2>1, <2>2 DEF Opened, Loaded, Patches
  <2>6. Active'
    BY <1>0, <2>1, <2>2, <2>4 DEF Active, Listed
  <2>7. HookTypes'
    BY <1>0, <2>1, <2>2, <2>3 DEF HookTypes
  <2> QED BY <2>5, <2>6, <2>7 DEF HookInv
<1> QED BY <1>2, <1>3

LEMMA SslEnableKeeps == ASSUME HookInv, NEW u \in Users, SslEnable(u) PROVE HookInv'
<1> SUFFICES ASSUME NEW f, f = Ssl(ssl[u].module) PROVE HookInv'
  OBVIOUS
<1>0. /\ HookTypes /\ Opened /\ Loaded /\ Patches /\ Active
      /\ UNCHANGED <<loaded, initialised, hooked, activated, installer, next, found, lost, between>>
      /\ ssl[u].at = "enable" /\ ssl' = [ssl EXCEPT ![u] = Outside] /\ EnableHook(f)
  BY DEF HookInv, SslEnable, SslLeaves, modules, agentThread, ghosts
<1>1. list \in Seq(Hook) /\ f \in Functions
  BY <1>0, SslIsFunction DEF HookTypes
<1>2. /\ ssl' \in [Users -> SslPlace]
      /\ \A v \in Users : ssl'[v].at # "out" => ssl'[v].module \in SslModules
      /\ \A v \in Users : v # u => ssl'[v] = ssl[v]
  BY <1>0, SslMoves
<1>3. \A g : g # f /\ Hooking(g) => Hooking(g)'
  BY <1>0, <1>2 DEF Hooking
<1>4. CASE Flips(Hooks(f), TRUE) /\ patched' = patched \cup {f} /\ Listed(f)
  <2>1. \A i \in DOMAIN list : i \in Hooks(f) <=> list[i].function = f
    BY DEF Hooks
  <2>2. HookTypes'
    BY <1>0, <1>1, <1>2, <1>4 DEF HookTypes, Flips
  <2>3. Opened'
    <3>1. initialised
      BY <1>0, <1>4 DEF Opened, Listed
    <3>2. \A i \in DOMAIN list' : list'[i].function \in hooked'
      BY <1>0, <1>4 DEF Opened, Flips
    <3> QED BY <1>0, <3>1, <3>2 DEF Opened
  <2>4. Loaded'
    BY <1>0 DEF Loaded
  <2>5. Patches'
    <3>1. ASSUME lost = {}, NEW g \in patched' PROVE \E i \in DOMAIN list' : list'[i].function = g /\ list'[i].enabled
      <4>1. CASE g = f
        BY <4>1, <2>1, <1>4 DEF Flips, Listed
      <4>2. CASE g # f
        <5>1. PICK i \in DOMAIN list : list[i].function = g /\ list[i].enabled
          BY <4>2, <3>1, <1>0, <1>4 DEF Patches
        <5> QED BY <5>1, <4>2, <2>1, <1>4 DEF Flips
      <4> QED BY <4>1, <4>2
    <3> QED BY <3>1, <1>0 DEF Patches
  <2>6. Active'
    <3> SUFFICES ASSUME installer \notin After PROVE Active'
      BY <1>0 DEF Active
    <3>1. \A g \in hooked' \ lost' : Listed(g)'
      BY <1>0, <1>4 DEF Active, Listed, Flips
    <3>2. \A i \in DOMAIN list' : list'[i].enabled => list'[i].function \in patched' \cup lost'
      BY <1>0, <1>4, <2>1 DEF Active, Flips
    <3>3. installer \in {"count", "installed"} => \A g \in hooked \ (lost \cup between) : g \in patched' \/ Hooking(g)'
      BY <1>0, <1>3, <1>4 DEF Active
    <3>4. installer = "activate" => \A g \in hooked \ (lost \cup between) : g \in patched'
      BY <1>0, <1>4 DEF Active
    <3> QED BY <1>0, <3>1, <3>2, <3>3, <3>4 DEF Active
  <2> QED BY <2>2, <2>3, <2>4, <2>5, <2>6 DEF HookInv
<1>5. CASE /\ UNCHANGED <<list, patched>>
           /\ ModuleOf(f) \notin loaded \/ \A i \in Hooks(f) : list[i].enabled
  <2>1. HookTypes' /\ Opened' /\ Loaded' /\ Patches'
    BY <1>0, <1>2, <1>5 DEF HookTypes, Opened, Loaded, Patches
  <2>2. installer \notin After /\ f \in hooked \ lost => f \in patched
    <3> SUFFICES ASSUME installer \notin After, f \in hooked \ lost PROVE f \in patched
      OBVIOUS
    <3>1. ModuleOf(f) \in loaded
      BY <1>0 DEF Loaded
    <3>2. PICK i \in DOMAIN list : list[i].function = f
      BY <1>0 DEF Active, Listed
    <3>3. list[i].enabled
      BY <1>5, <3>1, <3>2 DEF Hooks
    <3> QED BY <1>0, <3>2, <3>3 DEF Active
  <2>3. Active'
    BY <1>0, <1>3, <1>5, <2>2 DEF Active, Listed
  <2> QED BY <2>1, <2>3 DEF HookInv
<1> QED BY <1>0, <1>1, <1>4, <1>5, EnableHookFlips

\* The agent's thread goes on and leaves MinHook alone.
LEMMA InstallerGoes ==
    ASSUME HookInv, UNCHANGED <<loaded, patched, list, initialised, hooked, ssl, lost, between, next, found>>,
           \/ installer = "activate" /\ installer' = "count" /\ activated' = TRUE
           \/ installer = "count" /\ installer' \in {"installed", "failed"} /\ activated' = activated
           \/ installer \in {"installed", "failed"} /\ installer' \in {"disable", "disable failed"} /\ activated' = FALSE
           \/ installer = "removed" /\ installer' = "unloaded" /\ activated' = activated
    PROVE  HookInv'
<1>0. HookTypes /\ Opened /\ Loaded /\ Patches /\ Active
  BY DEF HookInv
<1>1. HookTypes'
  BY <1>0 DEF HookTypes, After
<1>2. Opened'
  BY <1>0 DEF Opened, Before
<1>3. Loaded' /\ Patches'
  BY <1>0 DEF Loaded, Patches, Removed
<1>4. Active'
  BY <1>0 DEF Active, Listed, Hooking, After
<1> QED BY <1>1, <1>2, <1>3, <1>4 DEF HookInv

LEMMA InitializeKeeps == ASSUME HookInv, MH_Initialize PROVE HookInv'
<1>0. /\ HookTypes /\ Opened /\ Loaded /\ Patches /\ Active
      /\ UNCHANGED <<loaded, patched, list, hooked, ssl, activated, next, found, lost, between>>
      /\ installer = "initialize" /\ installer' = "early" /\ initialised' = TRUE
  BY DEF HookInv, MH_Initialize, Goes, modules, opensslHooks, ghosts
<1>1. HookTypes'
  BY <1>0 DEF HookTypes, Before
<1>2. Opened' /\ Loaded'
  BY <1>0 DEF Opened, Loaded
<1>3. Patches'
  BY <1>0 DEF Patches, Removed
<1>4. Active'
  BY <1>0 DEF Active, Listed, After
<1> QED BY <1>1, <1>2, <1>3, <1>4 DEF HookInv

LEMMA OpenSslKeeps == ASSUME HookInv, InstallLoadedOpenSslHooks PROVE HookInv'
<1>0. /\ HookTypes /\ Opened /\ Loaded /\ Patches /\ Active
      /\ UNCHANGED <<loaded, patched, list, initialised, hooked, activated, next, lost, between>>
      /\ installer = "openssl" /\ installer' \in {"openssl", "late"} /\ found' \subseteq SslModules
  BY DEF HookInv, InstallLoadedOpenSslHooks, modules, minhook, ghosts, HookTypes
<1>1. /\ ssl' \in [Users -> SslPlace]
      /\ \A v \in Users : ssl'[v].at # "out" => ssl'[v].module \in SslModules
  <2>1. CASE ssl' = ssl
    BY <2>1, <1>0 DEF HookTypes
  <2>2. CASE \E m \in found : ssl' = [ssl EXCEPT ![Installer] = [at |-> "lock", module |-> m]]
    <3>1. PICK m \in found : ssl' = [ssl EXCEPT ![Installer] = [at |-> "lock", module |-> m]]
      BY <2>2
    <3>2. m \in SslModules /\ [at |-> "lock", module |-> m] \in SslPlace /\ Installer \in Users
      BY <1>0 DEF HookTypes, SslPlace, Users
    <3>3. ssl \in [Users -> SslPlace] /\ \A v \in Users : ssl[v].at # "out" => ssl[v].module \in SslModules
      BY <1>0 DEF HookTypes
    <3> QED BY <3>1, <3>2, <3>3
  <2> QED BY <2>1, <2>2 DEF InstallLoadedOpenSslHooks
<1>2. HookTypes'
  BY <1>0, <1>1 DEF HookTypes, Before
<1>3. Opened' /\ Loaded'
  BY <1>0 DEF Opened, Loaded, Before
<1>4. Patches'
  BY <1>0 DEF Patches, Removed
<1>5. Active'
  BY <1>0 DEF Active, Listed, After
<1> QED BY <1>2, <1>3, <1>4, <1>5 DEF HookInv

LEMMA InstallKeeps ==
    ASSUME HookInv, NEW apis \in Seq(Apis), NEW from \in {"early", "late"}, NEW to \in {"openssl", "enable"},
           Install(apis, from, to)
    PROVE  HookInv'
<1>0. /\ HookTypes /\ Opened /\ Loaded /\ Patches /\ Active /\ installer = from
      /\ UNCHANGED <<patched, initialised, ssl, activated, lost, between>>
  BY DEF HookInv, Install, opensslHooks, ghosts
<1>1. CASE next > Len(apis)
  <2>1. /\ installer' = to /\ next' = 1 /\ UNCHANGED <<loaded, list, hooked>>
        /\ found' = IF to = "openssl" THEN loaded \cap SslModules ELSE found
    BY <1>1 DEF Install, modules
  <2>2. HookTypes'
    BY <1>0, <2>1 DEF HookTypes, Before
  <2>3. Opened' /\ Loaded'
    BY <1>0, <2>1 DEF Opened, Loaded, Before
  <2>4. Patches'
    BY <1>0, <2>1 DEF Patches, Removed
  <2>5. Active'
    BY <1>0, <2>1 DEF Active, Listed, After
  <2> QED BY <2>2, <2>3, <2>4, <2>5 DEF HookInv
<1>2. CASE ~(next > Len(apis))
  <2> SUFFICES ASSUME NEW f, f = apis[next] PROVE HookInv'
    OBVIOUS
  <2>1. /\ next' = next + 1 /\ loaded' = loaded \cup {ModuleOf(f)} /\ UNCHANGED <<installer, found>>
        /\ \/ list' = Append(list, [function |-> f, enabled |-> FALSE]) /\ hooked' = hooked \cup {f}
           \/ UNCHANGED <<list, hooked>>
    BY <1>2 DEF Install
  <2>2. f \in Functions /\ list \in Seq(Hook)
    <3>1. next \in Nat \ {0} /\ Len(apis) \in Nat
      BY <1>0 DEF HookTypes
    <3>2. next \in 1 .. Len(apis)
      BY <1>2, <3>1
    <3>3. apis[next] \in Apis
      BY <3>2
    <3> QED BY <1>0, <3>3 DEF HookTypes, Functions
  <2>3. initialised /\ installer \notin {"activate", "count", "installed"}
    BY <1>0 DEF Opened, Before
  <2>4. \A g : Hooking(g) => Hooking(g)'
    BY <1>0 DEF Hooking
  <2>5. next' \in Nat \ {0}
    BY <1>0, <2>1 DEF HookTypes
  <2>6. CASE list' = Append(list, [function |-> f, enabled |-> FALSE]) /\ hooked' = hooked \cup {f}
    <3>1. Grows(f) /\ Listed(f)'
      BY <2>2, <2>6, AppendGrows
    <3>2. Opened' /\ Loaded' /\ Patches' /\ Active'
      <4>1. f \in hooked' \ hooked => Listed(f)' /\ ModuleOf(f) \in loaded'
        BY <2>1, <3>1
      <4>2. loaded \subseteq loaded' /\ between \subseteq between'
        BY <1>0, <2>1
      <4>3. list' = list \/ (hooked' = hooked \cup {f} /\ initialised)
        BY <2>3, <2>6
      <4>4. UNCHANGED <<patched, initialised, lost, activated, installer>>
        BY <1>0, <2>1
      <4>5. installer = "activate" => hooked' \ between' \subseteq hooked
        BY <2>3
      <4>6. installer \in {"count", "installed"} /\ hooked' # hooked => Hooking(f)'
        BY <2>3
      <4>7. hooked' = hooked \cup {f} \/ (hooked' = hooked /\ list' = list)
        BY <2>6
      <4> QED BY <2>2, <2>4, <3>1, <4>1, <4>2, <4>3, <4>4, <4>5, <4>6, <4>7, GrowthKeeps
    <3>3. HookTypes'
      BY <1>0, <2>1, <2>2, <2>5, <2>6, <3>1 DEF HookTypes, Grows
    <3> QED BY <3>2, <3>3 DEF HookInv
  <2>7. CASE UNCHANGED <<list, hooked>>
    <3>1. HookTypes'
      BY <1>0, <2>1, <2>5, <2>7 DEF HookTypes
    <3>2. Opened' /\ Loaded' /\ Patches'
      BY <1>0, <2>1, <2>7 DEF Opened, Loaded, Patches
    <3>3. Active'
      BY <1>0, <2>1, <2>7 DEF Active, Listed, Hooking
    <3> QED BY <3>1, <3>2, <3>3 DEF HookInv
  <2> QED BY <2>1, <2>6, <2>7
<1> QED BY <1>1, <1>2

\* MinHook patches every hook it can reach before the first that it cannot.
LEMMA EnableAllKeeps == ASSUME HookInv, MH_EnableHook PROVE HookInv'
<1> DEFINE S == Switched(TRUE)
<1>0. /\ HookTypes /\ Opened /\ Loaded /\ Patches /\ Active
      /\ UNCHANGED <<loaded, initialised, hooked, ssl, activated, next, found, lost, between>>
      /\ installer = "enable" /\ installer' = IF Stuck(TRUE) = {} THEN "activate" ELSE "failed"
      /\ EnableAll(TRUE)
  BY DEF HookInv, MH_EnableHook, Goes, modules, opensslHooks, ghosts
<1>1. list \in Seq(Hook)
  BY <1>0 DEF HookTypes
<1>2. Flips(S, TRUE) /\ patched' = patched \cup FunctionsAt(S)
  BY <1>0, <1>1, EnableAllFlips
<1>3. S \subseteq DOMAIN list
  BY DEF Switched, Switch
<1>4. \A i \in S : list[i].function \in patched'
  BY <1>2 DEF FunctionsAt
<1>5. Stuck(TRUE) = {} => \A i \in DOMAIN list : i \in S \/ list[i].enabled = TRUE
  BY DEF Switched, Switch
<1>6. FunctionsAt(S) \subseteq Functions
  <2>1. \A i \in DOMAIN list : list[i].function \in Functions
    <3>1. \A i \in DOMAIN list : list[i] \in Hook
      BY <1>1
    <3>2. \A h \in Hook : h.function \in Functions
      BY DEF Hook
    <3> QED BY <3>1, <3>2
  <2> QED BY <1>3, <2>1 DEF FunctionsAt
<1> HIDE DEF S
<1>7. HookTypes'
  BY <1>0, <1>2, <1>6 DEF HookTypes, Flips, After
<1>8. Opened'
  BY <1>0, <1>2 DEF Opened, Flips, Before
<1>9. Loaded'
  BY <1>0 DEF Loaded
<1>10. Patches'
  <2>1. ASSUME lost = {}, NEW g \in patched'
        PROVE  \E i \in DOMAIN list' : list'[i].function = g /\ list'[i].enabled
    <3>1. CASE g \in patched
      <4>1. PICK i \in DOMAIN list : list[i].function = g /\ list[i].enabled
        BY <1>0, <2>1, <3>1 DEF Patches
      <4> QED BY <4>1, <1>2 DEF Flips
    <3>2. CASE g \in FunctionsAt(S)
      <4>1. PICK i \in S : list[i].function = g
        BY <3>2 DEF FunctionsAt
      <4> QED BY <4>1, <1>2, <1>3 DEF Flips
    <3> QED BY <1>2, <2>1, <3>1, <3>2
  <2>2. installer' \notin Removed
    BY <1>0 DEF Removed
  <2> QED BY <1>0, <2>1, <2>2 DEF Patches
<1>11. Active'
  <2>1. CASE Stuck(TRUE) = {}
    <3>1. installer' = "activate" /\ installer \notin After
      BY <1>0, <2>1 DEF After
    <3>2. \A g \in hooked \ lost : Listed(g)
      BY <1>0, <3>1 DEF Active
    <3>3. \A i \in DOMAIN list : list[i].function \in patched' \cup lost
      BY <1>0, <1>2, <1>4, <1>5, <2>1, <3>1 DEF Active
    <3>4. \A g \in hooked \ lost : Listed(g)' /\ g \in patched'
      BY <1>2, <3>2, <3>3 DEF Listed, Flips
    <3>5. \A i \in DOMAIN list' : list'[i].function \in patched' \cup lost
      BY <1>2, <3>3 DEF Flips
    <3> QED BY <1>0, <3>1, <3>4, <3>5 DEF Active
  <2>2. CASE Stuck(TRUE) # {}
    BY <1>0, <2>2 DEF Active, After
  <2> QED BY <2>1, <2>2
<1> QED BY <1>7, <1>8, <1>9, <1>10, <1>11 DEF HookInv

\* With nothing lost, no hook is stuck, and the code of every function is put back.
LEMMA NothingStuck ==
    ASSUME HookInv, lost = {}
    PROVE  Stuck(FALSE) = {} /\ patched \subseteq FunctionsAt(Switched(FALSE))
<1>0. HookTypes /\ Opened /\ Loaded /\ Patches
  BY DEF HookInv
<1>1. \A i \in DOMAIN list : ModuleOf(list[i].function) \in loaded
  BY <1>0 DEF Opened, Loaded
<1>2. Stuck(FALSE) = {}
  BY <1>1 DEF Stuck, Switch
<1>3. \A i \in DOMAIN list : list[i].enabled => i \in Switched(FALSE)
  BY <1>2 DEF Switched, Switch
<1>4. patched \subseteq FunctionsAt(Switched(FALSE))
  <2>1. ASSUME NEW g \in patched PROVE g \in FunctionsAt(Switched(FALSE))
    <3>1. PICK i \in DOMAIN list : list[i].function = g /\ list[i].enabled
      BY <1>0 DEF Patches
    <3>2. i \in Switched(FALSE)
      BY <1>3, <3>1
    <3> QED BY <3>1, <3>2 DEF FunctionsAt
  <2> QED BY <2>1
<1> QED BY <1>2, <1>4

LEMMA FlippedOpened ==
    ASSUME HookTypes, Opened, Loaded, NEW I, NEW enable, Flips(I, enable), installer' \in After,
           UNCHANGED <<loaded, initialised, hooked, lost>>
    PROVE  Opened' /\ Loaded'
<1>1. \A i \in DOMAIN list' : list'[i].function \in hooked'
  BY DEF Opened, Flips
<1>2. ~initialised => list' = <<>>
  <2> SUFFICES ASSUME list = <<>> PROVE list' = <<>>
    BY DEF Opened
  <2>1. list' \in Seq(Hook) /\ DOMAIN list' = {}
    BY DEF Flips
  <2> QED BY <2>1
<1>3. installer' \notin {"initialize", "activate", "count", "installed"} \cup Before
  BY DEF After, Before
<1>4. Opened'
  BY <1>1, <1>2, <1>3 DEF Opened
<1>5. Loaded'
  BY DEF Loaded
<1> QED BY <1>4, <1>5

LEMMA DisableAllKeeps == ASSUME HookInv, MH_DisableHook PROVE HookInv'
<1> DEFINE S == Switched(FALSE)
<1>0. /\ HookTypes /\ Opened /\ Loaded /\ Patches
      /\ UNCHANGED <<loaded, initialised, hooked, ssl, activated, next, found, lost, between>>
      /\ \/ installer = "disable" /\ installer' = "uninitialize"
         \/ installer = "disable failed" /\ installer' = "uninitialize failed"
      /\ EnableAll(FALSE)
  BY DEF HookInv, MH_DisableHook, Goes, modules, opensslHooks, ghosts
<1>1. list \in Seq(Hook)
  BY <1>0 DEF HookTypes
<1>2. Flips(S, FALSE) /\ patched' = patched \ FunctionsAt(S)
  BY <1>0, <1>1, EnableAllFlips
<1>3. lost = {} => patched' = {}
  BY <1>2, NothingStuck
<1> HIDE DEF S
<1>4. HookTypes'
  BY <1>0, <1>2 DEF HookTypes, Flips, After
<1>5. Opened' /\ Loaded'
  <2>1. installer' \in After
    BY <1>0 DEF After
  <2> QED BY <1>0, <1>2, <2>1, FlippedOpened
<1>6. Patches'
  BY <1>0, <1>3 DEF Patches, Removed
<1>7. Active'
  BY <1>0 DEF Active, After
<1> QED BY <1>4, <1>5, <1>6, <1>7 DEF HookInv

LEMMA UninitializeKeeps == ASSUME HookInv, MH_Uninitialize PROVE HookInv'
<1> DEFINE S == Switched(FALSE)
<1>0. /\ HookTypes /\ Opened /\ Loaded /\ Patches
      /\ UNCHANGED <<loaded, hooked, ssl, activated, next, found, lost, between>>
      /\ \/ installer = "uninitialize" /\ installer' = "removed"
         \/ installer = "uninitialize failed" /\ installer' = "stays"
      /\ Uninitialize
  BY DEF HookInv, MH_Uninitialize, Goes, modules, opensslHooks, ghosts
<1>1. list \in Seq(Hook)
  BY <1>0 DEF HookTypes
<1>2. CASE Stuck(FALSE) = {}
  <2>1. list' = <<>> /\ initialised' = FALSE /\ patched' = patched \ FunctionsAt(S)
    BY <1>0, <1>2 DEF Uninitialize, FunctionsAt
  <2>2. lost = {} => patched' = {}
    BY <2>1, NothingStuck
  <2> HIDE DEF S
  <2>0. installer' \in After
    BY <1>0 DEF After
  <2>3. HookTypes'
    <3>1. list' \in Seq(Hook)
      BY <2>1
    <3> QED BY <1>0, <2>0, <2>1, <3>1 DEF HookTypes
  <2>4. Opened' /\ Loaded'
    <3>1. installer' \notin {"initialize", "activate", "count", "installed"} \cup Before
      BY <2>0 DEF After, Before
    <3>2. Opened'
      BY <2>1, <3>1 DEF Opened
    <3> QED BY <1>0, <3>2 DEF Loaded
  <2>5. Patches'
    BY <1>0, <2>1, <2>2 DEF Patches
  <2>6. Active'
    BY <1>0 DEF Active, After
  <2> QED BY <2>3, <2>4, <2>5, <2>6 DEF HookInv
<1>3. CASE Stuck(FALSE) # {}
  <2>1. EnableAll(FALSE) /\ initialised' = initialised
    BY <1>0, <1>3 DEF Uninitialize
  <2>2. Flips(S, FALSE) /\ patched' = patched \ FunctionsAt(S)
    BY <1>1, <2>1, EnableAllFlips
  <2>3. lost # {}
    BY <1>3, NothingStuck
  <2> HIDE DEF S
  <2>4. HookTypes'
    BY <1>0, <2>1, <2>2 DEF HookTypes, Flips, After
  <2>5. Opened' /\ Loaded'
    <3>1. installer' \in After
      BY <1>0 DEF After
    <3> QED BY <1>0, <2>1, <2>2, <3>1, FlippedOpened
  <2>6. Patches' /\ Active'
    BY <1>0, <2>3 DEF Patches, Active, After
  <2> QED BY <2>4, <2>5, <2>6 DEF HookInv
<1> QED BY <1>2, <1>3

LEMMA LoadModuleKeeps == ASSUME HookInv, NEW t \in Loaders, NEW m \in Modules, LoadModule(t, m) PROVE HookInv'
<1>0. /\ HookTypes /\ Opened /\ Loaded /\ Patches /\ Active
      /\ UNCHANGED <<patched, list, initialised, hooked, activated, installer, next, found, lost, between>>
      /\ ssl[t] = Outside /\ loaded' = loaded \cup {m}
      /\ ssl' = ssl \/ (m \in SslModules /\ ssl' = [ssl EXCEPT ![t] = [at |-> "lock", module |-> m]])
  BY DEF HookInv, LoadModule, minhook, agentThread, ghosts
<1>1. ssl \in [Users -> SslPlace] /\ \A v \in Users : ssl[v].at # "out" => ssl[v].module \in SslModules
  BY <1>0 DEF HookTypes
<1>2. /\ ssl' \in [Users -> SslPlace]
      /\ \A v \in Users : ssl'[v].at # "out" => ssl'[v].module \in SslModules
      /\ \A v \in Users : v # t => ssl'[v] = ssl[v]
  <2>1. CASE ssl' = ssl
    BY <1>1, <2>1
  <2>2. CASE m \in SslModules /\ ssl' = [ssl EXCEPT ![t] = [at |-> "lock", module |-> m]]
    <3>1. [at |-> "lock", module |-> m] \in SslPlace /\ t \in Users
      BY <2>2 DEF SslPlace, Users
    <3> QED BY <1>1, <2>2, <3>1
  <2> QED BY <1>0, <2>1, <2>2
<1>3. \A g : Hooking(g) => Hooking(g)'
  <2>1. ssl[t].at = "out"
    BY <1>0 DEF Outside
  <2> QED BY <1>2, <2>1 DEF Hooking
<1>4. HookTypes'
  BY <1>0, <1>2 DEF HookTypes
<1>5. Opened' /\ Loaded' /\ Patches'
  BY <1>0 DEF Opened, Loaded, Patches
<1>6. Active'
  BY <1>0, <1>3 DEF Active, Listed
<1> QED BY <1>4, <1>5, <1>6 DEF HookInv

\* What is hooked in a module that goes is lost; what is patched there goes with it.
LEMMA UnloadModuleKeeps == ASSUME HookInv, NEW m \in Modules, UnloadModule(m) PROVE HookInv'
<1>0. /\ HookTypes /\ Opened /\ Loaded /\ Patches /\ Active
      /\ UNCHANGED <<list, initialised, hooked, ssl, activated, installer, next, found, between>>
      /\ loaded' = loaded \ {m} /\ patched' = {f \in patched : ModuleOf(f) # m}
      /\ lost' = lost \cup {f \in hooked : ModuleOf(f) = m}
  BY DEF HookInv, UnloadModule, opensslHooks, agentThread
<1>1. HookTypes'
  BY <1>0 DEF HookTypes
<1>2. Opened' /\ Loaded'
  BY <1>0 DEF Opened, Loaded
<1>3. Patches'
  BY <1>0 DEF Patches
<1>4. Active'
  <2> SUFFICES ASSUME installer \notin After PROVE Active'
    BY <1>0 DEF Active
  <2>1. \A g \in hooked \ lost' : g \in hooked \ lost /\ (g \in patched => g \in patched')
    BY <1>0
  <2>2. \A g \in hooked \ lost' : Listed(g)'
    BY <1>0, <2>1 DEF Active, Listed
  <2>3. \A i \in DOMAIN list : list[i].enabled => list[i].function \in patched' \cup lost'
    BY <1>0 DEF Active, Opened
  <2>4. installer = "activate" => \A g \in hooked \ (lost' \cup between) : g \in patched'
    BY <1>0, <2>1 DEF Active
  <2>5. installer \in {"count", "installed"} =>
           activated /\ \A g \in hooked \ (lost' \cup between) : g \in patched' \/ Hooking(g)'
    BY <1>0, <2>1 DEF Active, Hooking
  <2> QED BY <1>0, <2>2, <2>3, <2>4, <2>5 DEF Active
<1> QED BY <1>1, <1>2, <1>3, <1>4 DEF HookInv

LEMMA HookInvStep == HookInv /\ [HookNext]_hookVars => HookInv'
<1> SUFFICES ASSUME HookInv, [HookNext]_hookVars PROVE HookInv'
  OBVIOUS
<1>1. ASSUME NEW u \in Users, TryInstallOpenSslHooks(u) PROVE HookInv'
  BY <1>1, SslLockKeeps, SslCreateKeeps, SslLookKeeps, SslEnableKeeps DEF TryInstallOpenSslHooks
<1>2. CASE Install(EarlyApis, "early", "openssl") \/ Install(LateApis, "late", "enable")
  <2>1. EarlyApis \in Seq(Apis) /\ LateApis \in Seq(Apis)
    BY HookAssumption
  <2> QED BY <1>2, <2>1, InstallKeeps
<1>3. CASE Activate \/ CountHooks \/ Deactivate \/ UnloadAgent
  <2>1. UNCHANGED <<loaded, patched, list, initialised, hooked, ssl, lost, between, next, found>>
    BY <1>3 DEF Activate, CountHooks, Deactivate, UnloadAgent, modules, minhook, opensslHooks, ghosts
  <2>2. \/ installer = "activate" /\ installer' = "count" /\ activated' = TRUE
        \/ installer = "count" /\ installer' \in {"installed", "failed"} /\ activated' = activated
        \/ installer \in {"installed", "failed"} /\ installer' \in {"disable", "disable failed"} /\ activated' = FALSE
        \/ installer = "removed" /\ installer' = "unloaded" /\ activated' = activated
    BY <1>3 DEF Activate, CountHooks, Deactivate, UnloadAgent, Goes
  <2> QED BY <2>1, <2>2, InstallerGoes
<1>4. CASE AgentsThread
  <2>1. Installer \in Users
    BY DEF Users
  <2> QED BY <1>1, <1>2, <1>3, <1>4, <2>1, InitializeKeeps, OpenSslKeeps, EnableAllKeeps, DisableAllKeeps,
             UninitializeKeeps DEF AgentsThread
<1>5. ASSUME NEW t \in Loaders, TryInstallOpenSslHooks(t) \/ \E m \in Modules : LoadModule(t, m) PROVE HookInv'
  <2>1. t \in Users
    BY DEF Users
  <2> QED BY <1>1, <1>5, <2>1, LoadModuleKeeps
<1>6. CASE \E m \in Modules : UnloadModule(m)
  BY <1>6, UnloadModuleKeeps
<1>7. CASE UNCHANGED hookVars
  <2>1. UNCHANGED <<loaded, patched, list, initialised, hooked, ssl, activated, installer, next, found, lost, between>>
    BY <1>7 DEF hookVars, modules, minhook, opensslHooks, agentThread, ghosts
  <2>2. HookTypes' /\ Opened'
    BY <2>1 DEF HookInv, HookTypes, Opened
  <2>3. Loaded' /\ Patches' /\ Active'
    BY <2>1 DEF HookInv, Loaded, Patches, Active, Listed, Hooking
  <2> QED BY <2>2, <2>3 DEF HookInv
<1> QED BY <1>4, <1>5, <1>6, <1>7 DEF HookNext

\* Whichever modules come and go, and whoever hooks them, MinHook's list and the
\* code of the functions agree as HookInv says.
THEOREM HookInvHolds == HookSpec => []HookInv
BY HookInvInit, HookInvStep, PTL DEF HookSpec

\* What the invariant says of the installed hooks, and of the removed ones.
LEMMA HookInvActive == HookInv => HookedIsActive
<1> SUFFICES ASSUME HookInv, installer = "installed", NEW f \in hooked \ (lost \cup between)
             PROVE  f \in patched \/ \E u \in Users : ssl[u].module = ModuleOf(f)
  BY DEF HookedIsActive
<1>1. f \in patched \/ Hooking(f)
  BY DEF HookInv, Active, After
<1>2. Hooking(f) => \E u \in Users : ssl[u].module = ModuleOf(f)
  BY DEF Hooking, Ssl, ModuleOf
<1> QED BY <1>1, <1>2
LEMMA HookInvRemoved == HookInv => RemovalComplete
BY DEF HookInv, Opened, Patches, Removed, RemovalComplete

\* "Hooked" is true once InstallHooks has succeeded.
THEOREM HookedIsActiveHolds == HookSpec => []HookedIsActive
BY HookInvActive, HookInvHolds, PTL

\* Once RemoveHooks has returned nothing leads into the agent.
THEOREM RemovalCompleteHolds == HookSpec => []RemovalComplete
BY HookInvRemoved, HookInvHolds, PTL

-----------------------------------------------------------------------------
\* What holds of each half holds of the two composed, where a step of one half
\* leaves the other's variables alone.
THEOREM HalvesHold ==
    HalfSpec => [](WholeMessages /\ ServedMeansTracing /\ NothingMissed /\ HookedIsActive /\ RemovalComplete)
<1> DEFINE Inv == IInv /\ Callers /\ Numbered /\ HookInv
<1>1. HalfInit => Inv
  BY IInvInit, CallersInit, HookInvInit DEF HalfInit
<1>2. Inv /\ [HalfNext]_halfVars => Inv'
  <2> SUFFICES ASSUME Inv, [HalfNext]_halfVars PROVE Inv'
    OBVIOUS
  <2>1. [Next]_vars /\ [HookNext]_hookVars
    BY DEF HalfNext, halfVars
  <2> QED BY <2>1, IInvStep, CallersStep, NumberedStep, HookInvStep
<1>3. Inv => WholeMessages /\ ServedMeansTracing /\ NothingMissed /\ HookedIsActive /\ RemovalComplete
  <2>1. IInv => WholeMessages /\ ServedMeansTracing
    BY DEF IInv, Stages, ServedMeansTracing, Told, ServerOpen
  <2>2. Numbered => NothingMissed
    BY DEF Numbered
  <2> QED BY <2>1, <2>2, HookInvActive, HookInvRemoved
<1> QED BY <1>1, <1>2, <1>3, PTL DEF HalfSpec

=============================================================================
