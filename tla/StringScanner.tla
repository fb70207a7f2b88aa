---------------------------- MODULE StringScanner ----------------------------
(***************************************************************************)
(* The recovery of strings from the memory of the target, in               *)
(* src/src/controller/gui.cpp: StartRuntimeStringScanner,                  *)
(* StopRuntimeStringScanner, ScanRuntimeStringMemory,                      *)
(* and MergeRecoveredStrings.                                              *)
(*                                                                         *)
(* A launch takes a new token, clears the table, hashes every chunk of the *)
(* still suspended target as a baseline and leaves a detached scanner      *)
(* behind, which reads the changed chunks until the target or the token    *)
(* ends.  Nobody waits for a scanner, so one of an earlier launch may run  *)
(* beside that of the present one; the token is all that keeps them apart, *)
(* and MergeRecoveredStrings looks at it before it takes the lock.         *)
(*                                                                         *)
(* A scanner is named by its token.  A chunk is its number, its bytes are  *)
(* one content and stand for the strings in them.                          *)
(***************************************************************************)
EXTENDS Naturals, FiniteSets

CONSTANTS
    MaxToken,           \* bounds the starts and stops
    NChunks,            \* chunks of memory
    ExecutableChunks,   \* those on executable pages
    Contents, Loaded,   \* what a chunk may hold, and holds before the target runs
    PassLimit,          \* kMaximumBytesPerPass, in chunks
    MaxRows             \* kMaximumRecoveredStrings

ASSUME ScannerAssumption ==
    /\ MaxToken \in Nat /\ Loaded \in Contents
    /\ NChunks \in Nat /\ ExecutableChunks \subseteq 1 .. NChunks
    /\ PassLimit \in Nat /\ MaxRows \in Nat

Tokens == 1 .. MaxToken
Chunks == 1 .. NChunks
Unread == "no hash"
Rows == [token : Tokens, chunk : Chunks, content : Contents]

VARIABLES
    token,              \* g_RuntimeStringScannerToken
    executableOnly,     \* g_RuntimeStringsExecutableOnly
    table,              \* g_RecoveredStrings with g_RecoveredStringIndex
    start,              \* the launch: its token and how far its start is
    process, memory,    \* of each token: the target that was launched with it
    scanner,            \* of each token: what its scanner does next
    chunk, bytes,       \* of each token: the place and the amount of this pass
    hashes, recovered   \* of each token: chunkHashes and recovered

passVars == <<scanner, chunk, bytes, hashes, recovered>>
targetVars == <<process, memory>>
scannerVars ==
    <<token, executableOnly, table, start, targetVars, passVars>>

ScannerInit ==
    /\ token = 0 /\ executableOnly \in BOOLEAN /\ table = {}
    /\ start = [token |-> 0, at |-> "idle"]
    /\ process = [t \in Tokens |-> "none"]
    /\ memory = [t \in Tokens |-> [c \in Chunks |-> Loaded]]
    /\ scanner = [t \in Tokens |-> "none"]
    /\ chunk = [t \in Tokens |-> 1] /\ bytes = [t \in Tokens |-> 0]
    /\ hashes = [t \in Tokens |-> [c \in Chunks |-> Unread]]
    /\ recovered = [t \in Tokens |-> {}]

\* Variant of Current: the token is not compared.
CurrentAlways(t) == t \in Tokens

Current(t) == token = t

-----------------------------------------------------------------------------
(* The launch worker, from the suspended target to its resumption.         *)

\* StopRuntimeStringScanner, by whoever ends the target, and before a launch.
StopRuntimeStringScanner ==
    /\ token < MaxToken
    /\ token' = token + 1
    /\ UNCHANGED <<executableOnly, table, start, targetVars, passVars>>

StartRuntimeStringScanner ==
    /\ start.at = "idle" /\ token < MaxToken
    /\ token' = token + 1
    /\ start' = [token |-> token + 1, at |-> "clear"]
    /\ process' = [process EXCEPT ![token + 1] = "suspended"]
    /\ UNCHANGED <<executableOnly, table, memory, passVars>>
ClearTable ==
    /\ start.at = "clear"
    /\ table' = {} /\ start' = [start EXCEPT !.at = "open"]
    /\ UNCHANGED <<token, executableOnly, targetVars, passVars>>
\* OpenProcess, which may fail, and the baseline pass.
OpenTarget ==
    /\ start.at = "open"
    /\ \/ scanner' = [scanner EXCEPT ![start.token] = "baseline"]
       \/ UNCHANGED scanner
    /\ start' = [start EXCEPT !.at = "resume"]
    /\ UNCHANGED <<token, executableOnly, table, targetVars, chunk, bytes, hashes, recovered>>
\* The launch goes on when the baseline is done; a target that cannot be
\* resumed is terminated and its scanner stopped.
ResumeTarget ==
    /\ start.at = "resume" /\ scanner[start.token] # "baseline"
    /\ \/ /\ process[start.token] = "suspended"
          /\ process' = [process EXCEPT ![start.token] = "running"]
          /\ UNCHANGED token
       \/ /\ token < MaxToken
          /\ process' = [process EXCEPT ![start.token] = "gone"]
          /\ token' = token + 1
    /\ start' = [start EXCEPT !.at = "idle"]
    /\ UNCHANGED <<executableOnly, table, memory, passVars>>

-----------------------------------------------------------------------------
(* ScanRuntimeStringMemory, of the baseline and of the scanner's thread.   *)

Scanning(t) == scanner[t] \in {"baseline", "scan"}
AllRead(t) == chunk[t] \notin Chunks \/ bytes[t] >= PassLimit
\* The token is looked at before every region, and a region may have many chunks.
GoesOn(t) == ~AllRead(t) /\ (Current(t) \/ chunk[t] > 1)
NextChunk(t) == chunk' = [chunk EXCEPT ![t] = @ + 1]
Alive(t) == process[t] \in {"suspended", "running"}

\* Variant of SkipChunk: a chunk that is left out is hashed.
SkipChunkHashed(t) ==
    /\ Scanning(t) /\ GoesOn(t)
    /\ executableOnly /\ chunk[t] \notin ExecutableChunks
    /\ hashes' = [hashes EXCEPT ![t][chunk[t]] = memory[t][chunk[t]]]
    /\ NextChunk(t)
    /\ UNCHANGED <<token, executableOnly, table, start, targetVars, scanner, bytes, recovered>>

\* A page that is not executable, when only those are asked for.
SkipChunk(t) ==
    /\ Scanning(t) /\ GoesOn(t)
    /\ executableOnly /\ chunk[t] \notin ExecutableChunks
    /\ NextChunk(t)
    /\ UNCHANGED <<token, executableOnly, table, start, targetVars, scanner, bytes, hashes,
                   recovered>>
\* A chunk that is read counts, and one that cannot be read counts too.
ReadChunk(t) ==
    LET c == chunk[t]
        content == memory[t][c]
        changed == hashes[t][c] # content
    IN  /\ Scanning(t) /\ GoesOn(t)
        /\ executableOnly => c \in ExecutableChunks
        /\ bytes' = [bytes EXCEPT ![t] = @ + 1]
        /\ NextChunk(t)
        /\ IF Alive(t)
           THEN /\ hashes' = [hashes EXCEPT ![t][c] = content]
                /\ recovered' = IF changed /\ scanner[t] = "scan"
                                THEN [recovered EXCEPT ![t] = @ \cup
                                        {[token |-> t, chunk |-> c, content |-> content]}]
                                ELSE recovered
           ELSE UNCHANGED <<hashes, recovered>>
        /\ UNCHANGED <<token, executableOnly, table, start, targetVars, scanner>>

\* The baseline becomes a scanner; a pass of a scanner is merged.
EndPass(t) ==
    /\ Scanning(t) /\ (AllRead(t) \/ ~Current(t))
    /\ scanner' = [scanner EXCEPT ![t] = IF @ = "baseline" THEN "loop" ELSE "merge"]
    /\ chunk' = [chunk EXCEPT ![t] = 1] /\ bytes' = [bytes EXCEPT ![t] = 0]
    /\ UNCHANGED <<token, executableOnly, table, start, targetVars, hashes, recovered>>

\* MergeRecoveredStrings under its lock, for rows that passed the look at the token.
Merged(rows) ==
    LET new == rows \ table
    IN  {table \cup s : s \in {s \in SUBSET new :
                                  \/ s = new /\ Cardinality(table \cup s) <= MaxRows
                                  \/ s # new /\ Cardinality(table \cup s) = MaxRows}}

\* Rows that come too late are dropped with the pass.
MergeLook(t) ==
    /\ scanner[t] = "merge"
    /\ IF recovered[t] = {} \/ ~Current(t)
       THEN /\ scanner' = [scanner EXCEPT ![t] = "loop"]
            /\ recovered' = [recovered EXCEPT ![t] = {}]
       ELSE /\ scanner' = [scanner EXCEPT ![t] = "merging"]
            /\ UNCHANGED recovered
    /\ UNCHANGED <<token, executableOnly, table, start, targetVars, chunk, bytes, hashes>>
MergeRecoveredStrings(t) ==
    /\ scanner[t] = "merging"
    /\ table' \in Merged(recovered[t])
    /\ scanner' = [scanner EXCEPT ![t] = "loop"]
    /\ recovered' = [recovered EXCEPT ![t] = {}]
    /\ UNCHANGED <<token, executableOnly, start, targetVars, chunk, bytes, hashes>>

\* The scanner's thread makes a pass, or ends with its token or its target.
ScannerLoop(t) ==
    /\ scanner[t] = "loop"
    /\ IF Current(t) /\ Alive(t)
       THEN /\ scanner' = [scanner EXCEPT ![t] = "scan"]
            /\ UNCHANGED hashes
       ELSE /\ scanner' = [scanner EXCEPT ![t] = "ended"]
            /\ hashes' = [hashes EXCEPT ![t] = [c \in Chunks |-> Unread]]
    /\ UNCHANGED <<token, executableOnly, table, start, targetVars, chunk, bytes, recovered>>

Scan(t) ==
    \/ SkipChunk(t) \/ ReadChunk(t) \/ EndPass(t)
    \/ MergeLook(t) \/ MergeRecoveredStrings(t) \/ ScannerLoop(t)

-----------------------------------------------------------------------------
(* The target, and the check box of the strings view.                      *)

TargetWrites(t) ==
    /\ process[t] = "running"
    /\ \E c \in Chunks, v \in Contents : memory' = [memory EXCEPT ![t][c] = v]
    /\ UNCHANGED <<token, executableOnly, table, start, process, passVars>>
TargetEnds(t) ==
    /\ Alive(t)
    /\ process' = [process EXCEPT ![t] = "gone"]
    /\ memory' = [memory EXCEPT ![t] = [c \in Chunks |-> Loaded]]
    /\ UNCHANGED <<token, executableOnly, table, start, passVars>>
ToggleExecutableOnly ==
    /\ executableOnly' = ~executableOnly
    /\ UNCHANGED <<token, table, start, targetVars, passVars>>

ScannerNext ==
    \/ StopRuntimeStringScanner \/ StartRuntimeStringScanner
    \/ ClearTable \/ OpenTarget \/ ResumeTarget
    \/ \E t \in Tokens : Scan(t) \/ TargetWrites(t) \/ TargetEnds(t)
    \/ ToggleExecutableOnly

ScannerFairness == \A t \in Tokens : WF_scannerVars(Scan(t))

-----------------------------------------------------------------------------
ScannerTypeOK ==
    /\ token \in 0 .. MaxToken /\ executableOnly \in BOOLEAN
    /\ table \subseteq Rows /\ Cardinality(table) <= MaxRows
    /\ start \in [token : 0 .. MaxToken, at : {"idle", "clear", "open", "resume"}]
    /\ process \in [Tokens -> {"none", "suspended", "running", "gone"}]
    /\ memory \in [Tokens -> [Chunks -> Contents]]
    /\ scanner \in [Tokens -> {"none", "baseline", "loop", "scan", "merge", "merging", "ended"}]
    /\ chunk \in [Tokens -> 1 .. NChunks + 1]
    /\ bytes \in [Tokens -> 0 .. PassLimit]
    /\ hashes \in [Tokens -> [Chunks -> Contents \cup {Unread}]]
    /\ recovered \in [Tokens -> SUBSET Rows]

\* A scanner that a later launch has left behind puts at most one pass more into
\* the later one's table, the one that was past its look at the token: there are
\* never two contents of one of its chunks, and none when it has ended before.
OneLateMerge ==
    start.at # "clear" =>
        \A x, y \in table :
            /\ x.token < start.token
            /\ x.chunk = y.chunk /\ x.token = y.token
            => x = y

\* What the running target writes and lets stand gets into the table, unless the
\* table is full, the place lies beyond what one pass reads, or its page is left
\* out by the check box.
WhatStandsIsRecovered ==
    \A t \in Tokens, c \in {c \in Chunks : c <= PassLimit}, v \in Contents \ {Loaded} :
        <>[](/\ Current(t) /\ scanner[t] \notin {"none", "baseline"}
             /\ process[t] = "running" /\ memory[t][c] = v
             /\ executableOnly => c \in ExecutableChunks)
        => <>[](\/ [token |-> t, chunk |-> c, content |-> v] \in table
                \/ Cardinality(table) = MaxRows)

\* A scanner whose token has passed ends, whatever its target does.
PassedScannersEnd ==
    \A t \in Tokens : (token > t /\ scanner[t] # "none") ~> (scanner[t] = "ended")

=============================================================================
