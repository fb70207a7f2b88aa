--------------------------- MODULE ProcessActivity ---------------------------
(***************************************************************************)
(* How the Process Activity view joins what it knows of the beginning and  *)
(* the end of a process from two sources (BuildProcessActivitySnapshot in  *)
(* gui.cpp): the calls that the target's hooks report, and the kernel's    *)
(* ETW events.  An ETW event goes to the first row of a call with its pid  *)
(* and nearly its time, and makes a row of its own when there is none.     *)
(*                                                                         *)
(* A hook stamps its report when it sends it: that of CreateProcess after  *)
(* the agent's own injection into the child, which may last five seconds   *)
(* (InjectAgentIntoProcess in hooks.cpp); an ETW event has the time of     *)
(* what it speaks of.  Pids are used again.                                *)
(*                                                                         *)
(* Left out: names and command lines, rows of other kinds, terminations    *)
(* that fail or are asked for twice, exits that the controller itself saw, *)
(* and the settings that keep ETW events out of the view.                  *)
(***************************************************************************)
EXTENDS Integers, Sequences, FiniteSets

CONSTANTS
    RowPids,         \* pids
    Window,          \* two seconds, in the clock's units
    MaxClock,        \* bound: time that passes
    MaxProcesses     \* bound: processes that are created

NoRowPid == 0

ASSUME ProcessAssumption ==
    /\ NoRowPid \notin RowPids
    /\ Window \in Nat /\ MaxClock \in Nat /\ MaxProcesses \in Nat

VARIABLES
    clock,
    processes,       \* the processes created so far: pid, and whether it runs
    creating,        \* those whose creating call has not been reported
    called,          \* g_Events: kind, pid, stamp; of: the process it is about
    kernel           \* g_EtwEvents: the same

processVars == <<clock, processes, creating, called, kernel>>

ProcessInit ==
    /\ clock = 0 /\ processes = <<>> /\ creating = {}
    /\ called = <<>> /\ kernel = <<>>

-----------------------------------------------------------------------------
(* The view.                                                               *)

Apart(a, b) == IF a > b THEN a - b ELSE b - a

\* A row of the view; about: the processes that it tells of.
Row(e, etw) == [kind |-> e.kind, pid |-> e.pid, at |-> e.at, fromEtw |-> etw, about |-> {e.of}]

\* Variant of Matches: the time is not compared.
MatchesAnyTime(row, e) == row.kind = e.kind /\ row.pid = e.pid /\ ~row.fromEtw
Matches(row, e) ==
    row.kind = e.kind /\ row.pid = e.pid /\ ~row.fromEtw /\ Apart(row.at, e.at) <= Window

MergeEtw(rows, e) ==
    LET matching == {i \in DOMAIN rows : Matches(rows[i], e)}
        first == CHOOSE i \in matching : \A j \in matching : i <= j
    IN  IF matching = {} THEN Append(rows, Row(e, TRUE))
        ELSE [rows EXCEPT ![first].about = @ \cup {e.of}]

Rows ==
    LET merged[n \in 0..Len(kernel)] ==
            IF n = 0 THEN [i \in DOMAIN called |-> Row(called[i], FALSE)]
            ELSE MergeEtw(merged[n - 1], kernel[n])
    IN  merged[Len(kernel)]

-----------------------------------------------------------------------------
(* What happens, and what is reported of it.                               *)

Event(kind, pid, of) == [kind |-> kind, pid |-> pid, at |-> clock, of |-> of]
Runs(p) == \E n \in DOMAIN processes : processes[n] = [pid |-> p, runs |-> TRUE]
Traced(traced, e) == kernel' = IF traced THEN Append(kernel, e) ELSE kernel

\* A process is created by a hooked call, which is under way, or by another.
CreateProcess(p, hooked, traced) ==
    LET n == Len(processes) + 1
    IN  /\ n <= MaxProcesses /\ ~Runs(p)
        /\ processes' = Append(processes, [pid |-> p, runs |-> TRUE])
        /\ creating' = IF hooked THEN creating \cup {n} ELSE creating
        /\ Traced(traced, Event("start", p, n))
        /\ UNCHANGED <<clock, called>>

\* WinExec and ShellExecute do not say which process they have created.
ReportCreation(n, named) ==
    /\ n \in creating /\ creating' = creating \ {n}
    /\ called' = Append(called, Event("start", IF named THEN processes[n].pid ELSE NoRowPid, n))
    /\ UNCHANGED <<clock, processes, kernel>>

\* A process reports that it is about to end; that another has ended it is
\* reported afterwards.
ReportEnd(n) ==
    /\ \A i \in DOMAIN called : called[i].of = n => called[i].kind # "stop"
    /\ called' = Append(called, Event("stop", processes[n].pid, n))
    /\ UNCHANGED <<clock, processes, creating, kernel>>

EndProcess(n, traced) ==
    /\ processes[n].runs
    /\ processes' = [processes EXCEPT ![n].runs = FALSE]
    /\ Traced(traced, Event("stop", processes[n].pid, n))
    /\ UNCHANGED <<clock, creating, called>>

Tick == clock < MaxClock /\ clock' = clock + 1 /\ UNCHANGED <<processes, creating, called, kernel>>

ProcessNext ==
    \/ \E p \in RowPids, hooked, traced \in BOOLEAN : CreateProcess(p, hooked, traced)
    \/ \E n \in DOMAIN processes :
          \/ \E named \in BOOLEAN : ReportCreation(n, named)
          \/ ReportEnd(n)
          \/ \E traced \in BOOLEAN : EndProcess(n, traced)
    \/ Tick

ProcessSpec == ProcessInit /\ [][ProcessNext]_processVars

-----------------------------------------------------------------------------
\* The times at which a beginning or an end is known with its pid.
Times(kind, n) ==
    LET known(s) == {s[i].at : i \in {j \in DOMAIN s :
                        s[j].kind = kind /\ s[j].of = n /\ s[j].pid # NoRowPid}}
    IN  known(called) \cup known(kernel)

Distinct(kind, n) ==
    /\ \A a, b \in Times(kind, n) : Apart(a, b) <= Window
    /\ \A m \in DOMAIN processes \ {n} :
          processes[m].pid = processes[n].pid =>
              \A a \in Times(kind, n), b \in Times(kind, m) : Apart(a, b) > Window

\* The beginning, or the end, of a process that either source tells of stands
\* in one row of the Process Activity view, and alone, however late the other
\* source is; only a call that is reported more than two seconds after it, and
\* a pid that begins or ends twice within two seconds, may break that.
OneRowPerProcess ==
    LET rows == Rows
    IN  \A n \in DOMAIN processes, kind \in {"start", "stop"} :
            Times(kind, n) # {} /\ Distinct(kind, n) =>
                \E i \in DOMAIN rows :
                    /\ rows[i].kind = kind /\ rows[i].about = {n}
                    /\ \A j \in DOMAIN rows :
                          rows[j].kind = kind /\ rows[j].pid # NoRowPid /\ n \in rows[j].about
                              => i = j

=============================================================================
