---------------------------- MODULE SessionHistory ----------------------------
(***************************************************************************)
(* What an analysis session promises to the views and reports that read it: *)
(* the process tree is a history.  Rows are only ever added at the end, a   *)
(* row that is no root is added below a row already there and for a pid     *)
(* that no live row has, and an exit is recorded once and for good.  Only a *)
(* new session or an import replaces the history, and an import brings back *)
(* exactly what was saved.                                                  *)
(***************************************************************************)
EXTENDS Naturals, Sequences

CONSTANTS Pids, NoPid

VARIABLES history,  \* rows [pid, parentPid, exited]
          saved     \* the history in the exported file

Rows == [pid: Pids, parentPid: Pids \cup {NoPid}, exited: BOOLEAN]

LiveIn(rows, pid) == \E i \in DOMAIN rows : rows[i].pid = pid /\ ~rows[i].exited
KnownIn(rows, pid) == \E i \in DOMAIN rows : rows[i].pid = pid

Init == history = <<>> /\ saved = <<>>

Start == history' = <<>> /\ UNCHANGED saved

AddRoot(pid) ==
    /\ history' = Append(history, [pid |-> pid, parentPid |-> NoPid, exited |-> FALSE])
    /\ UNCHANGED saved

AddChild(pid, parent) ==
    /\ KnownIn(history, parent)
    /\ ~LiveIn(history, pid)
    /\ history' = Append(history, [pid |-> pid, parentPid |-> parent, exited |-> FALSE])
    /\ UNCHANGED saved

Exit(i) ==
    /\ ~history[i].exited
    /\ history' = [history EXCEPT ![i].exited = TRUE]
    /\ UNCHANGED saved

Save == saved' = history /\ UNCHANGED history

Load == history' = saved /\ UNCHANGED saved

Next ==
    \/ Start
    \/ Save
    \/ Load
    \/ \E pid \in Pids : AddRoot(pid)
    \/ \E pid, parent \in Pids : AddChild(pid, parent)
    \/ \E i \in DOMAIN history : Exit(i)

vars == <<history, saved>>

Spec == Init /\ [][Next]_vars
=============================================================================
