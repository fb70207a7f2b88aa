----------------------- MODULE ProcessTreeManagerProofs -----------------------
(***************************************************************************)
(* Proofs about ProcessTreeManager, for every set of pids, every number of  *)
(* rows and every number of sessions.                                       *)
(*                                                                         *)
(* The rows are changed in three ways only: replaced as a whole (by nothing *)
(* or by the exported rows), extended at the end, or changed in one row     *)
(* that keeps its pid, parent and relationship.  The inductive invariant    *)
(* says of the exported rows what it says of the live ones, because Import  *)
(* may bring them back at any time.                                         *)
(***************************************************************************)
EXTENDS ProcessTreeManager, TLAPS

\* What holds of one row, of the rows together, and of rows and pids.
RowGood(row) ==
    /\ row.status = "pending" => ~row.exited
    /\ row.monitored <=> row.status = "injected"

RowsGood(rows) ==
    /\ \A i \in DOMAIN rows : RowGood(rows[i])
    /\ Rooted(rows)
    /\ OneLiveRowPerPid(rows)

IInv ==
    /\ TypeOK
    /\ RowsGood(nodes)
    /\ RowsGood(exported.nodes)
    /\ MonitoredAgrees
    /\ ExitedAgrees

-----------------------------------------------------------------------------
\* Every initial state has the types.
LEMMA InitTypeOK == Init => TypeOK
<1>1. <<>> \in Seq(Node)
  OBVIOUS
<1> QED
  <2>1. Init => generation \in Nat
    BY DEF Init
  <2>2. Init => exported \in Saved
    BY <1>1 DEF Init, Saved
  <2> QED
    BY <1>1, <2>1, <2>2 DEF Init, TypeOK

\* Every step keeps the types.
LEMMA NextTypeOK == TypeOK /\ [Next]_vars => TypeOK'
<1> SUFFICES ASSUME TypeOK, [Next]_vars PROVE TypeOK'
  OBVIOUS
<1> USE PidAssumption, EnumAssumption
<1>1. CASE BeginSession
  BY <1>1 DEF BeginSession, ClearSession, TypeOK
<1>2. CASE LaunchFailed
  BY <1>2 DEF LaunchFailed, TypeOK, ids, sets
<1>3. CASE StopSession
  BY <1>3 DEF StopSession, TypeOK, ids, sets
<1>4. CASE Reset
  <2>1. nodes' \in Seq(Node)
    BY <1>4 DEF Reset, ClearSession
  <2> QED
    BY <1>4, <2>1 DEF Reset, ClearSession, TypeOK
<1>5. CASE Export
  <2>1. \A n \in Node : [n EXCEPT !.exitWatchStarted = FALSE] \in Node
    BY DEF Node
  <2>2. [i \in DOMAIN nodes |-> [nodes[i] EXCEPT !.exitWatchStarted = FALSE]] \in Seq(Node)
    BY <2>1 DEF TypeOK
  <2> QED
    BY <1>5, <2>2 DEF Export, TypeOK, Saved, ids, sets
<1>6. CASE Restore
  <2>1. exported \in Saved /\ exported.nodes \in Seq(Node)
    BY DEF TypeOK, Saved
  <2>2. \A i \in DOMAIN exported.nodes : exported.nodes[i].pid \in Pids
    <3>1. \A n \in Node : n.pid \in Pids
      BY DEF Node
    <3> QED
      BY <2>1, <3>1
  <2>3. monitoredPids' \subseteq Pids /\ exitedPids' \subseteq Pids
    BY <1>6, <2>2 DEF Restore, PidsWith
  <2> QED
    BY <1>6, <2>1, <2>3 DEF Restore, TypeOK, Saved
<1>7. ASSUME NEW pid \in Pids, NEW instrumented \in BOOLEAN, NEW launcherOnly \in BOOLEAN,
             RegisterRoot(pid, launcherOnly, instrumented)
      PROVE  TypeOK'
  <2>2. PICK n \in Node : nodes' = Append(nodes, n)
    BY <1>7 DEF RegisterRoot, Node, Statuses, Relationships
  <2>3. nodes' \in Seq(Node)
    BY <2>2 DEF TypeOK
  <2> QED
    BY <1>7, <2>3 DEF RegisterRoot, TypeOK
<1>8. ASSUME NEW child \in Pids, NEW parent \in Pids, NEW d \in Decisions,
             ObserveKnownChild(child, parent, d)
      PROVE  TypeOK'
  <2>1. \A n \in Node : Observed(n, d) \in Node
    BY DEF Observed, Node, Statuses
  <2>2. nodes' \in Seq(Node)
    BY <1>8, <2>1 DEF ObserveKnownChild, TypeOK
  <2> QED
    BY <1>8, <2>2 DEF ObserveKnownChild, TypeOK, ids, sets
<1>9. ASSUME NEW child \in Pids, NEW parent \in Pids, NEW d \in Decisions,
             ObserveNewChild(child, parent, d)
      PROVE  TypeOK'
  <2>1. NewChild(child, parent, d) \in Node
    BY DEF NewChild, Node, StatusOf, RelationshipOf, AllDecisions, Statuses, Relationships
  <2> QED
    BY <1>9, <2>1 DEF ObserveNewChild, TypeOK
<1>10. ASSUME NEW pid \in Pids, NEW injected \in BOOLEAN, MarkInjectionResult(pid, injected)
       PROVE  TypeOK'
  <2>1. \A n \in Node : Injected(n, injected) \in Node
    BY DEF Injected, Node, Statuses
  <2>2. nodes' \in Seq(Node)
    BY <1>10, <2>1 DEF MarkInjectionResult, TypeOK
  <2> QED
    BY <1>10, <2>2 DEF MarkInjectionResult, TypeOK, ids
<1>11. ASSUME NEW pid \in Pids, MarkExited(pid)
       PROVE  TypeOK'
  <2>1. \A n \in Node : Exited(n) \in Node
    BY DEF Exited, Node, Statuses
  <2>2. nodes' \in Seq(Node)
    BY <1>11, <2>1 DEF MarkExited, TypeOK
  <2> QED
    BY <1>11, <2>2 DEF MarkExited, TypeOK, ids
<1>12. CASE UNCHANGED vars
  BY <1>12 DEF vars, ids, sets, TypeOK
<1> QED
  BY <1>1, <1>2, <1>3, <1>4, <1>5, <1>6, <1>7, <1>8, <1>9, <1>10, <1>11, <1>12 DEF Next

\* The session record keeps its types, however long it is used.
THEOREM TypeCorrect == Spec => []TypeOK
  BY InitTypeOK, NextTypeOK, PTL DEF Spec

-----------------------------------------------------------------------------
\* Nothing is wrong with no rows.
LEMMA NoRowsGood == RowsGood(<<>>)
  BY DEF RowsGood, Rooted, OneLiveRowPerPid, SingleRoot

\* A row may be added at the end if it is a root, or if its parent is known
\* and no live row has its pid.  A second root makes SingleRoot false.
LEMMA AppendGood ==
    ASSUME NEW rows \in Seq(Node), RowsGood(rows), NEW n \in Node, RowGood(n),
           \/ IsRoot(n)
           \/ /\ \E j \in DOMAIN rows : rows[j].pid = n.parentPid
              /\ \A j \in DOMAIN rows : ~IsLive(rows[j], n.pid)
    PROVE  RowsGood(Append(rows, n))
<1> DEFINE new == Append(rows, n)
<1>1. /\ Len(new) = Len(rows) + 1
      /\ DOMAIN new = 1 .. Len(rows) + 1
      /\ DOMAIN rows = 1 .. Len(rows)
      /\ Len(rows) \in Nat
      /\ new[Len(rows) + 1] = n
      /\ \A i \in 1 .. Len(rows) : new[i] = rows[i]
  OBVIOUS
<1> HIDE DEF new
<1>2. \A i \in DOMAIN new : RowGood(new[i])
  BY <1>1 DEF RowsGood
<1>3. Rooted(new)
  BY <1>1 DEF RowsGood, Rooted
<1>4. OneLiveRowPerPid(new)
  <2> SUFFICES ASSUME SingleRoot(new), NEW i \in DOMAIN new, NEW j \in DOMAIN new,
                      new[i].pid = new[j].pid, ~new[i].exited, ~new[j].exited
               PROVE  i = j
    BY DEF OneLiveRowPerPid
  <2>1. SingleRoot(rows)
    BY <1>1 DEF SingleRoot
  <2>2. IsRoot(n) => Len(rows) = 0
    BY <1>1 DEF SingleRoot
  <2>3. CASE IsRoot(n)
    BY <1>1, <2>2, <2>3
  <2>4. CASE ~IsRoot(n)
    BY <1>1, <2>1, <2>4 DEF RowsGood, OneLiveRowPerPid, IsLive
  <2> QED
    BY <2>3, <2>4
<1> QED
  BY <1>2, <1>3, <1>4 DEF RowsGood, new

\* A row may be changed in place if it stays the same process and no exit is
\* taken back.
LEMMA UpdateGood ==
    ASSUME NEW rows \in Seq(Node), RowsGood(rows), NEW i \in DOMAIN rows,
           NEW n \in Node, RowGood(n),
           n.pid = rows[i].pid, n.parentPid = rows[i].parentPid,
           n.relationship = rows[i].relationship, rows[i].exited => n.exited
    PROVE  RowsGood([rows EXCEPT ![i] = n])
<1> DEFINE new == [rows EXCEPT ![i] = n]
<1>1. /\ DOMAIN new = DOMAIN rows
      /\ DOMAIN rows = 1 .. Len(rows)
      /\ Len(rows) \in Nat
      /\ new[i] = n
      /\ \A k \in DOMAIN rows : k # i => new[k] = rows[k]
  OBVIOUS
<1> HIDE DEF new
<1>2. \A k \in DOMAIN rows :
        /\ new[k].pid = rows[k].pid
        /\ new[k].parentPid = rows[k].parentPid
        /\ new[k].relationship = rows[k].relationship
        /\ rows[k].exited => new[k].exited
  BY <1>1
<1>3. \A k \in DOMAIN new : RowGood(new[k])
  BY <1>1 DEF RowsGood
<1>4. Rooted(new)
  BY <1>1, <1>2 DEF RowsGood, Rooted, IsRoot
<1>5. OneLiveRowPerPid(new)
  BY <1>1, <1>2 DEF RowsGood, OneLiveRowPerPid, SingleRoot, IsRoot
<1> QED
  BY <1>3, <1>4, <1>5 DEF RowsGood, new

\* Export drops a flag that no part of the invariant looks at.
LEMMA ExportGood ==
    ASSUME NEW rows \in Seq(Node), RowsGood(rows)
    PROVE  RowsGood([i \in DOMAIN rows |-> [rows[i] EXCEPT !.exitWatchStarted = FALSE]])
<1> DEFINE new == [i \in DOMAIN rows |-> [rows[i] EXCEPT !.exitWatchStarted = FALSE]]
<1>1. DOMAIN new = DOMAIN rows /\ DOMAIN rows = 1 .. Len(rows) /\ Len(rows) \in Nat
  OBVIOUS
<1>2. ASSUME NEW k \in DOMAIN rows
      PROVE  /\ new[k].pid = rows[k].pid
             /\ new[k].parentPid = rows[k].parentPid
             /\ new[k].relationship = rows[k].relationship
             /\ new[k].status = rows[k].status
             /\ new[k].monitored = rows[k].monitored
             /\ new[k].exited = rows[k].exited
  <2>1. rows[k] \in Node
    OBVIOUS
  <2>2. new[k] = [rows[k] EXCEPT !.exitWatchStarted = FALSE]
    OBVIOUS
  <2> QED
    BY <2>1, <2>2 DEF Node
<1> HIDE DEF new
<1>3. \A k \in DOMAIN new : RowGood(new[k])
  BY <1>1, <1>2 DEF RowsGood, RowGood
<1>4. Rooted(new)
  BY <1>1, <1>2 DEF RowsGood, Rooted, IsRoot
<1>5. OneLiveRowPerPid(new)
  BY <1>1, <1>2 DEF RowsGood, OneLiveRowPerPid, SingleRoot, IsRoot
<1> QED
  BY <1>3, <1>4, <1>5 DEF RowsGood, new

-----------------------------------------------------------------------------
LEMMA InitIInv == Init => IInv
<1> SUFFICES ASSUME Init PROVE IInv
  OBVIOUS
<1>1. nodes = <<>> /\ exported.nodes = <<>> /\ exitedPids = {}
  BY DEF Init
<1>2. MonitoredAgrees /\ ExitedAgrees
  BY <1>1 DEF MonitoredAgrees, ExitedAgrees, FlagMatchesStatus
<1> QED
  BY <1>1, <1>2, InitTypeOK, NoRowsGood DEF IInv

\* The session is emptied: BeginSession and Reset.
LEMMA ClearIInv ==
    ASSUME TypeOK', IInv, ClearSession, UNCHANGED exported
    PROVE  IInv'
<1>1. nodes' = <<>> /\ exitedPids' = {}
  BY DEF ClearSession
<1>2. MonitoredAgrees' /\ ExitedAgrees'
  BY <1>1 DEF MonitoredAgrees, ExitedAgrees, FlagMatchesStatus
<1>3. RowsGood(nodes)'
  BY <1>1, NoRowsGood
<1> QED
  BY <1>2, <1>3 DEF IInv

\* A row is added.
LEMMA AppendIInv ==
    ASSUME TypeOK', IInv, NEW n \in Node, RowGood(n), ~n.exited,
           \/ IsRoot(n)
           \/ /\ \E j \in DOMAIN nodes : nodes[j].pid = n.parentPid
              /\ \A j \in DOMAIN nodes : ~IsLive(nodes[j], n.pid),
           nodes' = Append(nodes, n),
           monitoredPids \subseteq monitoredPids',
           n.monitored => n.pid \in monitoredPids',
           exitedPids' = exitedPids, exported' = exported
    PROVE  IInv'
<1>1. nodes \in Seq(Node)
  BY DEF IInv, TypeOK
<1>2. RowsGood(nodes')
  BY <1>1, AppendGood DEF IInv
<1>3. /\ DOMAIN nodes' = 1 .. Len(nodes) + 1
      /\ DOMAIN nodes = 1 .. Len(nodes)
      /\ Len(nodes) \in Nat
      /\ nodes'[Len(nodes) + 1] = n
      /\ \A i \in 1 .. Len(nodes) : nodes'[i] = nodes[i]
  BY <1>1
<1>4. MonitoredAgrees'
  BY <1>2, <1>3 DEF IInv, RowsGood, RowGood, MonitoredAgrees, FlagMatchesStatus
<1>5. ExitedAgrees'
  BY <1>3 DEF IInv, ExitedAgrees
<1> QED
  BY <1>2, <1>4, <1>5 DEF IInv

\* A row is changed in place.
LEMMA UpdateIInv ==
    ASSUME TypeOK', IInv, NEW i \in DOMAIN nodes, NEW n \in Node, RowGood(n),
           n.pid = nodes[i].pid, n.parentPid = nodes[i].parentPid,
           n.relationship = nodes[i].relationship, nodes[i].exited => n.exited,
           nodes' = [nodes EXCEPT ![i] = n],
           monitoredPids \subseteq monitoredPids',
           n.monitored => n.pid \in monitoredPids',
           exitedPids' = IF n.exited THEN exitedPids \cup {n.pid} ELSE exitedPids,
           exported' = exported
    PROVE  IInv'
<1>1. nodes \in Seq(Node)
  BY DEF IInv, TypeOK
<1>2. RowsGood(nodes')
  BY <1>1, UpdateGood DEF IInv
<1>3. /\ DOMAIN nodes' = DOMAIN nodes
      /\ nodes'[i] = n
      /\ \A k \in DOMAIN nodes : k # i => nodes'[k] = nodes[k]
  BY <1>1
<1>4. MonitoredAgrees'
  BY <1>2, <1>3 DEF IInv, RowsGood, RowGood, MonitoredAgrees, FlagMatchesStatus
<1>5. ExitedAgrees'
  BY <1>3 DEF IInv, ExitedAgrees
<1> QED
  BY <1>2, <1>4, <1>5 DEF IInv

LEMMA NextIInv == IInv /\ [Next]_vars => IInv'
<1> SUFFICES ASSUME IInv, [Next]_vars PROVE IInv'
  OBVIOUS
<1> USE PidAssumption, EnumAssumption
<1>t. TypeOK'
  BY NextTypeOK DEF IInv
<1>n. nodes \in Seq(Node) /\ \A i \in DOMAIN nodes : nodes[i] \in Node /\ RowGood(nodes[i])
  BY DEF IInv, TypeOK, RowsGood
<1>s. ASSUME UNCHANGED <<nodes, monitoredPids, exitedPids, exported>>
      PROVE  IInv'
  BY <1>t, <1>s DEF IInv, MonitoredAgrees, ExitedAgrees
<1>1. CASE BeginSession
  BY <1>1, <1>t, ClearIInv DEF BeginSession
<1>2. CASE LaunchFailed
  BY <1>2, <1>s DEF LaunchFailed, sets
<1>3. CASE StopSession
  BY <1>3, <1>s DEF StopSession, sets
<1>4. CASE Reset
  BY <1>4, <1>t, ClearIInv DEF Reset
<1>5. CASE Export
  <2>1. exported'.nodes = [i \in DOMAIN nodes |-> [nodes[i] EXCEPT !.exitWatchStarted = FALSE]]
    BY <1>5 DEF Export
  <2>2. RowsGood(exported'.nodes)
    BY <2>1, <1>n, ExportGood DEF IInv
  <2> QED
    BY <1>5, <1>t, <2>2 DEF Export, sets, IInv, MonitoredAgrees, ExitedAgrees
<1>6. CASE Restore
  <2>1. nodes' = exported.nodes /\ exported' = exported
    BY <1>6 DEF Restore
  <2>2. RowsGood(nodes')
    BY <2>1 DEF IInv
  <2>3. MonitoredAgrees'
    BY <1>6, <2>1, <2>2 DEF Restore, PidsWith, MonitoredAgrees, FlagMatchesStatus, RowsGood, RowGood
  <2>4. ExitedAgrees'
    BY <1>6, <2>1 DEF Restore, ExitedAgrees
  <2> QED
    BY <1>t, <2>1, <2>2, <2>3, <2>4 DEF IInv
<1>7. ASSUME NEW pid \in Pids, NEW instrumented \in BOOLEAN, NEW launcherOnly \in BOOLEAN,
             RegisterRoot(pid, launcherOnly, instrumented)
      PROVE  IInv'
  <2> DEFINE n == [pid |-> pid, parentPid |-> NoPid,
          relationship |-> IF launcherOnly THEN "launcher" ELSE "root",
          status |-> IF instrumented THEN "injected" ELSE "command-only",
          monitored |-> instrumented, exited |-> FALSE,
          exitWatchStarted |-> FALSE]
  <2>1. n \in Node /\ IsRoot(n) /\ RowGood(n)
    BY DEF Node, Statuses, Relationships, IsRoot, RowGood
  <2>2. nodes' = Append(nodes, n) /\ exported' = exported /\ exitedPids' = exitedPids
    BY <1>7 DEF RegisterRoot
  <2>3. /\ monitoredPids \subseteq monitoredPids'
        /\ n.monitored => n.pid \in monitoredPids'
    BY <1>7 DEF RegisterRoot
  <2>4. ~n.exited
    OBVIOUS
  <2> HIDE DEF n
  <2> QED
    BY <1>t, <2>1, <2>2, <2>3, <2>4, AppendIInv
<1>8. ASSUME NEW child \in Pids, NEW parent \in Pids, NEW d \in Decisions,
             ObserveKnownChild(child, parent, d)
      PROVE  IInv'
  <2>1. PICK i \in DOMAIN nodes :
          ~nodes[i].exited /\ nodes' = [nodes EXCEPT ![i] = Observed(nodes[i], d)]
    BY <1>8, <1>n DEF ObserveKnownChild, FirstLive, IsLive
  <2> DEFINE n == Observed(nodes[i], d)
  <2>2. /\ n \in Node /\ RowGood(n)
        /\ n.pid = nodes[i].pid /\ n.parentPid = nodes[i].parentPid
        /\ n.relationship = nodes[i].relationship /\ ~n.exited
        /\ n.monitored = nodes[i].monitored
    BY <1>n, <2>1 DEF Observed, Node, Statuses, RowGood
  <2>3. n.monitored => n.pid \in monitoredPids
    BY <2>2 DEF IInv, MonitoredAgrees
  <2> HIDE DEF n
  <2>4. nodes' = [nodes EXCEPT ![i] = n]
    BY <2>1 DEF n
  <2> QED
    BY <1>8, <1>t, <2>1, <2>2, <2>3, <2>4, UpdateIInv DEF ObserveKnownChild, sets
<1>9. ASSUME NEW child \in Pids, NEW parent \in Pids, NEW d \in Decisions,
             ObserveNewChild(child, parent, d)
      PROVE  IInv'
  <2> DEFINE n == NewChild(child, parent, d)
  <2>1. /\ n \in Node /\ RowGood(n) /\ ~n.exited /\ ~n.monitored
        /\ n.pid = child /\ n.parentPid = parent
    BY DEF NewChild, Node, StatusOf, RelationshipOf, AllDecisions, Statuses, Relationships,
           RowGood
  <2> HIDE DEF n
  <2>2. nodes' = Append(nodes, n)
    BY <1>9 DEF ObserveNewChild, n
  <2>3. /\ \E j \in DOMAIN nodes : nodes[j].pid = n.parentPid
        /\ \A j \in DOMAIN nodes : ~IsLive(nodes[j], n.pid)
    BY <1>9, <2>1 DEF ObserveNewChild, Observable, BelongsToSession
  <2> QED
    BY <1>9, <1>t, <2>1, <2>2, <2>3, AppendIInv DEF ObserveNewChild
<1>10. ASSUME NEW pid \in Pids, NEW injected \in BOOLEAN, MarkInjectionResult(pid, injected)
       PROVE  IInv'
  <2>1. PICK i \in DOMAIN nodes :
          nodes[i].pid = pid /\ nodes' = [nodes EXCEPT ![i] = Injected(nodes[i], injected)]
    BY <1>10, <1>n DEF MarkInjectionResult, LastRow
  <2> DEFINE n == Injected(nodes[i], injected)
  <2>2. /\ n \in Node /\ RowGood(n)
        /\ n.pid = nodes[i].pid /\ n.parentPid = nodes[i].parentPid
        /\ n.relationship = nodes[i].relationship /\ n.exited = nodes[i].exited
        /\ n.monitored = injected
    BY <1>n, <2>1 DEF Injected, Node, Statuses, RowGood
  <2> HIDE DEF n
  <2>3. nodes' = [nodes EXCEPT ![i] = n]
    BY <2>1 DEF n
  <2>4. /\ monitoredPids \subseteq monitoredPids'
        /\ n.monitored => n.pid \in monitoredPids'
    BY <1>10, <2>1, <2>2 DEF MarkInjectionResult
  <2>5. exitedPids' = IF n.exited THEN exitedPids \cup {n.pid} ELSE exitedPids
    <3>1. n.exited => n.pid \in exitedPids
      BY <1>n, <2>2 DEF IInv, ExitedAgrees, Node
    <3> QED
      BY <1>10, <3>1 DEF MarkInjectionResult
  <2> QED
    BY <1>10, <1>t, <2>2, <2>3, <2>4, <2>5, UpdateIInv DEF MarkInjectionResult
<1>11. ASSUME NEW pid \in Pids, MarkExited(pid)
       PROVE  IInv'
  <2>1. PICK i \in DOMAIN nodes :
          nodes[i].pid = pid /\ nodes' = [nodes EXCEPT ![i] = Exited(nodes[i])]
    BY <1>11, <1>n DEF MarkExited, LastLive, IsLive
  <2> DEFINE n == Exited(nodes[i])
  <2>2. /\ n \in Node /\ RowGood(n)
        /\ n.pid = nodes[i].pid /\ n.parentPid = nodes[i].parentPid
        /\ n.relationship = nodes[i].relationship /\ n.exited
        /\ n.monitored = nodes[i].monitored
    BY <1>n, <2>1 DEF Exited, Node, Statuses, RowGood
  <2>3. n.monitored => n.pid \in monitoredPids
    BY <2>2 DEF IInv, MonitoredAgrees
  <2> HIDE DEF n
  <2>4. nodes' = [nodes EXCEPT ![i] = n]
    BY <2>1 DEF n
  <2> QED
    BY <1>11, <1>t, <2>1, <2>2, <2>3, <2>4, UpdateIInv DEF MarkExited
<1>12. CASE UNCHANGED vars
  BY <1>12, <1>s DEF vars, sets
<1> QED
  BY <1>1, <1>2, <1>3, <1>4, <1>5, <1>6, <1>7, <1>8, <1>9, <1>10, <1>11, <1>12 DEF Next

\* The invariant that carries the four theorems below.
THEOREM Inductive == Spec => []IInv
  BY InitIInv, NextIInv, PTL DEF Spec

\* A pid has at most one live row unless an import gave the tree a second root:
\* MarkExited and MarkInjectionResult then have one process to mean.
THEOREM LivePidsUniqueHolds == Spec => []LivePidsUnique
<1>1. IInv => LivePidsUnique
  BY DEF IInv, RowsGood, LivePidsUnique
<1> QED
  BY <1>1, Inductive, PTL

\* Every row that is no root has its parent's pid in an earlier row.
THEOREM DescendsFromRootHolds == Spec => []DescendsFromRoot
<1>1. IInv => DescendsFromRoot
  BY DEF IInv, RowsGood, DescendsFromRoot
<1> QED
  BY <1>1, Inductive, PTL

\* No exited row is left waiting for an injection.
THEOREM PendingIsLiveHolds == Spec => []PendingIsLive
<1>1. IInv => PendingIsLive
  BY DEF IInv, RowsGood, RowGood, PendingIsLive, PendingRowsLive
<1> QED
  BY <1>1, Inductive, PTL

\* The monitored flag, the status, and the set of monitored pids agree, and the
\* set of exited pids is that of the exited rows.
THEOREM SetsAgree == Spec => []SetsMatchRows
<1>1. IInv => SetsMatchRows
  BY DEF IInv, SetsMatchRows
<1> QED
  BY <1>1, Inductive, PTL

-----------------------------------------------------------------------------
(* At most one primary: of the live rows and of the exported ones.         *)

Primaries ==
    /\ TypeOK
    /\ OnePrimary
    /\ PrimaryNamed(exported.nodes, exported.launcherPid, exported.primaryPid)

\* Rows that have kept their pids and relationships.
LEMMA SameRowsKeepPrimary ==
    ASSUME NEW rows, NEW new, NEW launcher, NEW primary, PrimaryNamed(rows, launcher, primary),
           DOMAIN new = DOMAIN rows,
           \A i \in DOMAIN rows : /\ new[i].pid = rows[i].pid
                                  /\ new[i].relationship = rows[i].relationship
    PROVE  PrimaryNamed(new, launcher, primary)
<1>1. SingleRoot(new) => SingleRoot(rows)
  BY DEF SingleRoot, IsRoot
<1> QED
  BY <1>1 DEF PrimaryNamed

\* One row that is changed in place.
LEMMA UpdateKeepsPrimary ==
    ASSUME TypeOK, OnePrimary, NEW i \in DOMAIN nodes, NEW n,
           nodes' = [nodes EXCEPT ![i] = n],
           n.pid = nodes[i].pid, n.relationship = nodes[i].relationship,
           UNCHANGED ids
    PROVE  OnePrimary'
<1>1. DOMAIN nodes' = DOMAIN nodes /\ launcherPid' = launcherPid /\ primaryPid' = primaryPid
  BY DEF ids, TypeOK
<1>2. \A k \in DOMAIN nodes : /\ nodes'[k].pid = nodes[k].pid
                              /\ nodes'[k].relationship = nodes[k].relationship
  BY DEF TypeOK
<1> QED
  BY <1>1, <1>2, SameRowsKeepPrimary DEF OnePrimary

\* A root that is added is the first row, or the tree has two.
LEMMA RootKeepsPrimary ==
    ASSUME TypeOK, NEW n \in Node, IsRoot(n), nodes' = Append(nodes, n)
    PROVE  OnePrimary'
<1>1. /\ DOMAIN nodes' = 1 .. Len(nodes) + 1 /\ Len(nodes) \in Nat
      /\ nodes'[Len(nodes) + 1] = n
  BY DEF TypeOK
<1> SUFFICES ASSUME SingleRoot(nodes)'
             PROVE  \A i \in DOMAIN nodes' : nodes'[i].relationship # "primary"
  BY DEF OnePrimary, PrimaryNamed
<1>2. Len(nodes) = 0
  BY <1>1 DEF SingleRoot
<1> QED
  BY <1>1, <1>2 DEF IsRoot

\* A child that is added is primary only if there is no primary yet.
LEMMA ChildKeepsPrimary ==
    ASSUME TypeOK, OnePrimary, NEW child \in Pids, NEW parent \in Pids, NEW d \in Decisions,
           ObserveNewChild(child, parent, d)
    PROVE  OnePrimary'
<1> DEFINE n == NewChild(child, parent, d)
<1>1. /\ n.pid = child
      /\ n.relationship = IF PromotesPrimary THEN "primary" ELSE RelationshipOf[d]
      /\ nodes' = Append(nodes, n) /\ launcherPid' = launcherPid
      /\ primaryPid' = IF PromotesPrimary THEN child ELSE primaryPid
  BY DEF NewChild, ObserveNewChild
<1>2. n \in Node
  BY PidAssumption, EnumAssumption DEF NewChild, Node, StatusOf, RelationshipOf, AllDecisions, Statuses, Relationships
<1>3. RelationshipOf[d] \in {"monitored-child", "command-only", "skipped"}
  BY EnumAssumption DEF RelationshipOf, AllDecisions
<1> HIDE DEF n
<1>4. /\ DOMAIN nodes' = 1 .. Len(nodes) + 1 /\ DOMAIN nodes = 1 .. Len(nodes) /\ Len(nodes) \in Nat
      /\ nodes'[Len(nodes) + 1] = n
      /\ \A i \in 1 .. Len(nodes) : nodes'[i] = nodes[i] /\ nodes[i].pid \in Pids
  <2>1. nodes \in Seq(Node)
    BY DEF TypeOK
  <2>2. \A row \in Node : row.pid \in Pids
    BY DEF Node
  <2>3. \A i \in 1 .. Len(nodes) : nodes[i] \in Node
    BY <2>1
  <2> QED
    BY <1>1, <1>2, <2>1, <2>2, <2>3
<1>5. SingleRoot(nodes)' => SingleRoot(nodes)
  BY <1>4 DEF SingleRoot
<1>6. CASE PromotesPrimary
  <2>1. /\ primaryPid = NoPid /\ launcherPid # NoPid /\ n.relationship = "primary"
        /\ primaryPid' = child
    BY <1>1, <1>6 DEF PromotesPrimary
  <2> SUFFICES ASSUME SingleRoot(nodes)'
               PROVE  \A i \in 1 .. Len(nodes) : nodes'[i].relationship # "primary"
    BY <1>1, <1>4, <2>1 DEF OnePrimary, PrimaryNamed
  <2>2. \A i \in 1 .. Len(nodes) : nodes[i].relationship = "primary" => primaryPid = nodes[i].pid
    BY <1>4, <1>5 DEF OnePrimary, PrimaryNamed
  <2> QED
    BY <1>4, <2>1, <2>2, PidAssumption
<1>7. CASE ~PromotesPrimary
  <2>1. n.relationship # "primary" /\ primaryPid' = primaryPid
    BY <1>1, <1>3, <1>7
  <2> QED
    BY <1>1, <1>4, <1>5, <2>1 DEF OnePrimary, PrimaryNamed
<1> QED
  BY <1>6, <1>7

LEMMA PrimariesInit == Init => Primaries
<1> SUFFICES ASSUME Init PROVE Primaries
  OBVIOUS
<1>1. OnePrimary /\ PrimaryNamed(exported.nodes, exported.launcherPid, exported.primaryPid)
  BY DEF Init, OnePrimary, PrimaryNamed
<1> QED
  BY <1>1, InitTypeOK DEF Primaries

LEMMA PrimariesStep == Primaries /\ [Next]_vars => Primaries'
<1> SUFFICES ASSUME Primaries, [Next]_vars PROVE Primaries'
  OBVIOUS
<1>0. TypeOK /\ TypeOK' /\ OnePrimary
  BY NextTypeOK DEF Primaries
<1>e. exported' = exported => PrimaryNamed(exported.nodes, exported.launcherPid, exported.primaryPid)'
  BY DEF Primaries
<1>u. nodes' = nodes /\ UNCHANGED ids => OnePrimary'
  BY <1>0 DEF OnePrimary, ids
<1>1. CASE BeginSession \/ Reset
  <2>1. nodes' = <<>> /\ exported' = exported
    BY <1>1 DEF BeginSession, Reset, ClearSession
  <2>2. OnePrimary'
    BY <2>1 DEF OnePrimary, PrimaryNamed
  <2> QED
    BY <1>0, <1>e, <2>1, <2>2 DEF Primaries
<1>2. CASE LaunchFailed \/ StopSession
  <2>1. UNCHANGED <<nodes, ids, exported>>
    BY <1>2 DEF LaunchFailed, StopSession
  <2> QED
    BY <1>0, <1>e, <1>u, <2>1 DEF Primaries
<1>3. CASE Export
  <2>1. UNCHANGED <<nodes, ids>>
    BY <1>3 DEF Export
  <2>2. /\ exported'.launcherPid = launcherPid /\ exported'.primaryPid = primaryPid
        /\ exported'.nodes = [i \in DOMAIN nodes |-> [nodes[i] EXCEPT !.exitWatchStarted = FALSE]]
    BY <1>3 DEF Export
  <2>3. \A i \in DOMAIN nodes : nodes[i] \in Node
    BY <1>0 DEF TypeOK
  <2>4. \A i \in DOMAIN nodes : /\ exported'.nodes[i].pid = nodes[i].pid
                                /\ exported'.nodes[i].relationship = nodes[i].relationship
    BY <2>2, <2>3 DEF Node
  <2>5. PrimaryNamed(exported'.nodes, launcherPid, primaryPid)
    BY <1>0, <2>2, <2>4, SameRowsKeepPrimary DEF OnePrimary
  <2>6. PrimaryNamed(exported.nodes, exported.launcherPid, exported.primaryPid)'
    BY <2>2, <2>5
  <2> QED
    BY <1>0, <1>u, <2>1, <2>6 DEF Primaries
<1>4. CASE Restore
  <2>1. /\ nodes' = exported.nodes /\ launcherPid' = exported.launcherPid
        /\ primaryPid' = exported.primaryPid /\ exported' = exported
    BY <1>4 DEF Restore
  <2>2. OnePrimary'
    BY <2>1 DEF Primaries, OnePrimary
  <2> QED
    BY <1>0, <1>e, <2>1, <2>2 DEF Primaries
<1>5. ASSUME NEW pid \in Pids, NEW instrumented \in BOOLEAN, NEW launcherOnly \in BOOLEAN,
             RegisterRoot(pid, launcherOnly, instrumented)
      PROVE  Primaries'
  <2>1. PICK n \in Node : IsRoot(n) /\ nodes' = Append(nodes, n)
    BY <1>5 DEF RegisterRoot, Node, Statuses, Relationships, IsRoot
  <2>2. OnePrimary' /\ exported' = exported
    BY <1>0, <1>5, <2>1, RootKeepsPrimary DEF RegisterRoot
  <2> QED
    BY <1>0, <1>e, <2>2 DEF Primaries
<1>6. ASSUME NEW child \in Pids, NEW parent \in Pids, NEW d \in Decisions,
             ObserveNewChild(child, parent, d)
      PROVE  Primaries'
  <2>1. OnePrimary' /\ exported' = exported
    BY <1>0, <1>6, ChildKeepsPrimary DEF ObserveNewChild
  <2> QED
    BY <1>0, <1>e, <2>1 DEF Primaries
<1>7. ASSUME NEW i \in DOMAIN nodes, NEW n, nodes' = [nodes EXCEPT ![i] = n],
             n.pid = nodes[i].pid, n.relationship = nodes[i].relationship,
             UNCHANGED ids, exported' = exported
      PROVE  Primaries'
  <2>1. OnePrimary'
    BY <1>0, <1>7, UpdateKeepsPrimary
  <2> QED
    BY <1>0, <1>7, <1>e, <2>1 DEF Primaries
<1>n. \A i \in DOMAIN nodes : nodes[i] \in Node
  BY <1>0 DEF TypeOK
<1>8. ASSUME NEW child \in Pids, NEW parent \in Pids, NEW d \in Decisions,
             ObserveKnownChild(child, parent, d)
      PROVE  Primaries'
  <2>1. PICK i \in DOMAIN nodes : nodes' = [nodes EXCEPT ![i] = Observed(nodes[i], d)]
    BY <1>8 DEF ObserveKnownChild
  <2>2. /\ Observed(nodes[i], d).pid = nodes[i].pid
        /\ Observed(nodes[i], d).relationship = nodes[i].relationship
    BY <1>n DEF Observed, Node
  <2> QED
    BY <1>7, <1>8, <2>1, <2>2 DEF ObserveKnownChild
<1>9. ASSUME NEW pid \in Pids, NEW injected \in BOOLEAN, MarkInjectionResult(pid, injected)
      PROVE  Primaries'
  <2>1. PICK i \in DOMAIN nodes : nodes' = [nodes EXCEPT ![i] = Injected(nodes[i], injected)]
    BY <1>9 DEF MarkInjectionResult
  <2>2. /\ Injected(nodes[i], injected).pid = nodes[i].pid
        /\ Injected(nodes[i], injected).relationship = nodes[i].relationship
    BY <1>n DEF Injected, Node
  <2> QED
    BY <1>7, <1>9, <2>1, <2>2 DEF MarkInjectionResult
<1>10. ASSUME NEW pid \in Pids, MarkExited(pid) PROVE Primaries'
  <2>1. PICK i \in DOMAIN nodes : nodes' = [nodes EXCEPT ![i] = Exited(nodes[i])]
    BY <1>10 DEF MarkExited
  <2>2. /\ Exited(nodes[i]).pid = nodes[i].pid
        /\ Exited(nodes[i]).relationship = nodes[i].relationship
    BY <1>n DEF Exited, Node
  <2> QED
    BY <1>7, <1>10, <2>1, <2>2 DEF MarkExited
<1>11. CASE UNCHANGED vars
  <2>1. UNCHANGED <<nodes, ids, exported>>
    BY <1>11 DEF vars
  <2> QED
    BY <1>0, <1>e, <1>u, <2>1 DEF Primaries
<1> QED
  BY <1>1, <1>2, <1>3, <1>4, <1>5, <1>6, <1>8, <1>9, <1>10, <1>11, EnumAssumption DEF Next

\* Below one launcher at most one child is promoted to primary, and the session
\* names it, however many are observed and whatever is imported in between.
THEOREM OnePrimaryHolds == Spec => []OnePrimary
<1>1. Primaries => OnePrimary
  BY DEF Primaries
<1> QED
  BY PrimariesInit, PrimariesStep, <1>1, PTL DEF Spec

-----------------------------------------------------------------------------
(***************************************************************************)
(* The session implements SessionHistory: every action maps to an action of *)
(* the history or leaves it as it is.                                       *)
(***************************************************************************)
HistoryRow(row) == [pid |-> row.pid, parentPid |-> row.parentPid, exited |-> row.exited]

HistoryRows == [pid: Pids, parentPid: Pids \cup {NoPid}, exited: BOOLEAN]

LEMMA HistoryRowType == \A n \in Node : HistoryRow(n) \in HistoryRows
<1>1. \A n \in Node : n.pid \in Pids /\ n.parentPid \in Pids \cup {NoPid} /\ n.exited \in BOOLEAN
  BY DEF Node
<1> QED
  BY <1>1 DEF HistoryRow, HistoryRows

\* The history of the rows is a sequence of their histories.
LEMMA HistoryIsSeq ==
    ASSUME NEW rows \in Seq(Node)
    PROVE  /\ HistoryOf(rows) \in Seq(HistoryRows)
           /\ DOMAIN HistoryOf(rows) = DOMAIN rows
           /\ Len(HistoryOf(rows)) = Len(rows)
           /\ \A i \in DOMAIN rows : HistoryOf(rows)[i] = HistoryRow(rows[i])
<1>1. \A i \in DOMAIN rows : HistoryRow(rows[i]) \in HistoryRows
  BY HistoryRowType
<1>2. HistoryOf(rows) = [i \in 1 .. Len(rows) |-> HistoryRow(rows[i])]
  BY DEF HistoryOf, HistoryRow
<1> QED
  BY <1>1, <1>2

LEMMA HistoryOfAppend ==
    ASSUME NEW rows \in Seq(Node), NEW n \in Node
    PROVE  HistoryOf(Append(rows, n)) = Append(HistoryOf(rows), HistoryRow(n))
<1> DEFINE new == Append(rows, n)
<1>1. new \in Seq(Node) /\ Len(new) = Len(rows) + 1
  OBVIOUS
<1>2. \A i \in 1 .. Len(rows) : new[i] = rows[i]
  OBVIOUS
<1>3. new[Len(rows) + 1] = n
  OBVIOUS
<1> HIDE DEF new
<1>4. /\ DOMAIN HistoryOf(new) = 1 .. Len(rows) + 1
      /\ \A i \in 1 .. Len(rows) + 1 : HistoryOf(new)[i] = HistoryRow(new[i])
      /\ HistoryOf(new) = [i \in 1 .. Len(rows) + 1 |-> HistoryOf(new)[i]]
  BY <1>1 DEF HistoryOf, HistoryRow
<1> DEFINE old == HistoryOf(rows)
           added == Append(old, HistoryRow(n))
<1>5. /\ old \in Seq(HistoryRows)
      /\ HistoryRow(n) \in HistoryRows
      /\ Len(old) = Len(rows)
      /\ \A i \in 1 .. Len(rows) : old[i] = HistoryRow(rows[i])
  BY HistoryIsSeq, HistoryRowType
<1> HIDE DEF old
<1>6. /\ added[Len(rows) + 1] = HistoryRow(n)
      /\ \A i \in 1 .. Len(rows) : added[i] = HistoryRow(rows[i])
  BY <1>5
<1>a. added \in Seq(HistoryRows) /\ Len(added) = Len(rows) + 1
  BY <1>5
<1>b. added = [i \in 1 .. Len(rows) + 1 |-> added[i]]
  <2> HIDE DEF added
  <2>1. added = [i \in 1 .. Len(added) |-> added[i]]
    BY <1>a
  <2> QED
    BY <1>a, <2>1
<1>l. Len(rows) \in Nat
  OBVIOUS
<1> HIDE DEF added
<1>7. \A i \in 1 .. Len(rows) + 1 : HistoryOf(new)[i] = added[i]
  <2> TAKE i \in 1 .. Len(rows) + 1
  <2>1. i \in 1 .. Len(rows) \/ i = Len(rows) + 1
    BY <1>l
  <2> QED
    BY <2>1, <1>2, <1>3, <1>4, <1>6
<1>8. HistoryOf(new) = added
  BY <1>4, <1>b, <1>7
<1> QED
  BY <1>8 DEF new, old, added

LEMMA HistoryOfUpdate ==
    ASSUME NEW rows \in Seq(Node), NEW i \in DOMAIN rows, NEW n \in Node
    PROVE  HistoryOf([rows EXCEPT ![i] = n]) = [HistoryOf(rows) EXCEPT ![i] = HistoryRow(n)]
  BY DEF HistoryOf, HistoryRow

LEMMA HistoryInit == Init => History!Init
  BY DEF Init, HistoryOf, History!Init

\* An exited history row is the record of its other two fields and TRUE.
LEMMA HistoryRowExited ==
    ASSUME NEW r \in HistoryRows
    PROVE  [r EXCEPT !.exited = TRUE] =
             [pid |-> r.pid, parentPid |-> r.parentPid, exited |-> TRUE]
<1> DEFINE e == [r EXCEPT !.exited = TRUE]
<1>1. e \in HistoryRows
  BY DEF HistoryRows
<1>2. e.pid = r.pid
  BY DEF HistoryRows
<1>3. e.parentPid = r.parentPid
  BY DEF HistoryRows
<1>4. e.exited = TRUE
  BY DEF HistoryRows
<1>5. \A x \in HistoryRows : x = [pid |-> x.pid, parentPid |-> x.parentPid, exited |-> x.exited]
  BY DEF HistoryRows
<1> HIDE DEF e
<1>6. e = [pid |-> r.pid, parentPid |-> r.parentPid, exited |-> TRUE]
  BY <1>1, <1>2, <1>3, <1>4, <1>5
<1> QED
  BY <1>6 DEF e

LEMMA HistoryNext == TypeOK /\ [Next]_vars => [History!Next]_(History!vars)
<1> SUFFICES ASSUME TypeOK, [Next]_vars PROVE [History!Next]_(History!vars)
  OBVIOUS
<1> USE EnumAssumption
<1>n. nodes \in Seq(Node) /\ exported.nodes \in Seq(Node) /\ exported \in Saved
     /\ \A i \in DOMAIN nodes : nodes[i] \in Node
  BY DEF TypeOK, Saved
<1>u. ASSUME nodes' = nodes, exported' = exported
      PROVE  UNCHANGED History!vars
  BY <1>u DEF History!vars, HistoryOf
<1>c. ASSUME ClearSession, exported' = exported
      PROVE  History!Next
  <2>1. HistoryOf(nodes)' = <<>>
    BY <1>c DEF ClearSession, HistoryOf
  <2> QED
    BY <1>c, <2>1 DEF History!Next, History!Start
<1>1. CASE BeginSession
  BY <1>1, <1>c DEF BeginSession
<1>2. CASE LaunchFailed
  BY <1>2, <1>u DEF LaunchFailed
<1>3. CASE StopSession
  BY <1>3, <1>u DEF StopSession
<1>4. CASE Reset
  BY <1>4, <1>c DEF Reset
<1>5. CASE Export
  <2>1. exported'.nodes = [i \in DOMAIN nodes |-> [nodes[i] EXCEPT !.exitWatchStarted = FALSE]]
    BY <1>5 DEF Export
  <2>2. \A i \in DOMAIN nodes :
          /\ [nodes[i] EXCEPT !.exitWatchStarted = FALSE].pid = nodes[i].pid
          /\ [nodes[i] EXCEPT !.exitWatchStarted = FALSE].parentPid = nodes[i].parentPid
          /\ [nodes[i] EXCEPT !.exitWatchStarted = FALSE].exited = nodes[i].exited
    BY <1>n DEF Node
  <2>3. HistoryOf(exported'.nodes) = HistoryOf(nodes)
    BY <2>1, <2>2 DEF HistoryOf
  <2> QED
    BY <1>5, <2>3 DEF Export, History!Next, History!Save, HistoryOf
<1>6. CASE Restore
  BY <1>6 DEF Restore, History!Next, History!Load, HistoryOf
<1>7. ASSUME NEW pid \in Pids, NEW instrumented \in BOOLEAN, NEW launcherOnly \in BOOLEAN,
             RegisterRoot(pid, launcherOnly, instrumented)
      PROVE  History!Next
  <2> DEFINE n == [pid |-> pid, parentPid |-> NoPid,
          relationship |-> IF launcherOnly THEN "launcher" ELSE "root",
          status |-> IF instrumented THEN "injected" ELSE "command-only",
          monitored |-> instrumented, exited |-> FALSE,
          exitWatchStarted |-> FALSE]
  <2>1. /\ n \in Node /\ n.pid = pid /\ n.parentPid = NoPid /\ n.exited = FALSE
        /\ nodes' = Append(nodes, n)
    BY <1>7 DEF RegisterRoot, Node, Statuses, Relationships
  <2> HIDE DEF n
  <2>2. HistoryOf(nodes') = Append(HistoryOf(nodes), HistoryRow(n))
    BY <1>n, <2>1, HistoryOfAppend
  <2>3. HistoryRow(n) = [pid |-> pid, parentPid |-> NoPid, exited |-> FALSE]
    BY <2>1 DEF HistoryRow
  <2> QED
    BY <1>7, <2>2, <2>3 DEF RegisterRoot, History!Next, History!AddRoot, HistoryOf
<1>8. ASSUME NEW child \in Pids, NEW parent \in Pids, NEW d \in Decisions,
             ObserveKnownChild(child, parent, d)
      PROVE  UNCHANGED History!vars
  <2>1. PICK i \in DOMAIN nodes : nodes' = [nodes EXCEPT ![i] = Observed(nodes[i], d)]
    BY <1>8, <1>n DEF ObserveKnownChild
  <2>2. /\ Observed(nodes[i], d) \in Node
        /\ HistoryRow(Observed(nodes[i], d)) = HistoryRow(nodes[i])
    <3>1. /\ Observed(nodes[i], d) \in Node
          /\ Observed(nodes[i], d).pid = nodes[i].pid
          /\ Observed(nodes[i], d).parentPid = nodes[i].parentPid
          /\ Observed(nodes[i], d).exited = nodes[i].exited
      BY <1>n DEF Observed, Node, Statuses
    <3> QED
      BY <3>1 DEF HistoryRow
  <2>3. HistoryOf(nodes') = [HistoryOf(nodes) EXCEPT ![i] = HistoryRow(Observed(nodes[i], d))]
    BY <1>n, <2>1, <2>2, HistoryOfUpdate
  <2>4. HistoryOf(nodes') = HistoryOf(nodes)
    BY <1>n, <2>2, <2>3, HistoryIsSeq
  <2> QED
    BY <1>8, <2>4 DEF ObserveKnownChild, History!vars, HistoryOf
<1>9. ASSUME NEW child \in Pids, NEW parent \in Pids, NEW d \in Decisions,
             ObserveNewChild(child, parent, d)
      PROVE  History!Next
  <2>1. NewChild(child, parent, d) \in Node
    BY DEF NewChild, Node, StatusOf, RelationshipOf, AllDecisions, Statuses, Relationships
  <2>2. HistoryRow(NewChild(child, parent, d)) =
          [pid |-> child, parentPid |-> parent, exited |-> FALSE]
    BY DEF HistoryRow, NewChild
  <2>3. HistoryOf(nodes') = Append(HistoryOf(nodes),
                                   [pid |-> child, parentPid |-> parent, exited |-> FALSE])
    BY <1>9, <1>n, <2>1, <2>2, HistoryOfAppend DEF ObserveNewChild
  <2>4. History!KnownIn(HistoryOf(nodes), parent) /\ ~History!LiveIn(HistoryOf(nodes), child)
    BY <1>9 DEF ObserveNewChild, Observable, BelongsToSession, IsLive,
                History!KnownIn, History!LiveIn, HistoryOf
  <2>5. exported' = exported
    BY <1>9 DEF ObserveNewChild
  <2> QED
    BY <2>3, <2>4, <2>5 DEF History!Next, History!AddChild, HistoryOf
<1>10. ASSUME NEW pid \in Pids, NEW injected \in BOOLEAN, MarkInjectionResult(pid, injected)
       PROVE  UNCHANGED History!vars
  <2>1. PICK i \in DOMAIN nodes : nodes' = [nodes EXCEPT ![i] = Injected(nodes[i], injected)]
    BY <1>10, <1>n DEF MarkInjectionResult
  <2>2. /\ Injected(nodes[i], injected) \in Node
        /\ HistoryRow(Injected(nodes[i], injected)) = HistoryRow(nodes[i])
    <3>1. /\ Injected(nodes[i], injected) \in Node
          /\ Injected(nodes[i], injected).pid = nodes[i].pid
          /\ Injected(nodes[i], injected).parentPid = nodes[i].parentPid
          /\ Injected(nodes[i], injected).exited = nodes[i].exited
      BY <1>n DEF Injected, Node, Statuses
    <3> QED
      BY <3>1 DEF HistoryRow
  <2>3. HistoryOf(nodes') = [HistoryOf(nodes) EXCEPT ![i] = HistoryRow(Injected(nodes[i], injected))]
    BY <1>n, <2>1, <2>2, HistoryOfUpdate
  <2>4. HistoryOf(nodes') = HistoryOf(nodes)
    BY <1>n, <2>2, <2>3, HistoryIsSeq
  <2> QED
    BY <1>10, <2>4 DEF MarkInjectionResult, History!vars, HistoryOf
<1>11. ASSUME NEW pid \in Pids, MarkExited(pid)
       PROVE  History!Next
  <2>1. PICK i \in DOMAIN nodes :
          ~nodes[i].exited /\ nodes' = [nodes EXCEPT ![i] = Exited(nodes[i])]
    BY <1>11, <1>n DEF MarkExited, LastLive, IsLive
  <2>2. /\ Exited(nodes[i]) \in Node
        /\ HistoryRow(Exited(nodes[i])) = [HistoryRow(nodes[i]) EXCEPT !.exited = TRUE]
    <3>1. /\ Exited(nodes[i]) \in Node
          /\ Exited(nodes[i]).pid = nodes[i].pid
          /\ Exited(nodes[i]).parentPid = nodes[i].parentPid
          /\ Exited(nodes[i]).exited = TRUE
      BY <1>n DEF Exited, Node, Statuses
    <3>2. \A r \in HistoryRows :
            [r EXCEPT !.exited = TRUE] =
              [pid |-> r.pid, parentPid |-> r.parentPid, exited |-> TRUE]
      BY HistoryRowExited
    <3>3. /\ HistoryRow(nodes[i]) \in HistoryRows
          /\ HistoryRow(nodes[i]).pid = nodes[i].pid
          /\ HistoryRow(nodes[i]).parentPid = nodes[i].parentPid
      BY <1>n, HistoryRowType DEF HistoryRow
    <3>4. HistoryRow(Exited(nodes[i])) =
            [pid |-> nodes[i].pid, parentPid |-> nodes[i].parentPid, exited |-> TRUE]
      BY <3>1 DEF HistoryRow
    <3> QED
      BY <3>1, <3>2, <3>3, <3>4
  <2>3. HistoryOf(nodes') = [HistoryOf(nodes) EXCEPT ![i] = HistoryRow(Exited(nodes[i]))]
    <3>1. nodes \in Seq(Node)
      BY <1>n
    <3>2. HistoryOf([nodes EXCEPT ![i] = Exited(nodes[i])])
            = [HistoryOf(nodes) EXCEPT ![i] = HistoryRow(Exited(nodes[i]))]
      BY <3>1, <2>1, <2>2, HistoryOfUpdate
    <3> QED
      BY <2>1, <3>2
  <2>4. HistoryOf(nodes)[i] = HistoryRow(nodes[i]) /\ i \in DOMAIN HistoryOf(nodes)
    BY <1>n, HistoryIsSeq
  <2>5. ~HistoryOf(nodes)[i].exited
    BY <2>1, <2>4 DEF HistoryRow
  <2>6. HistoryOf(nodes)' = [HistoryOf(nodes) EXCEPT ![i].exited = TRUE]
    BY <2>2, <2>3, <2>4 DEF HistoryOf
  <2>7. exported' = exported
    BY <1>11 DEF MarkExited
  <2>8. History!Exit(i)
    BY <2>5, <2>6, <2>7 DEF History!Exit, HistoryOf
  <2> QED
    BY <2>4, <2>8 DEF History!Next
<1>12. CASE UNCHANGED vars
  BY <1>12, <1>u DEF vars
<1> QED
  BY <1>1, <1>2, <1>3, <1>4, <1>5, <1>6, <1>7, <1>8, <1>9, <1>10, <1>11, <1>12 DEF Next

\* The session is a history: rows are only added, exits are permanent, and an
\* import brings back what was exported.
THEOREM HistoryImplemented == Spec => ImplementsHistory
  BY HistoryInit, HistoryNext, TypeCorrect, PTL DEF Spec, ImplementsHistory, History!Spec

=============================================================================
