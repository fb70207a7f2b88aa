---------------------------- MODULE SystemWatchers ----------------------------
(***************************************************************************)
(* The process watcher and the network watcher (src/src/controller/        *)
(* gui.cpp: ProcessWatcherScanOnce, NetWatcherScanOnce and their threads). *)
(*                                                                         *)
(* Both poll: they list what there is, processes by pid or connections by  *)
(* their key, and compare it with what they listed before.  "kind" is the  *)
(* watcher of a behaviour.  Items are numbered as they begin, 0 is none:   *)
(* two items of one key are a reused pid, or a connection made again.      *)
(* Names, paths and command lines are left out, and with them the table of *)
(* commands, which repeats the Created rows of shells.                     *)
(***************************************************************************)
EXTENDS Naturals, SequencesExt

CONSTANTS
    Keys,           \* pids, or the keys of connections
    MaxItems,       \* items that begin in all
    KeepRows,       \* maxRows (5000 processes, 8000 connections)
    MaxGaps         \* listings that lack something, and tables that are replaced

ASSUME WatchersAssumption == MaxItems \in Nat /\ KeepRows \in Nat /\ MaxGaps \in Nat

VARIABLES
    kind,           \* "process" or "net"
    item, begun,    \* of each key: the item that has it; the items begun so far
    watcher,        \* what the thread does next
    first,          \* whether its next comparison is the initial one
    listing,        \* what it has listed (and, for the properties, lacks)
    live,           \* g_ProcessWatcherLive, g_NetWatcherActive
    created,        \* g_ProcessWatcherCreated, g_NetWatcherEvents
    terminated,     \* g_ProcessWatcherTerminated
    exported,       \* the watcher's part of an exported analysis
    halt,           \* g_ProcessWatcherStop, g_NetWatcherStop
    gaps, since     \* see WatchersTellHistory

watcherVars == <<kind, item, begun, watcher, first, listing, live, created, terminated,
                 exported, halt, gaps, since>>
tables == <<live, created, terminated>>
world == <<kind, item, begun>>

Nothing == [k \in Keys |-> 0]
Nowhere == [items |-> Nothing, lost |-> {}, at |-> 0]
Unsaved == [live |-> Nothing, created |-> <<>>, terminated |-> <<>>]

WatchersInit ==
    /\ kind \in {"process", "net"}
    /\ item = Nothing /\ begun = 0
    /\ watcher = "start" /\ first = TRUE
    /\ listing = Nowhere
    /\ live = Nothing /\ created = <<>> /\ terminated = <<>>
    /\ exported = Unsaved
    /\ halt = FALSE
    /\ gaps = 0 /\ since = 0

Process == kind = "process"

-----------------------------------------------------------------------------
(* What Windows does.                                                      *)

Begins(k) ==
    /\ item[k] = 0 /\ begun < MaxItems
    /\ begun' = begun + 1
    /\ item' = [item EXCEPT ![k] = begun']
    /\ UNCHANGED <<kind, watcher, first, listing, tables, exported, halt, gaps, since>>
Ends(k) ==
    /\ item[k] # 0
    /\ item' = [item EXCEPT ![k] = 0]
    /\ UNCHANGED <<kind, begun, watcher, first, listing, tables, exported, halt, gaps, since>>

-----------------------------------------------------------------------------
(* The thread of a watcher.                                                *)

StartWatcher ==
    /\ watcher = "start" /\ watcher' = "list"
    /\ UNCHANGED <<world, first, listing, tables, exported, halt, gaps, since>>

\* CreateToolhelp32Snapshot fails: nothing is compared.
SnapshotFails ==
    /\ watcher = "list" /\ Process
    /\ watcher' = "look" /\ first' = FALSE
    /\ UNCHANGED <<world, listing, tables, exported, halt, gaps, since>>

\* A snapshot whose first process cannot be read is an empty listing; a table of
\* connections that cannot be read leaves its own connections out.
MayLack == IF Process THEN {{}, Keys} ELSE SUBSET Keys

TakeListing ==
    /\ watcher = "list" /\ watcher' = "compare"
    /\ \E lacking \in MayLack :
         LET lost == {k \in lacking : item[k] # 0} IN
         /\ lost = {} \/ gaps < MaxGaps
         /\ listing' = [items |-> [k \in Keys |-> IF k \in lost THEN 0 ELSE item[k]],
                        lost |-> {item[k] : k \in lost}, at |-> begun]
         /\ gaps' = IF lost = {} THEN gaps ELSE gaps + 1
    /\ UNCHANGED <<world, first, tables, exported, halt, since>>

Trimmed(rows) ==
    IF Len(rows) > KeepRows THEN SubSeq(rows, Len(rows) - KeepRows + 1, Len(rows)) ELSE rows

\* Variant of TakesSilently: only the initial listing makes no rows.
TakesSilentlyAtFirst == first

\* What was there before the watcher began makes no rows.  A process watcher
\* that has nothing to compare with begins anew.
TakesSilently == first \/ (Process /\ live = Nothing)

NewRows ==
    {[item |-> listing.items[k], gaps |-> gaps, since |-> since] :
        k \in {k \in Keys : listing.items[k] # 0 /\ live[k] = 0}}
EndedRows ==
    {[item |-> live[k], lost |-> live[k] \in listing.lost] :
        k \in {k \in Keys : Process /\ live[k] # 0 /\ listing.items[k] = 0}}

\* ProcessWatcherScanOnce and NetWatcherScanOnce once they have the lock.
Compare ==
    /\ watcher = "compare" /\ watcher' = "look" /\ first' = FALSE
    /\ live' = listing.items
    /\ \/ /\ TakesSilently
          /\ since' = listing.at
          /\ UNCHANGED <<created, terminated>>
       \/ /\ ~TakesSilently
          /\ \E new \in SetToSeqs(NewRows) : created' = Trimmed(created \o new)
          /\ \E ended \in SetToSeqs(EndedRows) : terminated' = Trimmed(terminated \o ended)
          /\ UNCHANGED since
    /\ listing' = Nowhere
    /\ UNCHANGED <<world, exported, halt, gaps>>

LookAtHalt ==
    /\ watcher = "look" /\ watcher' = IF halt THEN "ended" ELSE "list"
    /\ UNCHANGED <<world, first, listing, tables, exported, halt, gaps, since>>

WatcherThread == StartWatcher \/ TakeListing \/ SnapshotFails \/ Compare \/ LookAtHalt

-----------------------------------------------------------------------------
(* The GUI thread.  It joins the thread that it stops and does nothing else. *)

\* "Clear" in DrawProcessWatcherView and DrawNetWatcherView; only the latter
\* forgets what is there as well.
ClearRows ==
    /\ ~halt
    /\ created' = <<>> /\ terminated' = <<>>
    /\ \/ Process /\ UNCHANGED <<live, gaps>>
       \/ /\ ~Process /\ live' = Nothing
          /\ gaps < MaxGaps /\ gaps' = gaps + 1
    /\ UNCHANGED <<world, watcher, first, listing, exported, halt, since>>

ExportRows ==
    /\ ~halt
    /\ exported' = [live |-> live, created |-> created, terminated |-> terminated]
    /\ UNCHANGED <<world, watcher, first, listing, tables, halt, gaps, since>>

\* An import brings back the rows, and with the connections what was there.
ImportRows ==
    /\ ~halt
    /\ created' = exported.created /\ terminated' = exported.terminated
    /\ \/ Process /\ UNCHANGED <<live, gaps>>
       \/ /\ ~Process /\ live' = exported.live
          /\ gaps < MaxGaps /\ gaps' = gaps + 1
    /\ UNCHANGED <<world, watcher, first, listing, exported, halt, since>>

StopWatcher ==
    /\ ~halt /\ halt' = TRUE
    /\ UNCHANGED <<world, watcher, first, listing, tables, exported, gaps, since>>

WatchersNext ==
    \/ \E k \in Keys : Begins(k) \/ Ends(k)
    \/ WatcherThread
    \/ ClearRows \/ ExportRows \/ ImportRows \/ StopWatcher

-----------------------------------------------------------------------------
Items == 0 .. MaxItems
Row == [item : Items, gaps : 0 .. MaxGaps, since : Items]
EndRow == [item : Items, lost : BOOLEAN]

WatchersTypeOK ==
    /\ kind \in {"process", "net"}
    /\ item \in [Keys -> Items] /\ begun \in Items
    /\ watcher \in {"start", "list", "compare", "look", "ended"}
    /\ first \in BOOLEAN
    /\ listing \in [items : [Keys -> Items], lost : SUBSET Items, at : Items]
    /\ live \in [Keys -> Items]
    /\ created \in Seq(Row) /\ terminated \in Seq(EndRow)
    /\ exported \in [live : [Keys -> Items], created : Seq(Row), terminated : Seq(EndRow)]
    /\ halt \in BOOLEAN
    /\ gaps \in 0 .. MaxGaps /\ since \in Items

There(i) == \E k \in Keys : item[k] = i

\* What the watchers tell has happened.  Of processes: a Created row is of one
\* that began after the listing that the watch last began with ("since"), and
\* no process has two; a Terminated row is of one that has ended, and none has
\* two, save that an empty listing is taken for the end of all ("lost").  Of
\* connections: an event is of one that was made since the watch began, and
\* none has two, unless a table could not be read or the view was cleared or
\* replaced before it ("gaps").
CreationsTrue ==
    \A i, j \in DOMAIN created :
        LET again == ~Process /\ created[j].gaps > 0 IN
        /\ created[j].item > created[j].since \/ again
        /\ i < j /\ created[i].item = created[j].item
           => again /\ created[i].gaps < created[j].gaps
EndsTrue ==
    \A i, j \in DOMAIN terminated :
        /\ There(terminated[j].item) => terminated[j].lost
        /\ i < j /\ terminated[i].item = terminated[j].item => terminated[i].lost
WatchersTellHistory == CreationsTrue /\ EndsTrue

=============================================================================
