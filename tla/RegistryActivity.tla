--------------------------- MODULE RegistryActivity ---------------------------
(***************************************************************************)
(* What the Registry Activity view makes of the target's registry calls    *)
(* (BuildRegistryActivitySnapshot in gui.cpp): the keys it takes handles   *)
(* for, and the final state it shows of each key and value.                *)
(*                                                                         *)
(* A detour reports a call after the call: between the two, the target's   *)
(* other threads go on, and a handle may be used again before its closing  *)
(* is reported.  The threads of a correct target neither use a handle      *)
(* before its opening has returned nor close one that another call uses.   *)
(*                                                                         *)
(* A report is stamped and put into the list at one moment.  The view      *)
(* sorts by the stamps' milliseconds and then takes the last change of     *)
(* each item; std::sort is not stable, so that the changes of one          *)
(* millisecond stand in any order: "shown" holds each that may be the      *)
(* last.  A path is a sequence of names.  Left out: ETW rows, exclusions,  *)
(* persistence, histories, renamed, copied and loaded keys, and changes    *)
(* that other processes make.                                              *)
(***************************************************************************)
EXTENDS Integers, Sequences, FiniteSets

CONSTANTS
    Root,            \* a predefined handle
    Keys,            \* paths of keys below it
    KeyHandles,      \* values of handles, used again after they are closed
    KeyData,         \* what a value may hold
    RegThreads,      \* threads of the target
    MaxRegCalls      \* bound: registry calls

ASSUME RegistryAssumption ==
    /\ \A k \in Keys : k \in Seq({k[n] : n \in DOMAIN k}) /\ Len(k) > 1 /\ k[1] = Root
    /\ Root \notin KeyHandles /\ MaxRegCalls \in Nat

Items == Keys \X {"key", "value"}
Below(k, path) == Len(path) <= Len(k) /\ SubSeq(k, 1, Len(path)) = path
NoKey == <<>>
Idle == [op |-> "none", ok |-> FALSE]

VARIABLES
    registry,        \* state of each item: data, "Created" or "Deleted"
    opened,          \* the key each handle is open for, or NoKey
    report,          \* by thread: the call it has made and not yet reported
    regCalls,        \* number of calls made
    native,          \* g_NativeRegistryHandles
    mapped,          \* keyHandlePath
    shown,           \* stateMap: what may be shown of each item
    recent,          \* items with a change in the current millisecond
    misread,         \* handles that the view takes for another key, or for none
    knowledge        \* what the reports determine of each item

registryWorld == <<registry, opened, regCalls>>
registryView  == <<mapped, shown, recent>>
registryVars  == <<registryWorld, report, native, registryView, misread, knowledge>>

RegistryInit ==
    /\ registry \in [Items -> {"Created", "Deleted"} \cup KeyData]
    /\ \A k \in Keys : /\ registry[<<k, "key">>] \in {"Created", "Deleted"}
                       /\ registry[<<k, "value">>] # "Created"
    /\ \A i \in Items, k \in Keys :
          Below(i[1], k) /\ registry[<<k, "key">>] = "Deleted" => registry[i] = "Deleted"
    /\ opened = [h \in KeyHandles |-> NoKey]
    /\ report = [t \in RegThreads |-> Idle] /\ regCalls = 0
    /\ native = {} /\ mapped = [h \in KeyHandles |-> NoKey]
    /\ shown = [i \in Items |-> {}] /\ recent = {}
    /\ misread = {} /\ knowledge = [i \in Items |-> "none"]

-----------------------------------------------------------------------------
(* The view.                                                               *)

\* A handle that was not seen opened stands for itself.
Resolve(e) ==
    (IF e.base \in KeyHandles /\ mapped[e.base] # NoKey THEN mapped[e.base] ELSE <<e.base>>)
    \o e.sub

\* Variant of SeeHandles: a closing that failed is taken for one.
SeeHandlesAlways(e) ==
    mapped' = IF e.op = "close" THEN [mapped EXCEPT ![e.base] = NoKey]
              ELSE IF e.ok /\ e.op \in {"open", "create"}
                   THEN [mapped EXCEPT ![e.handle] = Resolve(e)] ELSE mapped
SeeHandles(e) ==
    mapped' = IF e.ok /\ e.op = "close" THEN [mapped EXCEPT ![e.base] = NoKey]
              ELSE IF e.ok /\ e.op \in {"open", "create"}
                   THEN [mapped EXCEPT ![e.handle] = Resolve(e)] ELSE mapped

Changes(e) == e.op \in {"create", "set", "delete value", "delete key"}
Part(e) == IF e.op \in {"create", "delete key"} THEN "key" ELSE "value"
SeenItem(e) == <<Resolve(e), Part(e)>>

\* A value that is read is shown only when nothing is.
SeeState(e) ==
    LET i == SeenItem(e)
    IN  IF e.ok /\ i \in Items /\ (Changes(e) \/ (e.op = "query" /\ shown[i] = {}))
        THEN /\ shown' = [shown EXCEPT ![i] = {e.state} \cup IF i \in recent THEN @ ELSE {}]
             /\ recent' = IF Changes(e) THEN recent \cup {i} ELSE recent
        ELSE UNCHANGED <<shown, recent>>

SeeRegistry(e) == SeeHandles(e) /\ SeeState(e)

-----------------------------------------------------------------------------
(* The target's calls.                                                     *)

KeyOf(b) == IF b = Root THEN <<Root>> ELSE opened[b]
Rest(k, path) == SubSeq(k, Len(path) + 1, Len(k))
Opening(h) == \E t \in RegThreads : /\ report[t].ok /\ report[t].op \in {"open", "create"}
                                      /\ report[t].handle = h
Usable(b) == b # Root => opened[b] # NoKey /\ ~Opening(b)
Exists(k) == k # <<Root>> => registry[<<k, "key">>] = "Created"
ItemOf(e) == <<KeyOf(e.base) \o e.sub, Part(e)>>
Changing(i) == \E t \in RegThreads : report[t].ok /\ Changes(report[t]) /\ ItemOf(report[t]) = i

\* A thread makes a call; its report stands out.
RegistryCall(t, e) ==
    /\ report[t] = Idle /\ regCalls < MaxRegCalls
    /\ regCalls' = regCalls + 1 /\ report' = [report EXCEPT ![t] = e]
    /\ UNCHANGED <<native, registryView>>

Made(op, api, b, k, h, state, ok) ==
    [op |-> op, api |-> api, base |-> b, sub |-> Rest(k, KeyOf(b)), handle |-> h,
     state |-> state, ok |-> ok]

\* What the reports say of an item is in doubt when two threads change it at
\* once, and known again after a change that meets no other.
KnownAfter(i, more) ==
    knowledge' = [j \in Items |-> IF j \in more \/ (j = i /\ Changing(i)) THEN "in doubt"
                                  ELSE IF j = i THEN "known" ELSE knowledge[j]]

OpenKey(t, h, b, k, api) ==
    /\ opened[h] = NoKey /\ Usable(b) /\ Below(k, KeyOf(b)) /\ Exists(k)
    /\ opened' = [opened EXCEPT ![h] = k]
    /\ RegistryCall(t, Made("open", api, b, k, h, "Created", TRUE))
    /\ UNCHANGED <<registry, misread, knowledge>>

\* Keys on the way are created as well, and not reported.
CreateKey(t, h, b, k, api) ==
    LET new == {j \in Keys : Below(k, j) /\ ~Exists(j)}
    IN  /\ opened[h] = NoKey /\ Usable(b) /\ Below(k, KeyOf(b)) /\ Exists(KeyOf(b))
        /\ opened' = [opened EXCEPT ![h] = k]
        /\ registry' = [i \in Items |-> IF i[1] \in new /\ i[2] = "key" THEN "Created"
                                        ELSE registry[i]]
        /\ RegistryCall(t, Made("create", api, b, k, h, "Created", TRUE))
        /\ KnownAfter(<<k, "key">>, (new \ {k}) \X {"key"})
        /\ UNCHANGED misread

SetValue(t, h, d) ==
    LET k == opened[h]
    IN  /\ k # NoKey /\ Usable(h) /\ Exists(k)
        /\ registry' = [registry EXCEPT ![<<k, "value">>] = d]
        /\ RegistryCall(t, Made(IF d = "Deleted" THEN "delete value" ELSE "set", "Reg", h, k, h, d, TRUE))
        /\ KnownAfter(<<k, "value">>, {})
        /\ UNCHANGED <<opened, misread>>

QueryValue(t, h) ==
    LET k == opened[h]
    IN  /\ k # NoKey /\ Usable(h) /\ Exists(k) /\ registry[<<k, "value">>] # "Deleted"
        /\ RegistryCall(t, Made("query", "Reg", h, k, h, registry[<<k, "value">>], TRUE))
        /\ UNCHANGED <<registry, opened, misread, knowledge>>

\* RegDeleteTree and RegDeleteKey: only the key itself is reported.
DeleteKey(t, b, k) ==
    LET gone == {i \in Items : Below(i[1], k)}
    IN  /\ Usable(b) /\ Below(k, KeyOf(b)) /\ Exists(k)
        /\ registry' = [i \in Items |-> IF i \in gone THEN "Deleted" ELSE registry[i]]
        /\ RegistryCall(t, Made("delete key", "Reg", b, k, b, "Deleted", TRUE))
        /\ KnownAfter(<<k, "key">>, gone \ {<<k, "key">>})
        /\ UNCHANGED <<opened, misread>>

CloseKey(t, h, api) ==
    /\ opened[h] # NoKey /\ Usable(h)
    /\ \A u \in RegThreads : report[u] # Idle => h # report[u].base
    /\ opened' = [opened EXCEPT ![h] = NoKey] /\ misread' = misread \ {h}
    /\ RegistryCall(t, Made("close", api, h, opened[h], h, "Closed", TRUE))
    /\ UNCHANGED <<registry, knowledge>>

\* Of what fails, a closing of a handle that is not open, and a change that the
\* target is not allowed to make.
RegistryCallFails(t, h, op) ==
    /\ \/ op = "close" /\ opened[h] = NoKey
       \/ op = "set" /\ opened[h] # NoKey /\ Usable(h)
    /\ RegistryCall(t, [op |-> op, api |-> "Reg", base |-> h, sub |-> <<>>, handle |-> h,
                        state |-> "Failed", ok |-> FALSE])
    /\ UNCHANGED <<registry, opened, misread, knowledge>>

\* Inside another hooked call, or by a function that is not hooked, handles are
\* opened and closed that no report speaks of.
OpenKeyUnseen(h, k) ==
    /\ opened[h] = NoKey /\ Exists(k) /\ regCalls < MaxRegCalls
    /\ opened' = [opened EXCEPT ![h] = k] /\ regCalls' = regCalls + 1
    /\ misread' = misread \cup {h}
    /\ UNCHANGED <<registry, report, native, registryView, knowledge>>
CloseKeyUnseen(h) ==
    /\ opened[h] # NoKey /\ Usable(h) /\ regCalls < MaxRegCalls
    /\ \A u \in RegThreads : report[u] # Idle => h # report[u].base
    /\ opened' = [opened EXCEPT ![h] = NoKey] /\ regCalls' = regCalls + 1
    /\ misread' = misread \ {h}
    /\ UNCHANGED <<registry, report, native, registryView, knowledge>>

-----------------------------------------------------------------------------
\* A detour reports its call.  NtClose closes handles of any kind: only one
\* that is known to be a key's is reported.
Reported(e) == ~(e.op = "close" /\ e.api = "Nt") \/ e.base \in native

ReportCall(t) ==
    LET e == report[t]
    IN  /\ e # Idle
        /\ report' = [report EXCEPT ![t] = Idle]
        /\ native' = IF e.api # "Nt" THEN native
                     ELSE IF e.op = "close" THEN native \ {e.base} ELSE native \cup {e.handle}
        /\ IF Reported(e) THEN SeeRegistry(e) ELSE UNCHANGED registryView
        /\ misread' = IF ~e.ok \/ ~Reported(e) THEN misread
                      ELSE IF e.op = "close" /\ opened[e.base] # NoKey THEN misread \cup {e.base}
                      ELSE IF e.op \notin {"open", "create"} THEN misread
                      ELSE IF e.base \in misread THEN misread \cup {e.handle}
                      ELSE misread \ {e.handle}
        /\ knowledge' = [i \in Items |->
                            IF e.ok /\ e.op # "close" /\ e.base \in misread
                                    /\ i \in {ItemOf(e), SeenItem(e)}
                            THEN "in doubt" ELSE knowledge[i]]
        /\ UNCHANGED registryWorld

Millisecond == recent # {} /\ recent' = {}
               /\ UNCHANGED <<registryWorld, report, native, mapped, shown, misread, knowledge>>

RegistryNext ==
    \/ \E t \in RegThreads, h \in KeyHandles :
          \/ \E b \in KeyHandles \cup {Root}, k \in Keys, api \in {"Reg", "Nt"} :
                OpenKey(t, h, b, k, api) \/ CreateKey(t, h, b, k, api)
          \/ \E d \in KeyData \cup {"Deleted"} : SetValue(t, h, d)
          \/ QueryValue(t, h)
          \/ \E api \in {"Reg", "Nt"} : CloseKey(t, h, api)
          \/ \E op \in {"close", "set"} : RegistryCallFails(t, h, op)
    \/ \E t \in RegThreads, b \in KeyHandles \cup {Root}, k \in Keys : DeleteKey(t, b, k)
    \/ \E h \in KeyHandles, k \in Keys : OpenKeyUnseen(h, k) \/ CloseKeyUnseen(h)
    \/ \E t \in RegThreads : ReportCall(t)
    \/ Millisecond

RegistrySpec == RegistryInit /\ [][RegistryNext]_registryVars

-----------------------------------------------------------------------------
\* The final state that the Registry Activity view shows of a key or a value is
\* the one it has, or that of another change in the same millisecond, unless a
\* call on it stands out or the reports leave it in doubt: two threads changed it
\* at once, it went or came with another key, or its handle was misread.
FinalStateTrue ==
    \A i \in Items :
        \/ knowledge[i] = "in doubt" \/ Changing(i) \/ registry[i] \in shown[i]
        \/ knowledge[i] = "none" /\ shown[i] = {}

=============================================================================
