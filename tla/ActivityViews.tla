---------------------------- MODULE ActivityViews ----------------------------
(***************************************************************************)
(* The views that are rebuilt from the lists of events in every frame, one *)
(* at a time: they share nothing but those lists, which they only read.    *)
(* "view" is the view of a behaviour.                                      *)
(***************************************************************************)
EXTENDS FileActivity, ProcessActivity, RegistryActivity

VARIABLE view

viewVars == <<view, fileVars, processVars, registryVars>>

Init ==
    /\ view \in {"files", "processes", "registry"}
    /\ FileInit /\ ProcessInit /\ RegistryInit
    \* One start is enough for what a behaviour is not about.
    /\ view # "files" => \A p \in Paths : content[p] = Absent
    /\ view # "registry" => \A i \in Items : registry[i] = "Deleted"

Next ==
    \/ view = "files" /\ FileNext /\ UNCHANGED <<view, processVars, registryVars>>
    \/ view = "processes" /\ ProcessNext /\ UNCHANGED <<view, fileVars, registryVars>>
    \/ view = "registry" /\ RegistryNext /\ UNCHANGED <<view, fileVars, processVars>>

Spec == Init /\ [][Next]_viewVars

=============================================================================
