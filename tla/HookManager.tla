------------------------------ MODULE HookManager ------------------------------
(***************************************************************************)
(* The agent's hooks in a monitored process: InstallHooks and RemoveHooks   *)
(* of hooks.cpp on the agent's thread, the hooks on OpenSSL that any thread *)
(* adds when it loads such a module (TryInstallOpenSslHooks), and MinHook,  *)
(* which keeps the list of hooks and patches the functions.                 *)
(*                                                                         *)
(* MinHook does each of its calls under a lock of its own, and with the     *)
(* process's other threads suspended when it patches.  The target loads and *)
(* unloads modules at will; a module that the agent had to load stays.      *)
(*                                                                         *)
(* A function is a pair of its module and its name; the four functions of   *)
(* an OpenSSL module are one.  Left out: the switches of the trace          *)
(* configuration, functions that are not exported or are aliases of others, *)
(* and memory that another mapping takes the place of.                     *)
(***************************************************************************)
EXTENDS Integers, Sequences

CONSTANTS
    Loaders,         \* threads of the process that load modules
    Pinned,          \* modules that are never unloaded
    SslModules,      \* modules that export the functions of OpenSSL
    EarlyApis,       \* the functions that are hooked before OpenSSL, in order
    LateApis,        \* and after it
    LoadLibrary,     \* the function whose detour looks for OpenSSL
    Installer        \* the agent's thread

Apis == {EarlyApis[i] : i \in DOMAIN EarlyApis} \cup {LateApis[i] : i \in DOMAIN LateApis}
ModuleOf(api) == api[1]
Ssl(m) == <<m, "SSL">>
Modules == Pinned \cup SslModules \cup {ModuleOf(api) : api \in Apis}
Functions == Apis \cup {Ssl(m) : m \in SslModules}
NoModule == "-"
Users == Loaders \cup {Installer}

ASSUME HookAssumption ==
    /\ EarlyApis \in Seq(Apis) /\ LateApis \in Seq(Apis)
    /\ Installer \notin Loaders /\ LoadLibrary \in Apis /\ ModuleOf(LoadLibrary) \in Pinned
    /\ NoModule \notin Modules

VARIABLES
    loaded,          \* the modules of the process
    held,            \* those the agent has loaded
    patched,         \* functions whose code jumps into the agent
    list,            \* MinHook's hooks: function and isEnabled
    initialised,     \* g_hHeap is there
    hooked,          \* functions with the status "Hooked"
    original,        \* pfnSSL_write is set
    activated,       \* g_HooksActivated
    installer,       \* the agent's thread: what it does next
    next,            \* and which of the functions it hooks next
    found,           \* OpenSSL modules of its snapshot it has not come to
    ssl,             \* threads in TryInstallOpenSslHooks: place and module
    sslMutex,        \* holder of g_OpenSslHookMutex, or NoModule
    lost,            \* hooked functions whose module has been unloaded
    between          \* functions hooked between the enabling and the activation

minhook == <<patched, list, initialised>>
modules == <<loaded, held>>
agentThread == <<installer, next, found>>
opensslHooks == <<original, ssl, sslMutex>>
ghosts == <<lost, between>>
hookVars == <<modules, minhook, hooked, opensslHooks, activated, agentThread, ghosts>>

Outside == [at |-> "out", module |-> NoModule]

HookInit ==
    /\ loaded \in {Pinned \cup M : M \in SUBSET (Modules \ Pinned)} /\ held = {}
    /\ patched = {} /\ list = <<>> /\ initialised = FALSE
    /\ hooked = {} /\ original = FALSE /\ activated = FALSE
    /\ installer = "initialize" /\ next = 1 /\ found = {}
    /\ ssl = [u \in Users |-> Outside] /\ sslMutex = NoModule
    /\ lost = {} /\ between = {}

-----------------------------------------------------------------------------
(* MinHook.                                                                *)

Hooks(f) == {i \in DOMAIN list : list[i].function = f}

\* EnableAllHooksLL: it ends at the first hook whose memory cannot be written.
Switch(enable) == {i \in DOMAIN list : list[i].enabled # enable}
Stuck(enable) == {i \in Switch(enable) : ModuleOf(list[i].function) \notin loaded}
Switched(enable) == {i \in Switch(enable) : \A j \in Stuck(enable) : i < j}
EnableAll(enable) ==
    LET fs == {list[i].function : i \in Switched(enable)}
    IN  /\ list' = [i \in DOMAIN list |->
                       IF i \in Switched(enable) THEN [list[i] EXCEPT !.enabled = enable] ELSE list[i]]
        /\ patched' = IF enable THEN patched \cup fs ELSE patched \ fs

\* Variant of Uninitialize: the hooks are only forgotten.
UninitializeForgets ==
    list' = <<>> /\ initialised' = FALSE /\ UNCHANGED patched
Uninitialize ==
    LET fs == {list[i].function : i \in Switched(FALSE)}
    IN  IF Stuck(FALSE) = {}
        THEN list' = <<>> /\ initialised' = FALSE /\ patched' = patched \ fs
        ELSE EnableAll(FALSE) /\ UNCHANGED initialised

CreateHook(f) ==
    IF initialised /\ ModuleOf(f) \in loaded /\ Hooks(f) = {}
    THEN list' = Append(list, [function |-> f, enabled |-> FALSE])
    ELSE UNCHANGED list
Created(f) == initialised /\ (ModuleOf(f) \in loaded \/ Hooks(f) # {})

EnableHook(f) ==
    IF ModuleOf(f) \in loaded /\ \E i \in Hooks(f) : ~list[i].enabled
    THEN /\ list' = [i \in DOMAIN list |->
                        IF i \in Hooks(f) THEN [list[i] EXCEPT !.enabled = TRUE] ELSE list[i]]
         /\ patched' = patched \cup {f}
    ELSE UNCHANGED <<list, patched>>

-----------------------------------------------------------------------------
(* TryInstallOpenSslHooks.                                                 *)

SslGoes(u, from, to) == ssl[u].at = from /\ ssl' = [ssl EXCEPT ![u].at = to]
SslLeaves(u) == ssl' = [ssl EXCEPT ![u] = Outside] /\ sslMutex' = NoModule

SslLock(u) ==
    /\ sslMutex = NoModule /\ sslMutex' = u
    /\ SslGoes(u, "lock", "create")
    /\ UNCHANGED <<modules, minhook, hooked, original, activated, agentThread, ghosts>>

\* Only the first OpenSSL module is hooked.
SslCreate(u) ==
    LET f == Ssl(ssl[u].module)
    IN  /\ ssl[u].at = "create"
        /\ IF original
           THEN SslLeaves(u) /\ UNCHANGED <<list, hooked, original, between>>
           ELSE /\ CreateHook(f)
                /\ IF Created(f)
                   THEN /\ hooked' = hooked \cup {f} /\ original' = (Hooks(f) = {})
                        /\ ssl' = [ssl EXCEPT ![u].at = "look"] /\ UNCHANGED sslMutex
                        /\ between' = IF installer = "activate" THEN between \cup {f} ELSE between
                   ELSE SslLeaves(u) /\ UNCHANGED <<hooked, original, between>>
        /\ UNCHANGED <<modules, patched, initialised, activated, agentThread, lost>>

SslLook(u) ==
    /\ ssl[u].at = "look"
    /\ IF activated THEN SslGoes(u, "look", "enable") /\ UNCHANGED sslMutex ELSE SslLeaves(u)
    /\ UNCHANGED <<modules, minhook, hooked, original, activated, agentThread, ghosts>>
SslEnable(u) ==
    /\ ssl[u].at = "enable" /\ SslLeaves(u)
    /\ EnableHook(Ssl(ssl[u].module))
    /\ UNCHANGED <<modules, initialised, hooked, original, activated, agentThread, ghosts>>

TryInstallOpenSslHooks(u) == SslLock(u) \/ SslCreate(u) \/ SslLook(u) \/ SslEnable(u)

-----------------------------------------------------------------------------
(* InstallHooks and RemoveHooks.                                           *)

Goes(from, to) == installer = from /\ installer' = to

MH_Initialize ==
    /\ Goes("initialize", "early") /\ initialised' = TRUE
    /\ UNCHANGED <<modules, patched, list, hooked, opensslHooks, activated, next, found, ghosts>>

\* InstallHookApiTracked for one function after the other, whose module is
\* loaded if need be; a hook may fail.
Install(apis, from, to) ==
    /\ installer = from
    /\ IF next > Len(apis)
       THEN /\ installer' = to /\ next' = 1
            /\ found' = IF to = "openssl" THEN loaded \cap SslModules ELSE found
            /\ UNCHANGED <<modules, list, hooked>>
       ELSE LET f == apis[next]
            IN  /\ next' = next + 1
                /\ loaded' = loaded \cup {ModuleOf(f)}
                /\ held' = IF ModuleOf(f) \in loaded THEN held ELSE held \cup {ModuleOf(f)}
                /\ \/ /\ list' = Append(list, [function |-> f, enabled |-> FALSE])
                      /\ hooked' = hooked \cup {f}
                   \/ UNCHANGED <<list, hooked>>
                /\ UNCHANGED <<installer, found>>
    /\ UNCHANGED <<patched, initialised, opensslHooks, activated, ghosts>>

InstallLoadedOpenSslHooks ==
    /\ installer = "openssl" /\ ssl[Installer] = Outside
    /\ \/ \E m \in found :
            /\ found' = found \ {m}
            /\ ssl' = IF m \in loaded
                      THEN [ssl EXCEPT ![Installer] = [at |-> "lock", module |-> m]] ELSE ssl
            /\ UNCHANGED installer
       \/ found = {} /\ installer' = "late" /\ UNCHANGED <<found, ssl>>
    /\ UNCHANGED <<modules, minhook, hooked, original, sslMutex, activated, next, ghosts>>

MH_EnableHook ==
    /\ Goes("enable", IF Stuck(TRUE) = {} THEN "activate" ELSE "failed")
    /\ EnableAll(TRUE)
    /\ UNCHANGED <<modules, initialised, hooked, opensslHooks, activated, next, found, ghosts>>

\* Variant of Activate: the hooks are not said to be active.
ActivateNothing ==
    /\ Goes("activate", "count")
    /\ UNCHANGED <<modules, minhook, hooked, opensslHooks, activated, next, found, ghosts>>
Activate ==
    /\ Goes("activate", "count") /\ activated' = TRUE
    /\ UNCHANGED <<modules, minhook, hooked, opensslHooks, next, found, ghosts>>
CountHooks ==
    /\ Goes("count", IF hooked = {} THEN "failed" ELSE "installed")
    /\ UNCHANGED <<modules, minhook, hooked, opensslHooks, activated, next, found, ghosts>>

\* After a failure, and when the pipe is closed; the agent unloads itself only
\* in the second case.
Deactivate ==
    /\ installer \in {"installed", "failed"} /\ activated' = FALSE
    /\ installer' = IF installer = "installed" THEN "disable" ELSE "disable failed"
    /\ UNCHANGED <<modules, minhook, hooked, opensslHooks, next, found, ghosts>>
MH_DisableHook ==
    /\ Goes("disable", "uninitialize") \/ Goes("disable failed", "uninitialize failed")
    /\ EnableAll(FALSE)
    /\ UNCHANGED <<modules, initialised, hooked, opensslHooks, activated, next, found, ghosts>>
MH_Uninitialize ==
    /\ Goes("uninitialize", "removed") \/ Goes("uninitialize failed", "stays")
    /\ Uninitialize
    /\ UNCHANGED <<modules, hooked, opensslHooks, activated, next, found, ghosts>>
UnloadAgent ==
    /\ Goes("removed", "unloaded")
    /\ UNCHANGED <<modules, minhook, hooked, opensslHooks, activated, next, found, ghosts>>

AgentsThread ==
    \/ MH_Initialize
    \/ Install(EarlyApis, "early", "openssl") \/ Install(LateApis, "late", "enable")
    \/ InstallLoadedOpenSslHooks \/ TryInstallOpenSslHooks(Installer)
    \/ MH_EnableHook \/ Activate \/ CountHooks
    \/ Deactivate \/ MH_DisableHook \/ MH_Uninitialize \/ UnloadAgent

-----------------------------------------------------------------------------
(* The target.                                                             *)

\* In the detour of LoadLibrary the thread looks for OpenSSL afterwards, also
\* when the module was loaded already.
LoadModule(t, m) ==
    /\ ssl[t] = Outside
    /\ loaded' = loaded \cup {m}
    /\ ssl' = IF LoadLibrary \in patched /\ m \in SslModules
              THEN [ssl EXCEPT ![t] = [at |-> "lock", module |-> m]] ELSE ssl
    /\ UNCHANGED <<held, minhook, hooked, original, sslMutex, activated, agentThread, ghosts>>

\* Whoever has loaded a module holds it while it is in LoadLibrary.
UnloadModule(m) ==
    /\ m \in loaded \ (Pinned \cup held)
    /\ \A t \in Loaders : ssl[t].module # m
    /\ loaded' = loaded \ {m}
    /\ patched' = {f \in patched : ModuleOf(f) # m}
    /\ lost' = lost \cup {f \in hooked : ModuleOf(f) = m}
    /\ UNCHANGED <<held, list, initialised, hooked, opensslHooks, activated, agentThread, between>>

HookNext ==
    \/ AgentsThread
    \/ \E t \in Loaders : TryInstallOpenSslHooks(t) \/ \E m \in Modules : LoadModule(t, m)
    \/ \E m \in Modules : UnloadModule(m)

HookSpec == HookInit /\ [][HookNext]_hookVars

-----------------------------------------------------------------------------
\* "Hooked" in the list of hooks is true of a function whose module has stayed
\* where it was, once InstallHooks has succeeded, whichever thread hooked it;
\* not of one that is hooked between the enabling of all and g_HooksActivated.
HookedIsActive ==
    installer = "installed" =>
        \A f \in hooked \ (lost \cup between) :
            f \in patched \/ \E u \in Users : ssl[u].module = ModuleOf(f)

\* "If the pipe closes or is disconnected, we remove hooks and unload the DLL"
\* (agent.cpp:252): when RemoveHooks has returned, no function leads into the
\* agent any more, though another thread may just be adding hooks; unless a
\* module with a hook has been unloaded, whose patch cannot be taken back.
RemovalComplete ==
    installer \in {"removed", "unloaded", "stays"} /\ lost = {} => patched = {}

=============================================================================
