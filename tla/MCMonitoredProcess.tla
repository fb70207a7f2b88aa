-------------------------- MODULE MCMonitoredProcess --------------------------
(* MonitoredProcess with one pinned module, whose LoadLibrary is hooked     *)
(* first, and two modules that the target may unload, one hooked before     *)
(* OpenSSL and one after it.                                                *)
EXTENDS MonitoredProcess

MCLoadLibrary == <<"kernel32", "LoadLibrary">>
MCEarlyApis == <<MCLoadLibrary, <<"winhttp", "WinHttpOpen">>>>
MCLateApis == <<<<"bcrypt", "BCryptEncrypt">>>>

=============================================================================
