----------------------------- MODULE Services ------------------------------
(***************************************************************************)
(* What is behind system calls and kernel threads, for TLC: open files     *)
(* (Files), connections (Tcp), addresses and names (Lookup), loadable      *)
(* modules (Modules) and the mutex (Mutex).  They share no state: a        *)
(* behaviour is one of the part `service` names.                           *)
(***************************************************************************)
EXTENDS Files, Tcp, Lookup, Modules, Mutex

VARIABLE service

serviceVars == <<fileVars, tcpVars, lookupVars, modVars, mutexVars, service>>

ServicesInit ==
    /\ FilesInit /\ TcpInit /\ LookupInit /\ ModInit /\ MutexInit
    /\ service \in {"files", "tcp", "lookup", "modules", "mutex"}

ServicesNext ==
    \/ /\ service = "files" /\ FilesNext
       /\ UNCHANGED <<tcpVars, lookupVars, modVars, mutexVars, service>>
    \/ /\ service = "tcp" /\ TcpNext
       /\ UNCHANGED <<fileVars, lookupVars, modVars, mutexVars, service>>
    \/ /\ service = "lookup" /\ LookupNext
       /\ UNCHANGED <<fileVars, tcpVars, modVars, mutexVars, service>>
    \/ /\ service = "modules" /\ ModNext
       /\ UNCHANGED <<fileVars, tcpVars, lookupVars, mutexVars, service>>
    \/ /\ service = "mutex" /\ MutexNext
       /\ UNCHANGED <<fileVars, tcpVars, lookupVars, modVars, service>>
    \* The bounds of the other four end their behaviours.
    \/ service # "files" /\ UNCHANGED serviceVars

ServicesSpec == ServicesInit /\ [][ServicesNext]_serviceVars
=============================================================================
