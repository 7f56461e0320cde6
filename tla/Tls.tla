-------------------------------- MODULE Tls --------------------------------
(***************************************************************************)
(* The FS base across the operations of Sched: who writes MSR_FS_BASE, and *)
(* what the programs expect to find there.  A thread pointer is named by   *)
(* the pid that set it up; fork copies it with the address space.          *)
(***************************************************************************)
EXTENDS Sched

VARIABLES
    fs,     \* the thread pointer in MSR_FS_BASE, 0 for none
    tls     \* pid -> the thread pointer its program has, 0 for none

tlsVars == <<vars, fs, tls>>

TlsInit == Init /\ fs = 0 /\ tls = [p \in Pids |-> 0]

\* clone_process copies tls_base along with the address space.
TlsFork ==
    /\ Fork
    /\ tls' = [tls EXCEPT ![next_pid] = tls[current_process]]
    /\ UNCHANGED fs

\* create_process_from_elf stores the base of the ELF's TLS segment.
TlsSpawn ==
    /\ Spawn
    /\ tls' = [tls EXCEPT ![next_pid] = next_pid]
    /\ UNCHANGED fs

\* arch_prctl(ARCH_SET_FS): the MSR, not the process_t, takes the address.
ArchPrctl ==
    /\ InUser
    /\ fs' = current_process
    /\ tls' = [tls EXCEPT ![current_process] = current_process]
    /\ UNCHANGED vars

\* execve of a program without a TLS segment: replace_process_with_elf
\* writes 0, and jump_to_usermode's load of the FS selector does the same.
TlsExec ==
    /\ InUser
    /\ fs' = 0
    /\ tls' = [tls EXCEPT ![current_process] = 0]
    /\ UNCHANGED vars

\* No other path writes the MSR: neither the scheduler nor the resume paths.
TlsOther ==
    /\ Timer \/ OtherStep
    /\ UNCHANGED <<fs, tls>>

TlsNext == TlsFork \/ TlsSpawn \/ ArchPrctl \/ TlsExec \/ TlsOther

TlsSpec == TlsInit /\ [][TlsNext]_tlsVars

\* The FS base is the current program's whenever that program has one: the
\* scheduler loads it with the rest of the context.
FsFollowsProcess ==
    InUser /\ tls[current_process] # 0 => fs = tls[current_process]
=============================================================================
