-------------------------------- MODULE Files --------------------------------
(***************************************************************************)
(* The two descriptor tables of the kernel and who owns what they point to. *)
(* open, close, fork, exec and exit work on the files array of a process   *)
(* (arch/x86/syscall.c, kernel/sched.c, lib/libc/elf/load.c), whose entries *)
(* are never shared.  pipe, dup, dup2 and fcntl work on the one table of   *)
(* vfse (lib/libc/fs/vfse.c), whose entries count their references; all    *)
(* its files are pipe ends.  execve closes in the second what it finds in  *)
(* the first.  Memory is finite: an allocation fails when none is left.    *)
(***************************************************************************)
EXTENDS Integers, FiniteSetsExt, SequencesExt

CONSTANTS
    Procs,          \* process structures
    MAX_FILES,      \* entries of proc->files
    VFSE_MAX_FDS,   \* entries of vfse_current->fds
    FirstFd,        \* the first descriptor that is not stdio (3)
    MaxFiles,       \* bound: vfs_file_t that fit in memory
    MaxEnds,        \* bound: vfse_file_t that fit in memory
    MaxPipes        \* bound: struct vfse_pipe that fit in memory

ASSUME FilesAssumption ==
    /\ {MAX_FILES, VFSE_MAX_FDS, FirstFd, MaxFiles, MaxEnds, MaxPipes} \subseteq Nat
    /\ FirstFd < MAX_FILES
    /\ MAX_FILES <= VFSE_MAX_FDS

VARIABLES
    files,      \* process -> descriptor -> its vfs_file_t, 0 for NULL
    procs,      \* the processes that exist
    heap,       \* the vfs_file_t that are allocated
    forgotten,  \* those execve or a failed spawn dropped without freeing
    vfse        \* vfse_current, its files and pipes: see FilesInit

fileVars == <<files, procs, heap, forgotten, vfse>>

Fds == 0 .. MAX_FILES - 1
VFds == 0 .. VFSE_MAX_FDS - 1
Ends == 1 .. MaxEnds
Pipes == 1 .. MaxPipes
NoFiles == [fd \in Fds |-> 0]

\* The n lowest free blocks, if there are so many.
Fresh(used, all, n) ==
    {s \in SUBSET (all \ used) :
        /\ Cardinality(s) = n
        /\ \A x \in s, y \in (all \ used) \ s : x < y}

-----------------------------------------------------------------------------
(* proc->files *)

\* sys_open of a path that exists, up to the table and the memory.
Open(p) ==
    \E fd \in FirstFd .. MAX_FILES - 1, s \in Fresh(heap, 1 .. MaxFiles, 1) :
        /\ files[p][fd] = 0
        /\ \A i \in FirstFd .. fd - 1 : files[p][i] # 0
        /\ files' = [files EXCEPT ![p][fd] = Min(s)]
        /\ heap' = heap \cup s
        /\ UNCHANGED <<procs, forgotten, vfse>>

\* sys_close.
Close(p) ==
    \E fd \in FirstFd .. MAX_FILES - 1 :
        /\ files[p][fd] # 0
        /\ heap' = heap \ {files[p][fd]}
        /\ files' = [files EXCEPT ![p][fd] = 0]
        /\ UNCHANGED <<procs, forgotten, vfse>>

\* Variant: the child gets the parent's pointers.
ForkShares(p) ==
    \E q \in Procs \ procs :
        /\ files' = [files EXCEPT ![q] = files[p]]
        /\ procs' = procs \cup {q}
        /\ UNCHANGED <<heap, forgotten, vfse>>

\* clone_process: every open file is copied with dup_file.  When one copy
\* fails, those made before it are freed again and nothing has changed.
Fork(p) ==
    \E q \in Procs \ procs :
        LET open == {fd \in Fds : files[p][fd] # 0}
        IN  \E s \in Fresh(heap, 1 .. MaxFiles, Cardinality(open)) :
                /\ files' = [files EXCEPT ![q] = [fd \in Fds |->
                      IF fd \in open
                        THEN SetToSortSeq(s, <)[Cardinality({i \in open : i <= fd})]
                        ELSE 0]]
                /\ heap' = heap \cup s
                /\ procs' = procs \cup {q}
                /\ UNCHANGED <<forgotten, vfse>>

\* sys_spawn: create_process_from_elf opens stdio on the TTY, as far as
\* memory goes.  add_process's result is ignored: with a full table the new
\* process and its files are forgotten.
Spawn ==
    LET n == Min({FirstFd, MaxFiles - Cardinality(heap)})
    IN  \E s \in Fresh(heap, 1 .. MaxFiles, n) :
            /\ heap' = heap \cup s
            /\ \/ \E q \in Procs \ procs :
                     /\ procs' = procs \cup {q}
                     /\ files' = [files EXCEPT ![q] = [fd \in Fds |->
                           IF fd < n THEN SetToSortSeq(s, <)[fd + 1] ELSE 0]]
                     /\ UNCHANGED forgotten
               \/ /\ procs = Procs
                  /\ forgotten' = forgotten \cup s
                  /\ UNCHANGED <<procs, files>>
            /\ UNCHANGED vfse

\* process_destroy: process_close_files.
Destroy(p) ==
    /\ heap' = heap \ Range(files[p])
    /\ files' = [files EXCEPT ![p] = NoFiles]
    /\ procs' = procs \ {p}
    /\ UNCHANGED <<forgotten, vfse>>

-----------------------------------------------------------------------------
(* vfse_current *)

\* vfse_free_file.  stale: memory is freed that something still points to,
\* or freed twice.
FreeFile(v, f) ==
    LET p == v.end[f].pipe
    IN  [v EXCEPT !.ends = @ \ {f},
                  !.pipes = @ \ {p},
                  !.stale = @ \/ p \notin v.pipes
                              \/ \E g \in v.ends \ {f} : v.end[g].pipe = p]

\* Variant: the hint is not lowered.
FreeFdKeepsHint(v, fd) ==
    LET f == v.fds[fd]
        w == [v EXCEPT !.end[f].ref = @ - 1, !.stale = @ \/ f \notin v.ends]
        x == IF w.end[f].ref <= 0 THEN FreeFile(w, f) ELSE w
    IN  IF f = 0 THEN v ELSE [x EXCEPT !.fds[fd] = 0]

\* vfse_close: vfse_free_fd.
FreeFd(v, fd) ==
    LET f == v.fds[fd]
        w == [v EXCEPT !.end[f].ref = @ - 1, !.stale = @ \/ f \notin v.ends]
        x == IF w.end[f].ref <= 0 THEN FreeFile(w, f) ELSE w
    IN  IF f = 0 THEN v
        ELSE [x EXCEPT !.fds[fd] = 0, !.next_fd = Min({@, fd})]

\* vfse_alloc_fd's search: from the hint up, then from FirstFd to the hint.
Candidates(v) ==
    LET up == {i \in v.next_fd .. VFSE_MAX_FDS - 1 : v.fds[i] = 0}
        low == {i \in FirstFd .. v.next_fd - 1 : v.fds[i] = 0}
    IN  IF up # {} THEN {Min(up)} ELSE IF low # {} THEN {Min(low)} ELSE {}

\* ... and what it does with the descriptor found, if any.
AllocFd(v, f) ==
    LET c == Candidates(v)
    IN  IF c = {} THEN v
        ELSE [v EXCEPT !.fds[Min(c)] = f, !.next_fd = Min(c) + 1]

\* vfse_pipe.  When only the reader gets a descriptor it is closed again,
\* which frees the pipe; an end without descriptor is never freed.
Pipe ==
    \E s \in Fresh(vfse.ends, Ends, 2), t \in Fresh(vfse.pipes, Pipes, 1) :
        LET new == [ref |-> 1, pipe |-> Min(t)]
            v == [vfse EXCEPT !.ends = @ \cup s, !.pipes = @ \cup t,
                              !.end = [e \in DOMAIN @ |-> IF e \in s THEN new ELSE @[e]]]
            one == AllocFd(v, Min(s))
            two == AllocFd(one, Max(s))
            done == Candidates(v) # {} /\ Candidates(one) # {}
            undone == IF Candidates(v) = {} THEN v ELSE FreeFd(one, Min(Candidates(v)))
        IN  /\ vfse' = IF done THEN two
                       ELSE [undone EXCEPT !.lost = @ \cup (s \cap undone.ends)]
            /\ UNCHANGED <<files, procs, heap, forgotten>>

\* Variant: the reference is not counted.
DupNotCounted(fd) ==
    /\ vfse.fds[fd] # 0
    /\ vfse' = AllocFd(vfse, vfse.fds[fd])
    /\ UNCHANGED <<files, procs, heap, forgotten>>

\* vfse_dup.
Dup(fd) ==
    /\ vfse.fds[fd] # 0
    /\ Candidates(vfse) # {}
    /\ vfse' = [AllocFd(vfse, vfse.fds[fd]) EXCEPT !.end[vfse.fds[fd]].ref = @ + 1,
                !.stale = @ \/ vfse.fds[fd] \notin vfse.ends]
    /\ UNCHANGED <<files, procs, heap, forgotten>>

\* vfse_dup2, also onto itself.
Dup2(old, new) ==
    LET f == vfse.fds[old]
        v == FreeFd(vfse, new)
    IN  /\ f # 0
        /\ vfse' = [v EXCEPT !.end[f].ref = @ + 1, !.fds[new] = f,
                             !.stale = @ \/ f \notin v.ends]
        /\ UNCHANGED <<files, procs, heap, forgotten>>

\* vfse_fcntl, F_DUPFD: the hint is neither used nor moved.
FcntlDup(fd, minfd) ==
    LET free == {i \in minfd .. VFSE_MAX_FDS - 1 : vfse.fds[i] = 0}
        f == vfse.fds[fd]
    IN  /\ f # 0 /\ free # {}
        /\ vfse' = [vfse EXCEPT !.end[f].ref = @ + 1, !.fds[Min(free)] = f,
                                !.stale = @ \/ f \notin vfse.ends]
        /\ UNCHANGED <<files, procs, heap, forgotten>>

\* execve: replace_process_with_elf closes, in the table of vfse, the numbers
\* that are open in proc->files, and forgets the latter.
Exec(p) ==
    LET open == {fd \in FirstFd .. MAX_FILES - 1 : files[p][fd] # 0}
    IN  /\ vfse' = FoldLeft(FreeFd, vfse, SetToSortSeq(open, <))
        /\ files' = [files EXCEPT ![p] = [fd \in Fds |-> IF fd \in open THEN 0 ELSE @[fd]]]
        /\ forgotten' = forgotten \cup {files[p][fd] : fd \in open}
        /\ UNCHANGED <<procs, heap>>

-----------------------------------------------------------------------------
\* vfse_init, and one process as Spawn makes it.
FilesInit ==
    LET p == CHOOSE q \in Procs : TRUE
    IN  /\ procs = {p}
        /\ files = [q \in Procs |-> [fd \in Fds |->
                      IF q = p /\ fd < FirstFd THEN fd + 1 ELSE 0]]
        /\ heap = 1 .. FirstFd
        /\ forgotten = {}
        /\ vfse = [fds |-> [fd \in VFds |-> 0], next_fd |-> FirstFd,
                   end |-> [f \in Ends |-> [ref |-> 0, pipe |-> 0]],
                   ends |-> {}, pipes |-> {}, stale |-> FALSE, lost |-> {}]

FilesNext ==
    \/ \E p \in procs : \/ Open(p)
                        \/ Close(p)
                        \/ Fork(p)
                        \/ Destroy(p)
                        \/ Exec(p)
    \/ Spawn
    \/ Pipe
    \/ \E fd \in VFds : Dup(fd)
    \/ \E fd, to \in VFds : Dup2(fd, to) \/ FcntlDup(fd, to)

FilesSpec == FilesInit /\ [][FilesNext]_fileVars

-----------------------------------------------------------------------------
(* Properties *)

\* Every vfs_file_t is in one entry of one process, so that close, exec and
\* exit free each once; the only ones in no entry are those forgotten.
OneOwner ==
    /\ \A f \in heap \ forgotten :
          Cardinality({e \in Procs \X Fds : files[e[1]][e[2]] = f}) = 1
    /\ \A p \in Procs : Range(files[p]) \ {0} \subseteq heap \ forgotten

\* Until something has been freed that is still in use, ref_count is the
\* number of descriptors of a file, whatever dup, dup2, fcntl and close do.
RefCounts ==
    ~vfse.stale =>
        \A f \in Ends \ vfse.lost :
            LET refs == {fd \in VFds : vfse.fds[fd] = f}
            IN  IF f \in vfse.ends THEN vfse.end[f].ref = Cardinality(refs) /\ refs # {}
                                   ELSE refs = {}

\* next_fd never passes over a free descriptor: an allocation takes the lowest
\* there is above stdio, and the second loop of vfse_alloc_fd finds nothing.
HintSound == \A i \in FirstFd .. vfse.next_fd - 1 : vfse.fds[i] # 0
=============================================================================
