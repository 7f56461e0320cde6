----------------------------- MODULE SchedTable -----------------------------
(***************************************************************************)
(* The handlers that change the process table preserve IInv: the creation  *)
(* of a process, which fills a slot, and the reaping path of do_wait,      *)
(* which empties one.                                                      *)
(***************************************************************************)
EXTENDS SchedExit

\* The slots are finitely many, and so are the occupied ones.
LEMMA OccupiedFinite ==
    /\ IsFiniteSet(Slots) /\ Cardinality(Slots) = MAX_PROCESSES
    /\ IsFiniteSet(Occupied) /\ Cardinality(Occupied) \in 0 .. MAX_PROCESSES
<1>1. IsFiniteSet(Slots) /\ Cardinality(Slots) = MAX_PROCESSES
  BY FS_Interval, SchedAssumption DEF Slots
<1>2. Occupied \subseteq Slots
  BY DEF Occupied
<1>3. IsFiniteSet(Occupied) /\ Cardinality(Occupied) <= MAX_PROCESSES
  BY <1>1, <1>2, FS_Subset
<1>4. Cardinality(Occupied) \in Nat
  BY <1>3, FS_CardinalityType
<1> QED
  BY <1>1, <1>3, <1>4, SchedAssumption

\* add_process keeps process_count the number of occupied slots.
LEMMA AddProcessFacts ==
    ASSUME IInv, NEW n \in UserPids, ~Tabled(n), AddProcess(n)
    PROVE  /\ Table' /\ process_count' = Cardinality(Occupied')
           /\ \A s, t \in Slots :
                 processes'[s] = processes'[t] /\ processes'[s] # NoProc => s = t
           /\ \A p \in Pids : Tabled(p) => Tabled(p)'
           /\ \A p \in Pids : Tabled(p)' => Tabled(p) \/ p = n
           /\ \A s \in Slots : processes[s] # NoProc => processes'[s] = processes[s]
<1>1. CASE FreeSlots(processes) = {}
  BY <1>1 DEF AddProcess, IInv, Shape, Table, Counted, Occupied, Tabled, InTable
<1>2. CASE FreeSlots(processes) # {}
  <2>1. PICK f \in Slots : /\ FirstFree(processes, f)
                           /\ processes' = [processes EXCEPT ![f] = n]
                           /\ process_count' = process_count + 1
    BY <1>2 DEF AddProcess
  <2>2. Table /\ processes[f] = NoProc /\ n # NoProc
    BY <2>1, ConstantFacts DEF IInv, Shape, FirstFree, FreeSlots
  <2>3. processes'[f] = n /\ \A s \in Slots : s # f => processes'[s] = processes[s]
    BY <2>1, <2>2 DEF Table
  <2>4. Table'
    BY <2>1, <2>2 DEF Table
  <2>5. Occupied' = Occupied \cup {f} /\ f \notin Occupied
    BY <2>1, <2>2, <2>3 DEF Occupied
  <2>6. Cardinality(Occupied') = Cardinality(Occupied) + 1
    BY Zenon, <2>5, OccupiedFinite, FS_AddElement
  <2>7. \A s \in Slots : processes[s] # n
    BY DEF Tabled, InTable
  <2>8. \A s, t \in Slots :
           processes'[s] = processes'[t] /\ processes'[s] # NoProc => s = t
    BY <2>3, <2>7 DEF IInv, Shape
  <2>9. /\ \A p \in Pids : Tabled(p) => Tabled(p)'
        /\ \A p \in Pids : Tabled(p)' => Tabled(p) \/ p = n
    BY <2>2, <2>3, ConstantFacts DEF Tabled, InTable
  <2> QED
    BY <2>1, <2>2, <2>3, <2>4, <2>6, <2>8, <2>9 DEF IInv, Counted
<1> QED
  BY <1>1, <1>2

\* The creation of a process n, READY and with the fields of NewProcess.
LEMMA Creates ==
    ASSUME IInv, next_pid <= MaxPid, NEW par \in Pids, NEW k \in BOOLEAN,
           IF k THEN par = Idle ELSE par = current_process /\ InUser,
           proc' = [proc EXCEPT ![next_pid] = NewProcess(par, k)],
           next_pid' = next_pid + 1, AddProcess(next_pid),
           UNCHANGED <<current_process, current_process_index, rr_cursor, cr3,
                       ttyVars>>
    PROVE  IInv' /\ ZombiesKept
<1> DEFINE n == next_pid
           q == NewProcess(par, k)
<1>1. n \in UserPids /\ n \in Pids /\ n # Idle /\ n # Init1 /\ n' \in 2 .. MaxPid + 1
  BY SchedAssumption DEF IInv, Shape, UserPids, Pids, Idle, Init1
<1>2. proc[n].state = "FREE" /\ ~Tabled(n)
  BY <1>1 DEF IInv, Good, GoodTable, IInv, Shape, UserPids
<1>3. q \in ProcRecord
  BY NewProcessType
<1>4. /\ q.state = "READY" /\ q.parent = par /\ q.kthread = k
      /\ q.where = IF k THEN "kernel" ELSE "user"
  BY DEF NewProcess
<1> HIDE DEF q
<1>5. proc'[n] = q /\ (\A p \in Pids : p # n => proc'[p] = proc[p]) /\ proc' \in Procs
  BY <1>1, <1>3, IInvFacts DEF Procs, q
<1>6. /\ ring' = ring /\ waiting_reader' = waiting_reader /\ cr3' = cr3
      /\ current_process' = current_process
      /\ current_process_index' = current_process_index
      /\ rr_cursor' = rr_cursor
  BY DEF ttyVars
<1>7. /\ Table' /\ process_count' = Cardinality(Occupied')
      /\ \A s, t \in Slots :
            processes'[s] = processes'[t] /\ processes'[s] # NoProc => s = t
      /\ \A p \in Pids : Tabled(p) => Tabled(p)'
      /\ \A p \in Pids : Tabled(p)' => Tabled(p) \/ p = n
      /\ \A s \in Slots : processes[s] # NoProc => processes'[s] = processes[s]
  BY ZenonT(60), <1>1, <1>2, AddProcessFacts
<1>8. Shape'
  BY Zenon, <1>1, <1>6, <1>7 DEF IInv, Shape
<1>9. Counted'
  BY <1>6, <1>7, ConstantFacts, IInvFacts DEF IInv, Counted
<1>10. current_process # n /\ cr3 # n /\ waiting_reader # n
  BY <1>1, <1>2, ConstantFacts DEF IInv, Control, Good, GoodReader
<1>11. GoodKinds(proc)'
  BY <1>1, <1>4, <1>5, <1>7, ConstantFacts DEF IInv, Good, GoodKinds
<1>12. GoodSleep(proc)'
  BY <1>4, <1>5 DEF IInv, Good, GoodSleep
<1>13. GoodTable(proc)'
  BY <1>1, <1>4, <1>5, <1>7, SchedAssumption
     DEF IInv, Good, GoodTable, Pids, UserPids
<1>14. GoodParents(proc)'
  <2>1. ASSUME NEW p \in Pids, Tabled(p)', proc'[p].parent # Idle
        PROVE  LET r == proc'[p].parent IN
                 /\ r \in Pids /\ Tabled(r) /\ r # n /\ ~proc[r].kthread
                 /\ r # Init1 => proc[r].state # "ZOMBIE"
    <3>1. CASE p = n
      <4>1. proc'[p].parent = par /\ ~k /\ par = current_process /\ InUser
        BY <2>1, <3>1, <1>4, <1>5
      <4>2. /\ Tabled(current_process)
            /\ proc[current_process].state # "ZOMBIE"
        BY <4>1, IInvFacts DEF InUser, IInv, Control
      <4>3. ~proc[current_process].kthread
        BY <4>1, IInvFacts DEF InUser, IInv, Good, GoodKinds
      <4> QED
        BY <4>1, <4>2, <4>3, <1>10
    <3>2. CASE p # n
      <4>1. proc'[p].parent = proc[p].parent /\ proc[p].parent \in Pids
        BY ZenonT(60), <3>2, <1>5, IInvFacts DEF Procs, ProcRecord
      <4>2. Tabled(p)
        BY Zenon, <2>1, <3>2, <1>7
      <4> QED
        BY <2>1, <4>1, <4>2, <1>2 DEF IInv, Good, GoodParents
    <3> QED
      BY <3>1, <3>2
  <2>2. \A r \in Pids : Tabled(r) => InTable(processes', r)
    BY <1>7 DEF Tabled
  <2>3. \A p \in Pids : Tabled(p)' <=> InTable(processes', p)
    BY DEF Tabled
  <2>4. \A p \in Pids : InTable(processes', p) /\ proc'[p].parent # Idle =>
          /\ InTable(processes', proc'[p].parent)
          /\ ~proc'[proc'[p].parent].kthread
          /\ proc'[p].parent # Init1 => proc'[proc'[p].parent].state # "ZOMBIE"
    BY <2>1, <2>2, <2>3, <1>5
  <2> QED
    BY <2>4 DEF GoodParents, Tabled
<1>15. GoodWaits(proc)'
  <2> SUFFICES ASSUME NEW p \in UserPids, proc'[p].state = "WAITING",
                      proc'[p].reason = "CHILD"
               PROVE  /\ \E c \in Pids : Matches(proc, p, c)'
                      /\ \A c \in Pids : Matches(proc, p, c)' =>
                                            proc'[c].state # "ZOMBIE"
    BY ZenonT(60) DEF GoodWaits
  <2>1. p \in Pids /\ p # n /\ proc'[p] = proc[p]
    BY <1>4, <1>5, ConstantFacts
  <2>2. \A c \in Pids : c # n => (Matches(proc, p, c)' <=> Matches(proc, p, c))
    BY <2>1, <1>5, <1>7 DEF Matches
  <2>3. \A c \in Pids : Matches(proc, p, c) => c # n
    BY <1>2 DEF Matches
  <2> QED
    BY Zenon, <2>1, <2>2, <2>3, <1>4, <1>5 DEF IInv, Good, GoodWaits
<1>16. GoodReader(proc)'
  BY <1>5, <1>6, <1>10, ConstantFacts DEF IInv, Good, GoodReader, Shape
<1>17. Control(proc, current_process, cr3)'
  <2>1. current_process \in Pids /\ cr3 \in Pids
    BY IInvFacts
  <2> QED
    BY <2>1, <1>4, <1>5, <1>6, <1>7, <1>10, ConstantFacts DEF IInv, Control
<1>18. ZombiesKept
  BY <1>2, <1>5 DEF ZombiesKept
<1> QED
  BY <1>18, <1>5, <1>8, <1>9, <1>11, <1>12, <1>13, <1>14, <1>15, <1>16, <1>17
     DEF IInv, Good

\* clone_process, sys_spawn and kthread_create.
LEMMA CreateStep ==
    ASSUME IInv, Fork \/ Spawn \/ KthreadCreate
    PROVE  IInv' /\ ZombiesKept
<1>1. CASE Fork
  BY Zenon, <1>1, IInvFacts, Creates DEF Fork
<1>2. CASE Spawn
  BY Zenon, <1>2, IInvFacts, Creates DEF Spawn
<1>3. CASE KthreadCreate
  BY Zenon, <1>3, ConstantFacts, Creates DEF KthreadCreate
<1> QED
  BY <1>1, <1>2, <1>3

\* process_remove keeps process_count the number of occupied slots.
LEMMA RemoveFacts ==
    ASSUME IInv, NEW v \in UserPids, ProcessRemove(v), v # current_process,
           current_process' = current_process
    PROVE  /\ Table' /\ Counted'
           /\ \A s, t \in Slots :
                 processes'[s] = processes'[t] /\ processes'[s] # NoProc => s = t
           /\ \A p \in Pids : Tabled(p)' <=> Tabled(p) /\ p # v
<1>1. PICK f \in Slots :
        /\ processes[f] = v
        /\ processes' = [processes EXCEPT ![f] = NoProc]
        /\ process_count' = IF process_count > 0 THEN process_count - 1
                                                 ELSE process_count
        /\ current_process_index' = IF current_process_index = f
                                      THEN -1 ELSE current_process_index
  BY Zenon DEF ProcessRemove
<1>2. Table /\ v # NoProc
  BY ConstantFacts DEF IInv, Shape
<1>3. processes'[f] = NoProc /\ \A s \in Slots : s # f => processes'[s] = processes[s]
  BY <1>1, <1>2 DEF Table
<1>4. Table'
  BY <1>1, <1>2 DEF Table
<1>5. Occupied' = Occupied \ {f} /\ f \in Occupied
  BY <1>1, <1>2, <1>3 DEF Occupied
<1>6. Cardinality(Occupied') = Cardinality(Occupied) - 1
  BY Zenon, <1>5, OccupiedFinite, FS_RemoveElement
<1>7. Cardinality(Occupied) \in Nat /\ Cardinality(Occupied) # 0
  BY <1>5, OccupiedFinite, FS_EmptySet
<1>8. process_count' = Cardinality(Occupied')
  BY <1>1, <1>6, <1>7 DEF IInv, Counted
<1>9. Counted'
  BY <1>1, <1>3, <1>8 DEF IInv, Counted
<1>10. \A s, t \in Slots :
          processes'[s] = processes'[t] /\ processes'[s] # NoProc => s = t
  BY <1>3 DEF IInv, Shape
<1>11. \A s \in Slots : processes[s] = v => s = f
  BY <1>1, <1>2 DEF IInv, Shape
<1>12. \A p \in Pids : Tabled(p)' <=> Tabled(p) /\ p # v
  BY <1>1, <1>3, <1>11, ConstantFacts DEF Tabled, InTable
<1> QED
  BY <1>4, <1>9, <1>10, <1>12

\* The record do_wait leaves of the caller.
DoneWaiting(r) == [r EXCEPT !.reason = "NONE", !.wait_pid = AnyPid]

\* The contents after do_wait has destroyed zombie z for the caller v.
Reaped(P, z, v) == [[P EXCEPT ![z] = NoProcess] EXCEPT ![v] = DoneWaiting(@)]

\* What that changes.
ReapChange(P, z, v, Q) ==
    /\ Q \in Procs
    /\ \A p \in Pids : p \notin {z, v} => Q[p] = P[p]
    /\ Q[z] = NoProcess
    /\ Q[v].state = P[v].state /\ Q[v].parent = P[v].parent
    /\ Q[v].kthread = P[v].kthread /\ Q[v].where = P[v].where
    /\ Q[v].deadline = P[v].deadline

\* Destroying z and clearing v's wait fields changes nothing else.
LEMMA ReapedFacts ==
    ASSUME NEW P \in Procs, NEW z \in Pids, NEW v \in Pids, z # v
    PROVE  ReapChange(P, z, v, Reaped(P, z, v))
<1>1. P[v] \in ProcRecord /\ NoProcess \in ProcRecord
  BY Zenon, ConstantFacts, NewProcessType DEF Procs
<1> DEFINE q == DoneWaiting(P[v])
<1>2. /\ q \in ProcRecord
      /\ q.state = P[v].state /\ q.parent = P[v].parent
      /\ q.kthread = P[v].kthread /\ q.where = P[v].where
      /\ q.deadline = P[v].deadline
  BY Zenon, <1>1 DEF ProcRecord, Reasons, AnyPid, DoneWaiting
<1>3. Reaped(P, z, v) = [[P EXCEPT ![z] = NoProcess] EXCEPT ![v] = q]
  BY Zenon DEF Reaped, Procs
<1> HIDE DEF q
<1> QED
  BY <1>1, <1>2, <1>3 DEF ReapChange, Procs

\* The reaping path of do_wait: the zombie is nobody's parent, nobody waits
\* for it, and the page table in use is the caller's.
LEMMA WaitReapStep ==
    ASSUME IInv, NEW pid \in UserPids \cup {AnyPid}, WaitReap(pid)
    PROVE  /\ IInv'
           /\ \A p \in Pids : proc[p].state = "ZOMBIE" =>
                 \/ proc'[p].state = "ZOMBIE"
                 \/ proc'[p].state = "FREE" /\ current_process = proc[p].parent
<1> DEFINE v == current_process
<1>1. PICK s \in Slots :
        /\ processes[s] \in ZombieMatches(v, pid)
        /\ ProcessRemove(processes[s])
        /\ proc' = [proc EXCEPT ![processes[s]] = NoProcess,
                                ![v].reason = "NONE", ![v].wait_pid = AnyPid]
  BY ZenonT(60) DEF WaitReap
<1> DEFINE z == processes[s]
<1>2. v \in UserPids /\ v \in Pids /\ v # Idle /\ Tabled(v) /\ proc[v].where = "user"
  BY IInvFacts DEF WaitReap, InUser
<1>3. /\ z \in Pids /\ Tabled(z) /\ proc[z].parent = v /\ proc[z].state = "ZOMBIE"
  BY <1>1 DEF ZombieMatches, WaitMatches, Tabled
<1>4. z \in UserPids
  BY <1>1, <1>3, ConstantFacts DEF IInv, Shape, Table
<1>5. /\ proc[v].state \in {"READY", "RUNNING"} /\ ~proc[v].kthread /\ cr3 = v
  BY Zenon, <1>2 DEF IInv, Control, Good, GoodKinds
<1>6. z # v /\ z # Idle /\ z # Init1
  BY Zenon, <1>2, <1>3, <1>4, <1>5, ConstantFacts DEF IInv, Good, GoodKinds
<1>7. ProcessRemove(z)
  BY <1>1
<1>8. proc' = Reaped(proc, z, v)
  BY Zenon, <1>1, <1>2, <1>3, <1>6, IInvFacts DEF Reaped, DoneWaiting, Procs
<1> HIDE DEF z
<1>9. ReapChange(proc, z, v, proc')
  BY Zenon, <1>2, <1>3, <1>6, <1>8, IInvFacts, ReapedFacts
<1>10. /\ NoProcess.state = "FREE" /\ NoProcess.parent = Idle
       /\ NoProcess.kthread = FALSE /\ NoProcess.where = "user"
  BY DEF NoProcess, NewProcess
<1>11. /\ current_process' = v /\ rr_cursor' = rr_cursor /\ next_pid' = next_pid
       /\ cr3' = cr3 /\ ring' = ring /\ waiting_reader' = waiting_reader
  BY DEF WaitReap, ttyVars
<1>12. /\ Table' /\ Counted'
       /\ \A s1, t1 \in Slots :
            processes'[s1] = processes'[t1] /\ processes'[s1] # NoProc => s1 = t1
       /\ \A p \in Pids : Tabled(p)' <=> Tabled(p) /\ p # z
  BY <1>4, <1>6, <1>7, <1>11, RemoveFacts
<1>13. Shape'
  BY <1>11, <1>12 DEF IInv, Shape
<1>14. \A p \in Pids : p # z =>
          /\ proc'[p].state = proc[p].state /\ proc'[p].parent = proc[p].parent
          /\ proc'[p].kthread = proc[p].kthread /\ proc'[p].where = proc[p].where
          /\ proc'[p].deadline = proc[p].deadline
  BY <1>9 DEF ReapChange
<1>15. proc' \in Procs /\ proc'[z] = NoProcess
  BY <1>9 DEF ReapChange
<1>16. GoodKinds(proc)'
  BY <1>6, <1>15, <1>10, <1>12, <1>14, ConstantFacts DEF IInv, Good, GoodKinds
<1>17. GoodSleep(proc)'
  BY Zenon, <1>15, <1>10, <1>14 DEF IInv, Good, GoodSleep
<1>18. GoodTable(proc)'
  BY ZenonT(60), <1>15, <1>10, <1>11, <1>12, <1>14 DEF IInv, Good, GoodTable
<1>19. GoodParents(proc)'
  <2>1. ASSUME NEW p \in Pids, Tabled(p)', proc'[p].parent # Idle
        PROVE  LET r == proc'[p].parent IN
                 /\ r \in Pids /\ Tabled(r) /\ r # z /\ ~proc[r].kthread
                 /\ r # Init1 => proc[r].state # "ZOMBIE"
    <3>1. Tabled(p) /\ p # z
      BY <2>1, <1>12
    <3>2. proc'[p].parent = proc[p].parent /\ proc[p].parent \in Pids
      BY Zenon, <3>1, <1>14, IInvFacts DEF Procs, ProcRecord
    <3> QED
      BY <2>1, <3>1, <3>2, <1>3, <1>6 DEF IInv, Good, GoodParents
  <2>2. \A p \in Pids : InTable(processes', p) <=> Tabled(p) /\ p # z
    BY <1>12 DEF Tabled
  <2>3. \A p \in Pids : Tabled(p)' <=> InTable(processes', p)
    BY DEF Tabled
  <2>4. \A p \in Pids : InTable(processes', p) /\ proc'[p].parent # Idle =>
          /\ InTable(processes', proc'[p].parent)
          /\ ~proc'[proc'[p].parent].kthread
          /\ proc'[p].parent # Init1 => proc'[proc'[p].parent].state # "ZOMBIE"
    BY ZenonT(60), <2>1, <2>2, <2>3, <1>14
  <2> QED
    BY <2>4 DEF GoodParents, Tabled
<1>20. GoodWaits(proc)'
  <2> SUFFICES ASSUME NEW p \in UserPids, proc'[p].state = "WAITING",
                      proc'[p].reason = "CHILD"
               PROVE  /\ \E c \in Pids : Matches(proc, p, c)'
                      /\ \A c \in Pids : Matches(proc, p, c)' =>
                                            proc'[c].state # "ZOMBIE"
    BY DEF GoodWaits
  <2>1. p \in Pids /\ p # z /\ p # v /\ proc'[p] = proc[p]
    BY <1>5, <1>9, <1>10, <1>14, ConstantFacts DEF ReapChange
  <2>2. /\ \E c \in Pids : Matches(proc, p, c)
        /\ \A c \in Pids : Matches(proc, p, c) => proc[c].state # "ZOMBIE"
    BY <2>1 DEF IInv, Good, GoodWaits
  <2>3. \A c \in Pids : c # z => (Matches(proc, p, c)' <=> Matches(proc, p, c))
    BY <2>1, <1>12, <1>14 DEF Matches
  <2>4. \A c \in Pids : Matches(proc, p, c) => c # z
    BY <2>2, <1>3
  <2>5. \A c \in Pids : Matches(proc, p, c)' => c # z
    BY ZenonT(60), <1>12 DEF Matches
  <2> QED
    BY <2>2, <2>3, <2>4, <2>5, <1>14
<1>21. GoodReader(proc)'
  <2>1. waiting_reader # z
    BY ZenonT(60), <1>3, <1>4, ConstantFacts DEF IInv, Good, GoodReader
  <2> QED
    BY ZenonT(60), <2>1, <1>11, <1>14, ConstantFacts DEF IInv, Good, GoodReader, Shape
<1>22. Control(proc, current_process, cr3)'
  BY ZenonT(60), <1>2, <1>5, <1>6, <1>15, <1>10, <1>11, <1>12, <1>14, ConstantFacts
     DEF IInv, Control
<1>23. IInv'
  BY <1>15, <1>12, <1>13, <1>16, <1>17, <1>18, <1>19, <1>20, <1>21, <1>22
     DEF IInv, Good
<1> QED
  BY <1>3, <1>10, <1>14, <1>15, <1>23

-----------------------------------------------------------------------------
=============================================================================
