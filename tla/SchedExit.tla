----------------------------- MODULE SchedExit ------------------------------
(***************************************************************************)
(* What do_exit does to the contents of the process structures, and how a  *)
(* call of scheduler(), with or without the delivery of a signal, leads back*)
(* to the invariant.                                                       *)
(***************************************************************************)
EXTENDS SchedInv

\* The contents when do_exit calls the scheduler.
Exiting(P, e) ==
    WakeParent(AdoptChildren([P EXCEPT ![e].state = "ZOMBIE"], e), e)

Adoptee(P, e, p) == e # Init1 /\ Tabled(p) /\ P[p].parent = e

\* What do_exit does to each record before it schedules: the exiting process
\* is a zombie, its children are init's, and a waiting parent, or a waiting
\* init that gets a zombie, is READY.
ExitChange(P, e, W) ==
    /\ W \in Procs
    /\ W[e].state = "ZOMBIE"
    /\ \A p \in Pids :
        /\ W[p].kthread = P[p].kthread /\ W[p].where = P[p].where
        /\ W[p].deadline = P[p].deadline
        /\ W[p].parent = IF Adoptee(P, e, p) THEN Init1 ELSE P[p].parent
        /\ p # e => \/ W[p].state = P[p].state
                    \/ P[p].state = "WAITING" /\ W[p].state = "READY"
        /\ W[p].state = "WAITING" =>
              W[p].reason = P[p].reason /\ W[p].wait_pid = P[p].wait_pid
    /\ (\E c \in Pids : Adoptee(P, e, c) /\ (c = e \/ P[c].state = "ZOMBIE")) =>
          W[Init1].state # "WAITING"
    /\ Tabled(W[e].parent) =>
          ~(W[W[e].parent].state = "WAITING" /\ W[W[e].parent].reason = "CHILD")

\* do_exit makes exactly that change.
LEMMA ExitingFacts ==
    ASSUME Table, NEW P \in Procs, NEW e \in UserPids
    PROVE  ExitChange(P, e, Exiting(P, e))
<1> DEFINE Z == [P EXCEPT ![e].state = "ZOMBIE"]
           A == AdoptChildren(Z, e)
           W == WakeParent(A, e)
<1>1. e \in Pids /\ Init1 \in Pids
  BY ConstantFacts
<1>2. /\ Z \in Procs
      /\ Z[e].state = "ZOMBIE"
      /\ \A p \in Pids : p # e => Z[p] = P[p]
      /\ Z[e].kthread = P[e].kthread /\ Z[e].where = P[e].where
      /\ Z[e].deadline = P[e].deadline /\ Z[e].parent = P[e].parent
  BY <1>1 DEF Procs, ProcRecord, States
<1> HIDE DEF Z
<1>3. \A p \in Pids : Adoptee(Z, e, p) <=> Adoptee(P, e, p)
  BY <1>2, <1>1 DEF Adoptee
<1>4. \A p \in Pids : p \in Children(Z, e) <=> (Tabled(p) /\ Z[p].parent = e)
  BY DEF Children, Tabled
<1>5. ASSUME NEW p \in Pids
      PROVE  /\ A[p] \in ProcRecord
             /\ A[p].kthread = Z[p].kthread /\ A[p].where = Z[p].where
             /\ A[p].deadline = Z[p].deadline
             /\ A[p].parent = IF Adoptee(Z, e, p) THEN Init1 ELSE Z[p].parent
             /\ A[p].reason = Z[p].reason /\ A[p].wait_pid = Z[p].wait_pid
             /\ \/ A[p].state = Z[p].state
                \/ Z[p].state = "WAITING" /\ A[p].state = "READY"
             /\ (\E c \in Pids : Adoptee(Z, e, c) /\ Z[c].state = "ZOMBIE") =>
                    (p = Init1 => A[p].state # "WAITING")
  <2>1. Z[p] \in ProcRecord
    BY <1>2 DEF Procs
  <2>2. CASE e = Init1
    BY <2>1, <2>2 DEF AdoptChildren, Adoptee
  <2>3. CASE e # Init1
    <3> DEFINE kids == Children(Z, e)
               wakes == \E c \in kids : Z[c].state = "ZOMBIE"
    <3>1. A[p] = [Z[p] EXCEPT
                    !.parent = IF p \in kids THEN Init1 ELSE @,
                    !.state = IF p = Init1 /\ @ = "WAITING" /\ wakes
                                THEN "READY" ELSE @]
      BY <2>3 DEF AdoptChildren
    <3>2. p \in kids <=> Adoptee(Z, e, p)
      BY <2>3, <1>4 DEF Adoptee
    <3>3. wakes <=> \E c \in Pids : Adoptee(Z, e, c) /\ Z[c].state = "ZOMBIE"
      BY <2>3, <1>4 DEF Adoptee, Children
    <3> HIDE DEF kids, wakes, A
    <3> QED
      BY Zenon, <3>1, <3>2, <3>3, <2>1, <1>1 DEF ProcRecord, States
  <2> QED
    BY <2>2, <2>3
<1>6. A \in Procs
  <2>1. CASE e = Init1
    BY <2>1, <1>2 DEF AdoptChildren
  <2>2. CASE e # Init1
    BY Zenon, <2>2, <1>5 DEF AdoptChildren, Procs
  <2> QED
    BY <2>1, <2>2
<1> HIDE DEF A
<1> DEFINE r == A[e].parent
           woken == /\ InTable(processes, r)
                    /\ A[r].state = "WAITING"
                    /\ A[r].reason = "CHILD"
<1>7. r \in Pids /\ A[r] \in ProcRecord
  BY <1>6, <1>1 DEF Procs, ProcRecord
<1>8. /\ W \in Procs
      /\ \A p \in Pids :
           /\ W[p].kthread = A[p].kthread /\ W[p].where = A[p].where
           /\ W[p].deadline = A[p].deadline /\ W[p].parent = A[p].parent
           /\ \/ W[p] = A[p]
              \/ A[p].state = "WAITING" /\ W[p].state = "READY"
      /\ woken => W[r].state = "READY"
      /\ ~woken => W = A
  <2>1. CASE ~woken
    <3>1. W = A
      BY <2>1 DEF WakeParent
    <3> QED
      BY <3>1, <2>1, <1>6
  <2>2. CASE woken
    <3> DEFINE q == [[[A[r] EXCEPT !.state = "READY"] EXCEPT !.reason = "NONE"]
                        EXCEPT !.wait_pid = AnyPid]
    <3>1. W = [A EXCEPT ![r] = q]
      BY Zenon, <2>2, <1>6, <1>7 DEF WakeParent, Procs
    <3>2. /\ q \in ProcRecord /\ q.state = "READY"
          /\ q.kthread = A[r].kthread /\ q.where = A[r].where
          /\ q.deadline = A[r].deadline /\ q.parent = A[r].parent
      BY Zenon, <1>7 DEF ProcRecord, States, Reasons, AnyPid
    <3> HIDE DEF q
    <3>3. W[r] = q /\ \A p \in Pids : p # r => W[p] = A[p]
      BY <3>1, <1>6, <1>7 DEF Procs
    <3>4. W \in Procs
      BY <3>1, <3>2, <1>6, <1>7 DEF Procs
    <3> HIDE DEF W
    <3> QED
      BY <3>2, <3>3, <3>4, <2>2
  <2> QED
    BY <2>1, <2>2
<1>9. W = Exiting(P, e)
  BY DEF Exiting, Z, A
<1> HIDE DEF W
<1>10. W[e].state = "ZOMBIE" /\ W[e].parent = r
  BY <1>8, <1>5, <1>2, <1>1
<1>11. ASSUME NEW p \in Pids
       PROVE /\ W[p].kthread = P[p].kthread /\ W[p].where = P[p].where
             /\ W[p].deadline = P[p].deadline
             /\ W[p].parent = IF Adoptee(P, e, p) THEN Init1 ELSE P[p].parent
             /\ p # e => \/ W[p].state = P[p].state
                         \/ P[p].state = "WAITING" /\ W[p].state = "READY"
             /\ W[p].state = "WAITING" =>
                   W[p].reason = P[p].reason /\ W[p].wait_pid = P[p].wait_pid
  BY <1>8, <1>5, <1>3, <1>2, <1>1
<1>12. ASSUME NEW c \in Pids, Adoptee(P, e, c), c = e \/ P[c].state = "ZOMBIE"
       PROVE  W[Init1].state # "WAITING"
  BY <1>12, <1>8, <1>5, <1>3, <1>2, <1>1
<1>13. Tabled(r) => ~(W[r].state = "WAITING" /\ W[r].reason = "CHILD")
  BY <1>7, <1>8 DEF Tabled
<1> QED
  BY <1>8, <1>9, <1>10, <1>11, <1>12, <1>13 DEF ExitChange

\* do_exit of a process in ring 3 keeps the invariant's part on the contents.
LEMMA ExitGood ==
    ASSUME Shape, NEW P, Good(P), NEW e \in UserPids, Tabled(e),
           P[e].where = "user", NEW W, ExitChange(P, e, W)
    PROVE  Good(W)
<1>1. e \in Pids /\ Init1 \in Pids /\ Idle \in Pids /\ e # Idle /\ Init1 # Idle
  BY ConstantFacts
<1>2. P \in Procs /\ W \in Procs
  BY DEF Good, ExitChange
<1>3. \A p \in Pids :
        /\ W[p].kthread = P[p].kthread /\ W[p].where = P[p].where
        /\ W[p].deadline = P[p].deadline
        /\ W[p].parent = IF Adoptee(P, e, p) THEN Init1 ELSE P[p].parent
        /\ p # e => \/ W[p].state = P[p].state
                    \/ P[p].state = "WAITING" /\ W[p].state = "READY"
        /\ W[p].state = "WAITING" =>
              W[p].reason = P[p].reason /\ W[p].wait_pid = P[p].wait_pid
  BY DEF ExitChange
<1>4. W[e].state = "ZOMBIE"
  BY DEF ExitChange
<1>5. GoodKinds(P) /\ GoodSleep(P) /\ GoodTable(P) /\ GoodParents(P)
      /\ GoodWaits(P) /\ GoodReader(P)
  BY DEF Good
<1>6. GoodKinds(W)
  BY <1>1, <1>3, <1>5 DEF GoodKinds, Adoptee
<1>7. GoodSleep(W)
  BY <1>1, <1>3, <1>4, <1>5 DEF GoodSleep
<1>8. GoodTable(W)
  BY <1>1, <1>3, <1>4, <1>5 DEF GoodTable
<1>9. GoodParents(W)
  <2> SUFFICES ASSUME NEW p \in Pids, Tabled(p), W[p].parent # Idle
               PROVE  /\ Tabled(W[p].parent)
                      /\ ~W[W[p].parent].kthread
                      /\ W[p].parent # Init1 => W[W[p].parent].state # "ZOMBIE"
    BY DEF GoodParents
  <2>1. CASE Adoptee(P, e, p)
    BY <2>1, <1>1, <1>3, <1>5 DEF GoodKinds
  <2>2. CASE ~Adoptee(P, e, p)
    <3>1. W[p].parent = P[p].parent /\ P[p].parent \in Pids
      BY <2>2, <1>2, <1>3 DEF Procs, ProcRecord
    <3>2. P[p].parent = e => e = Init1
      BY <2>2 DEF Adoptee
    <3> QED
      BY <3>1, <3>2, <1>3, <1>5 DEF GoodParents
  <2> QED
    BY <2>1, <2>2
<1>10. GoodWaits(W)
  <2> SUFFICES ASSUME NEW p \in UserPids, W[p].state = "WAITING",
                      W[p].reason = "CHILD"
               PROVE  /\ \E c \in Pids : Matches(W, p, c)
                      /\ \A c \in Pids : Matches(W, p, c) => W[c].state # "ZOMBIE"
    BY DEF GoodWaits
  <2>1. /\ p \in Pids /\ p # e
        /\ P[p].state = "WAITING" /\ P[p].reason = "CHILD"
        /\ W[p].wait_pid = P[p].wait_pid
    BY <1>3, <1>4, ConstantFacts
  <2>2. \A c \in Pids : Matches(P, p, c) => Matches(W, p, c)
    BY <2>1, <1>3 DEF Matches, Adoptee
  <2>3. \E c \in Pids : Matches(P, p, c)
    BY <2>1, <1>5 DEF GoodWaits
  <2>4. ASSUME NEW c \in Pids, Matches(W, p, c), W[c].state = "ZOMBIE"
        PROVE  FALSE
    <3>1. CASE Adoptee(P, e, c)
      <4>1. p = Init1
        BY <3>1, <2>4, <1>3 DEF Matches
      <4>2. c = e \/ P[c].state = "ZOMBIE"
        BY <2>4, <1>3
      <4>3. W[Init1].state # "WAITING"
        BY <3>1, <4>2 DEF ExitChange
      <4> QED
        BY <4>1, <4>3
    <3>2. CASE ~Adoptee(P, e, c) /\ c = e
      <4>1. W[e].parent = p /\ P[e].parent = p /\ p # Idle
        BY <3>2, <2>4, <1>3, ConstantFacts DEF Matches
      <4>2. Tabled(p)
        BY <4>1, <1>1, <1>5 DEF GoodParents
      <4> QED
        BY <4>1, <4>2 DEF ExitChange
    <3>3. CASE ~Adoptee(P, e, c) /\ c # e
      <4>1. P[c].state = "ZOMBIE" /\ Matches(P, p, c)
        BY <3>3, <2>4, <2>1, <1>3 DEF Matches
      <4> QED
        BY <4>1, <2>1, <1>5 DEF GoodWaits
    <3> QED
      BY <3>1, <3>2, <3>3
  <2> QED
    BY <2>2, <2>3, <2>4
<1>11. GoodReader(W)
  BY <1>3, <1>5, ConstantFacts DEF GoodReader, Shape
<1> QED
  BY <1>2, <1>6, <1>7, <1>8, <1>9, <1>10, <1>11 DEF Good

-----------------------------------------------------------------------------
(* From a call of scheduler() to the invariant *)

\* What a handler owes scheduler() about the contents P it passes.
Ready(P, old, c3) ==
    /\ Good(P)
    /\ \A p \in UserPids : P[p].state = "RUNNING" => p = old
    /\ P[c3].state # "FREE"
    /\ old \in Pids => (~P[old].kthread => c3 = old)

\* The outcome then satisfies the invariant's parts on contents and control.
LEMMA OutcomeControl ==
    ASSUME Shape, NEW P, NEW old \in Pids \cup {NoProc}, NEW c3 \in Pids,
           Ready(P, old, c3), NEW o, Outcome(P, old, c3, o)
    PROVE  Good(o.proc) /\ Control(o.proc, o.current, o.cr3)
<1> DEFINE Q == o.proc
<1>1. Q \in Procs /\ Shuffle(P, Q)
  BY DEF Outcome
<1>2. Good(Q)
  BY <1>1, ShuffleGood DEF Ready
<1>3. \A p \in Pids : /\ P[p].state # "FREE" => Q[p].state # "FREE"
                      /\ Q[p].kthread = P[p].kthread
  BY <1>1 DEF Shuffle, SameFields, Active
<1>4. \A p \in UserPids : Q[p].state = "RUNNING" => p = o.current
  BY ConstantFacts DEF Outcome, Ready
<1>5. Q[Idle].kthread /\ Q[Idle].state # "FREE"
  BY <1>2 DEF Good, GoodKinds
<1>6. o.current # Idle => Tabled(o.current) /\ Q[o.current].state = "RUNNING"
  BY DEF Outcome
<1>7. Q[o.cr3].state # "FREE"
  BY <1>3, <1>5, <1>6 DEF Outcome, Ready
<1>8. ~Q[o.current].kthread => o.cr3 = o.current
  BY <1>3, <1>5 DEF Outcome, Ready
<1> QED
  BY <1>2, <1>4, <1>6, <1>7, <1>8 DEF Control

\* The outcomes of do_exit, of a process in ring 3.
LEMMA DoExitFacts ==
    ASSUME Shape, NEW P, NEW e \in UserPids, NEW c \in Slots, NEW c3 \in Pids,
           Good(P), \A p \in UserPids : P[p].state = "RUNNING" => p = e,
           P[c3].state # "FREE", Tabled(e), P[e].where = "user",
           NEW o \in DoExit(P, e, c, c3)
    PROVE  /\ Good(o.proc) /\ Control(o.proc, o.current, o.cr3)
           /\ Outcome(Exiting(P, e), NoProc, c3, o)
           /\ \A p \in Pids : P[p].state = "ZOMBIE" => o.proc[p].state = "ZOMBIE"
<1> DEFINE W == Exiting(P, e)
<1>1. Table /\ P \in Procs
  BY DEF Shape, Good
<1>2. ExitChange(P, e, W)
  BY <1>1, ExitingFacts
<1>3. o \in Scheduler(W, NoProc, c, c3)
  BY DEF DoExit, Exiting
<1> HIDE DEF W
<1>4. Good(W) /\ W \in Procs
  BY <1>2, ExitGood DEF ExitChange
<1>5. Ready(W, NoProc, c3)
  BY <1>2, <1>4, ConstantFacts DEF Ready, ExitChange
<1>6. Outcome(W, NoProc, c3, o)
  BY <1>1, <1>3, <1>4, SchedulerFacts
<1>7. Good(o.proc) /\ Control(o.proc, o.current, o.cr3)
  BY <1>5, <1>6, OutcomeControl
<1>8. \A p \in Pids : P[p].state = "ZOMBIE" => W[p].state = "ZOMBIE"
  BY <1>2 DEF ExitChange
<1>9. \A p \in Pids : W[p].state = "ZOMBIE" => o.proc[p].state = "ZOMBIE"
  BY <1>6 DEF Outcome, Shuffle, Active
<1> QED
  BY <1>6, <1>7, <1>8, <1>9 DEF W

\* The contents P with q's pending SIGINT cleared.
ClearSigint(P, q) == [P EXCEPT ![q].sigint = FALSE]

\* Clearing it shuffles.
LEMMA ClearSigintFacts ==
    ASSUME NEW P \in Procs, NEW q \in Pids
    PROVE  /\ ClearSigint(P, q) \in Procs
           /\ Shuffle(P, ClearSigint(P, q))
           /\ \A p \in Pids : ClearSigint(P, q)[p].state = P[p].state
<1> DEFINE r == [P[q] EXCEPT !.sigint = FALSE]
<1>1. P[q] \in ProcRecord
  BY DEF Procs
<1>2. /\ r \in ProcRecord /\ SameFields(P[q], r)
      /\ r.state = P[q].state /\ r.deadline = P[q].deadline
  BY Zenon, <1>1 DEF ProcRecord, SameFields
<1>3. /\ ClearSigint(P, q)[q] = r
      /\ \A p \in Pids : p # q => ClearSigint(P, q)[p] = P[p]
      /\ ClearSigint(P, q) = [P EXCEPT ![q] = r]
  BY DEF Procs, ClearSigint
<1> HIDE DEF r
<1>4. ClearSigint(P, q) \in Procs
  BY <1>2, <1>3 DEF Procs
<1>5. \A p \in Pids : SameFields(P[p], P[p])
  BY DEF SameFields
<1> QED
  BY <1>2, <1>3, <1>4, <1>5 DEF Shuffle

\* scheduler() and signal delivery, as the timer and int 0x30 run them.
LEMMA ReschedFacts ==
    ASSUME IInv, NEW P, Ready(P, current_process, cr3), Resched(P)
    PROVE  /\ Good(proc') /\ Control(proc', current_process', cr3')
           /\ current_process' \in Pids /\ cr3' \in Pids /\ rr_cursor' \in Slots
           /\ current_process_index' \in Slots \cup {-1}
           /\ current_process_index' # -1 =>
                 processes[current_process_index'] = current_process'
           /\ \A p \in Pids : P[p].state = "ZOMBIE" => proc'[p].state = "ZOMBIE"
<1>1. /\ Shape /\ Table /\ current_process \in Pids /\ cr3 \in Pids
      /\ rr_cursor \in Slots /\ P \in Procs
  BY DEF IInv, Shape, Ready, Good
<1>2. PICK o \in Scheduler(P, current_process, rr_cursor, cr3) :
        IF Deliverable(o.proc, o.current)
          THEN \E x \in DoExit([o.proc EXCEPT ![o.current].sigint = FALSE],
                               o.current, o.cursor, o.cr3) : Install(x)
          ELSE Install(o)
  BY Zenon DEF Resched
<1>3. Outcome(P, current_process, cr3, o)
  BY <1>1, <1>2, SchedulerFacts
<1>4. Good(o.proc) /\ Control(o.proc, o.current, o.cr3)
  BY <1>1, <1>3, OutcomeControl
<1>5. \A p \in Pids : P[p].state = "ZOMBIE" => o.proc[p].state = "ZOMBIE"
  BY <1>3 DEF Outcome, Shuffle, Active
<1>6. CASE ~Deliverable(o.proc, o.current)
  BY <1>2, <1>3, <1>4, <1>5, <1>6 DEF Install, Outcome
<1>7. CASE Deliverable(o.proc, o.current)
  <2> DEFINE S == ClearSigint(o.proc, o.current)
  <2>1. PICK x \in DoExit(S, o.current, o.cursor, o.cr3) : Install(x)
    BY <1>2, <1>7 DEF ClearSigint
  <2>2. /\ o.current \in Pids /\ o.proc \in Procs /\ o.cursor \in Slots
        /\ o.cr3 \in Pids
    BY <1>3 DEF Outcome
  <2>3. o.current # Idle
    BY <1>4, <1>7 DEF Deliverable, Good, GoodKinds
  <2>4. o.current \in UserPids /\ Tabled(o.current)
    BY <1>4, <2>2, <2>3, ConstantFacts DEF Control
  <2>5. /\ S \in Procs /\ Shuffle(o.proc, S)
        /\ \A p \in Pids : S[p].state = o.proc[p].state
    BY <2>2, ClearSigintFacts
  <2> HIDE DEF S
  <2>6. S[o.current].where = o.proc[o.current].where
    BY <2>2, <2>5 DEF Shuffle, SameFields
  <2>7. Good(S)
    BY <1>1, <1>4, <2>5, ShuffleGood
  <2>8. /\ \A p \in UserPids : S[p].state = "RUNNING" => p = o.current
        /\ S[o.cr3].state # "FREE" /\ S[o.current].where = "user"
    BY <1>4, <1>7, <2>2, <2>5, <2>6, ConstantFacts DEF Control, Deliverable
  <2>9. /\ Good(x.proc) /\ Control(x.proc, x.current, x.cr3)
        /\ Outcome(Exiting(S, o.current), NoProc, o.cr3, x)
        /\ \A p \in Pids : S[p].state = "ZOMBIE" => x.proc[p].state = "ZOMBIE"
    BY <1>1, <2>1, <2>2, <2>4, <2>7, <2>8, DoExitFacts
  <2> QED
    BY <1>5, <2>1, <2>5, <2>9 DEF Install, Outcome
<1> QED
  BY <1>6, <1>7

\* Steps that leave the table alone: the new contents and control suffice.
LEMMA LiftTty ==
    ASSUME IInv, UNCHANGED <<processes, process_count, next_pid>>,
           current_process' \in Pids, cr3' \in Pids, rr_cursor' \in Slots,
           ring' \in 0 .. RingCap, waiting_reader' \in UserPids \cup {NoProc},
           current_process_index' \in Slots \cup {-1},
           current_process_index' # -1 =>
               processes[current_process_index'] = current_process',
           proc' \in Procs, GoodKinds(proc'), GoodSleep(proc'), GoodTable(proc'),
           GoodParents(proc'), GoodWaits(proc'), GoodReader(proc)',
           Control(proc, current_process, cr3)'
    PROVE  IInv'
<1>1. Shape'
  BY DEF IInv, Shape, Table
<1>2. \A p : Tabled(p)' <=> Tabled(p)
  BY DEF Tabled, InTable
<1>3. Occupied' = Occupied
  BY DEF Occupied
<1>4. Counted'
  BY <1>3 DEF IInv, Counted
<1>5. GoodKinds(proc)' /\ GoodSleep(proc)' /\ GoodTable(proc)'
  BY <1>2 DEF GoodKinds, GoodSleep, GoodTable
<1>6. GoodParents(proc)'
  BY <1>2 DEF GoodParents
<1>7. GoodWaits(proc)'
  BY <1>2 DEF GoodWaits, Matches
<1> QED
  BY <1>1, <1>4, <1>5, <1>6, <1>7 DEF IInv, Good

\* The same for steps that leave the TTY alone as well.
LEMMA Lift ==
    ASSUME IInv, UNCHANGED <<processes, process_count, next_pid, ttyVars>>,
           current_process' \in Pids, cr3' \in Pids, rr_cursor' \in Slots,
           current_process_index' \in Slots \cup {-1},
           current_process_index' # -1 =>
               processes[current_process_index'] = current_process',
           Good(proc'), Control(proc', current_process', cr3')
    PROVE  IInv'
<1>1. ring' = ring /\ waiting_reader' = waiting_reader
  BY DEF ttyVars
<1>2. ring \in 0 .. RingCap /\ waiting_reader \in UserPids \cup {NoProc}
  BY DEF IInv, Shape
<1>3. GoodReader(proc)'
  BY <1>1 DEF Good, GoodReader
<1>4. Control(proc, current_process, cr3)'
  BY <1>1 DEF Control, Tabled, InTable
<1> QED
  BY <1>1, <1>2, <1>3, <1>4, LiftTty DEF Good

-----------------------------------------------------------------------------
(* Each action preserves the invariant *)

\* A step that reaps nobody.
ZombiesKept ==
    \A p \in Pids : proc[p].state = "ZOMBIE" => proc'[p].state = "ZOMBIE"

\* What every action's proof starts from.
LEMMA IInvFacts ==
    ASSUME IInv
    PROVE  /\ Shape /\ Table /\ Good(proc) /\ proc \in Procs
           /\ Ready(proc, current_process, cr3)
           /\ current_process \in Pids /\ cr3 \in Pids /\ rr_cursor \in Slots
           /\ proc[current_process] \in ProcRecord
           /\ current_process # Idle =>
                 current_process \in UserPids /\ Tabled(current_process)
BY ConstantFacts DEF IInv, Shape, Ready, Control, Good, Procs
=============================================================================
