--------------------------- MODULE SchedulerProofs ---------------------------
(***************************************************************************)
(* Proofs about Scheduler, for any number of kernel threads and processes, *)
(* any quantum and any timeout.                                            *)
(*                                                                         *)
(* The safety properties are not inductive.  What carries them is that the *)
(* main task sits at index 0, is the only one to spawn and reap, and reaps *)
(* the last entry of the table: remove_process then never moves an entry   *)
(* nor touches CURRENT.  The handlers' use of CURRENT for "the process     *)
(* that trapped" is sound because CURRENT follows every context switch.    *)
(***************************************************************************)
EXTENDS Scheduler, FiniteSetTheorems, TLAPS

\* The table: main first, no task twice, no reaped process left in it.
TableOK ==
    /\ tasks[0] = Main
    /\ \A i, j \in Idx : tasks[i] = tasks[j] => i = j
    /\ \A i \in Idx : tasks[i] \in Procs => pc[tasks[i]] # "free"

\* The CPU holds the context of tasks[CURRENT].
CpuOK ==
    /\ CurrentIsRunning
    /\ cr3 = SpaceOf(running)
    /\ rsp0 = running

\* A process has no exit record before it starts to exit, and on the way out
\* only the one of its cause.
ExitOK ==
    \A p \in Procs :
        /\ pc[p] \in {"entry", "ring3"} => exit[p] = NoInfo
        /\ pc[p] = "exiting" => cause[p] # NoInfo
        /\ pc[p] = "exiting" /\ exit[p] = NoInfo => cause[p] = "normal"
        /\ pc[p] # "free" /\ exit[p] # NoInfo => exit[p] = cause[p]

\* The process the shell works on is the last entry of the table.
ShellOK ==
    mpc \notin {"idle", "halted"} =>
        /\ pid = count - 1 /\ pid # 0
        /\ tasks[pid] = child /\ child \in Procs

IndInv == TypeOK /\ TableOK /\ CpuOK /\ TlsPrivate /\ ExitOK /\ ShellOK

USE DEF NoInfo, Killed, ExitInfo, Modes, ProcPcs, MainPcs, KernelSpace, NoMsg

\* The boot state: the table holds the kernel tasks, main runs, no process
\* exists.
LEMMA InitInv == Init => IndInv
<1> SUFFICES ASSUME Init PROVE IndInv
  OBVIOUS
<1> USE ConstantsAssumption
<1>1. IsFiniteSet(KTasks)
  BY FS_AddElement DEF KTasks
<1>2. Cardinality(KTasks) \in Nat /\ Cardinality(KTasks) # 0
  BY <1>1, FS_CardinalityType, FS_EmptySet DEF KTasks
<1>3. TypeOK
  <2>1. count \in Nat \ {0} /\ tasks \in [Idx -> Tasks] /\ current \in Idx
    BY <1>2 DEF Init, Idx, Tasks
  <2>2. /\ running \in Tasks /\ fsMsr \in FsBases
        /\ cr3 \in Procs \cup {KernelSpace} /\ rsp0 \in Tasks /\ child \in Tasks
    BY DEF Init, Tasks, KTasks
  <2>3. phase \in 0 .. Quantum - 1 /\ left \in 0 .. WaitTicks
    BY DEF Init
  <2>4. /\ pc \in [Procs -> ProcPcs]
        /\ exit \in [Procs -> ExitInfo \cup {NoInfo}]
        /\ inbox \in [Procs -> Msgs \cup {NoMsg}]
        /\ fsBase \in [Procs -> FsBases]
        /\ fsWant \in [Procs -> FsBases]
        /\ cause \in [Procs -> ExitInfo \cup {NoInfo}]
    BY DEF Init
  <2>5. mpc \in MainPcs /\ mode \in Modes /\ pid \in Nat
    BY DEF Init
  <2> QED
    BY <2>1, <2>2, <2>3, <2>4, <2>5 DEF TypeOK
<1>4. TableOK
  BY <1>2, <1>3 DEF Init, TableOK, TypeOK, Idx, KTasks
<1>5. CpuOK
  BY DEF Init, CpuOK, CurrentIsRunning, SpaceOf, KTasks
<1>6. TlsPrivate
  BY DEF Init, TlsPrivate
<1>7. ExitOK
  BY DEF Init, ExitOK
<1>8. ShellOK
  BY DEF Init, ShellOK
<1> QED
  BY <1>3, <1>4, <1>5, <1>6, <1>7, <1>8 DEF IndInv

\* A timer tick, with or without a context switch.
LEMMA TimerInv == IndInv /\ Timer => IndInv'
<1> SUFFICES ASSUME IndInv, Timer PROVE IndInv'
  OBVIOUS
<1> USE ConstantsAssumption DEF IndInv
<1>0. /\ phase' \in 0 .. Quantum - 1
      /\ left' \in 0 .. WaitTicks
      /\ UNCHANGED <<count, tasks, pc, exit, inbox, mpc, mode, pid, fsWant,
                     cause, child>>
  BY DEF Timer, TypeOK, hist
<1>1. CASE UNCHANGED <<current, cpu, fsBase>>
  <2>1. TypeOK'
    BY <1>0, <1>1 DEF TypeOK, Idx, cpu
  <2>2. TableOK' /\ CpuOK' /\ TlsPrivate' /\ ExitOK' /\ ShellOK'
    BY <1>0, <1>1 DEF TableOK, CpuOK, CurrentIsRunning, SpaceOf, TlsPrivate,
                      ExitOK, ShellOK, Idx, cpu
  <2> QED
    BY <2>1, <2>2
<1>2. ASSUME NEW n \in Idx, SwitchTo(n) PROVE IndInv'
  <2>1. tasks[n] \in Tasks /\ tasks[current] \in Tasks
    BY <1>2 DEF TypeOK
  <2>2. fsBase' \in [Procs -> FsBases]
    BY <1>2 DEF SwitchTo, TypeOK
  <2>3. fsMsr' \in FsBases
    BY <1>2, <2>2 DEF SwitchTo, TypeOK
  <2>4. TypeOK'
    <3>1. current' \in Idx' /\ running' \in Tasks /\ rsp0' \in Tasks
      BY <1>0, <1>2, <2>1 DEF SwitchTo, Idx
    <3>2. cr3' \in Procs \cup {KernelSpace}
      BY <1>2, <2>1 DEF SwitchTo, SpaceOf
    <3> QED
      BY <1>0, <2>2, <2>3, <3>1, <3>2 DEF TypeOK, Idx
  <2>5. TableOK' /\ ExitOK' /\ ShellOK'
    BY <1>0 DEF TableOK, ExitOK, ShellOK, Idx
  <2>6. CpuOK'
    BY <1>0, <1>2 DEF SwitchTo, CpuOK, CurrentIsRunning, SpaceOf
  <2>7. TlsPrivate'
    <3> SUFFICES ASSUME NEW p \in Procs, pc[p] = "ring3"
                 PROVE IF running' = p THEN fsMsr' = fsWant[p]
                                       ELSE fsBase'[p] = fsWant[p]
      BY <1>0 DEF TlsPrivate
    <3>1. tasks[current] = running
      BY DEF CpuOK, CurrentIsRunning
    <3>2. fsBase'[p] = fsWant[p]
      BY <1>2, <3>1 DEF SwitchTo, TlsPrivate, TypeOK
    <3>3. running' = p => fsMsr' = fsBase'[p]
      BY <1>2 DEF SwitchTo
    <3> QED
      BY <3>2, <3>3
  <2> QED
    BY <2>4, <2>5, <2>6, <2>7
<1> QED
  BY <1>1, <1>2 DEF Timer, SchedulerTick

\* What a process does: kernel entry, syscalls, traps and its own exit.
LEMMA ProcStepInv == ASSUME NEW p \in Procs PROVE IndInv /\ ProcStep(p) => IndInv'
<1> SUFFICES ASSUME IndInv, ProcStep(p) PROVE IndInv'
  OBVIOUS
<1> USE ConstantsAssumption DEF IndInv
<1>0. running = p => Cur = p
  BY DEF CpuOK, CurrentIsRunning, Cur
<1>1. ASSUME EnterUsermode(p) PROVE IndInv'
  <2>1. TypeOK'
    BY <1>1 DEF EnterUsermode, TypeOK, table, shell, Idx
  <2>2. TableOK' /\ CpuOK' /\ ShellOK'
    BY <1>1 DEF EnterUsermode, TypeOK, table, shell, Idx, TableOK, CpuOK,
                CurrentIsRunning, SpaceOf, ShellOK
  <2>3. TlsPrivate' /\ ExitOK'
    BY <1>1 DEF EnterUsermode, TypeOK, TlsPrivate, ExitOK
  <2> QED
    BY <2>1, <2>2, <2>3
<1>2. ASSUME NEW b \in FsBases, ArchPrctl(p, b) PROVE IndInv'
  <2>1. TypeOK'
    BY <1>0, <1>2 DEF ArchPrctl, TypeOK, table, shell, Idx
  <2>2. TableOK' /\ CpuOK' /\ ShellOK'
    BY <1>2 DEF ArchPrctl, TypeOK, table, shell, Idx, TableOK, CpuOK,
                CurrentIsRunning, SpaceOf, ShellOK
  <2>3. TlsPrivate' /\ ExitOK'
    BY <1>0, <1>2 DEF ArchPrctl, TypeOK, TlsPrivate, ExitOK
  <2> QED
    BY <2>1, <2>2, <2>3
<1>3. ASSUME NEW i \in 0 .. count, NEW m \in Msgs, SysSend(p, i, m) PROVE IndInv'
  <2>1. inbox' \in [Procs -> Msgs \cup {NoMsg}]
    BY <1>3 DEF SysSend, Deliver, TypeOK
  <2>2. UNCHANGED <<table, cpu, phase, pc, exit, fsBase, shell, hist>>
    BY <1>3 DEF SysSend
  <2> QED
    BY <2>1, <2>2 DEF TypeOK, TableOK, CpuOK, CurrentIsRunning, SpaceOf,
       TlsPrivate, ExitOK, ShellOK, Idx, table, cpu, shell, hist
<1>4. ASSUME SysRecv(p) PROVE IndInv'
  <2>1. inbox' \in [Procs -> Msgs \cup {NoMsg}]
    BY <1>0, <1>4 DEF SysRecv, TypeOK
  <2>2. UNCHANGED <<table, cpu, phase, pc, exit, fsBase, shell, hist>>
    BY <1>4 DEF SysRecv
  <2> QED
    BY <2>1, <2>2 DEF TypeOK, TableOK, CpuOK, CurrentIsRunning, SpaceOf,
       TlsPrivate, ExitOK, ShellOK, Idx, table, cpu, shell, hist
<1>5. ASSUME \/ SysExit(p)
             \/ \E k \in Killed : Kill(p, k)
             \/ ExitSelf(p)
      PROVE IndInv'
  <2>1. /\ UNCHANGED <<table, cpu, phase, inbox, fsBase, shell, fsWant, child>>
        /\ pc[p] # "free"
        /\ pc' \in [Procs -> ProcPcs]
        /\ pc'[p] \in {"exiting", "parked"}
        /\ \A q \in Procs : q # p => pc'[q] = pc[q]
    BY <1>5 DEF SysExit, Kill, ExitSelf, TypeOK, hist
  <2>2. /\ exit' \in [Procs -> ExitInfo \cup {NoInfo}]
        /\ cause' \in [Procs -> ExitInfo \cup {NoInfo}]
    BY <1>0, <1>5 DEF SysExit, Kill, ExitSelf, MarkExited, TypeOK, hist
  <2>3. TypeOK'
    BY <2>1, <2>2 DEF TypeOK, Idx, table, cpu, shell
  <2>4. TableOK' /\ CpuOK' /\ ShellOK'
    BY <2>1 DEF TypeOK, table, shell, cpu, Idx, TableOK, CpuOK,
                CurrentIsRunning, SpaceOf, ShellOK
  <2>5. TlsPrivate'
    BY <2>1 DEF TlsPrivate, cpu
  <2>6. ExitOK'
    BY <1>0, <1>5 DEF SysExit, Kill, ExitSelf, MarkExited, TypeOK, ExitOK, hist
  <2> QED
    BY <2>3, <2>4, <2>5, <2>6
<1> QED
  BY <1>1, <1>2, <1>3, <1>4, <1>5 DEF ProcStep

\* spawn: the new process becomes the last entry of the table.
LEMMA SpawnInv ==
  ASSUME NEW p \in Procs, NEW m \in Modes, IndInv, Spawn(p, m) PROVE IndInv'
<1> USE ConstantsAssumption DEF IndInv
<1>1. /\ count' = count + 1 /\ pid' = count /\ mpc' = "spawned" /\ mode' = m
      /\ tasks' = [i \in 0 .. count |-> IF i = count THEN p ELSE tasks[i]]
      /\ child' = p /\ pc[p] = "free" /\ running = Main
      /\ UNCHANGED <<current, running, fsMsr, cr3, rsp0, phase, left>>
  BY DEF Spawn, cpu
<1>2. /\ pc' = [pc EXCEPT ![p] = "entry"]
      /\ exit' = [exit EXCEPT ![p] = NoInfo]
      /\ inbox' = [inbox EXCEPT ![p] = NoMsg]
      /\ fsBase' = [fsBase EXCEPT ![p] = 0]
      /\ fsWant' = [fsWant EXCEPT ![p] = 0]
      /\ cause' = [cause EXCEPT ![p] = NoInfo]
  BY DEF Spawn, Fresh
<1>3. Idx' = 0 .. count /\ \A i \in Idx : i \in Idx' /\ i # count
  BY <1>1 DEF Idx, TypeOK
<1>4. TypeOK'
  <2>1. count' \in Nat \ {0} /\ tasks' \in [Idx' -> Tasks] /\ current' \in Idx'
    BY <1>1, <1>3 DEF TypeOK, Idx, Tasks
  <2>2. /\ pc' \in [Procs -> ProcPcs]
        /\ exit' \in [Procs -> ExitInfo \cup {NoInfo}]
        /\ inbox' \in [Procs -> Msgs \cup {NoMsg}]
        /\ fsBase' \in [Procs -> FsBases]
        /\ fsWant' \in [Procs -> FsBases]
        /\ cause' \in [Procs -> ExitInfo \cup {NoInfo}]
    BY <1>2 DEF TypeOK
  <2>3. mpc' \in MainPcs /\ mode' \in Modes /\ pid' \in Nat /\ child' \in Tasks
    BY <1>1 DEF TypeOK, Tasks
  <2> QED
    BY <1>1, <2>1, <2>2, <2>3 DEF TypeOK
<1>5. TableOK'
  <2>1. \A i \in Idx : tasks[i] # p /\ tasks'[i] = tasks[i]
    BY <1>1, <1>3 DEF TableOK
  <2>2. tasks'[count] = p /\ \A i \in Idx' : i \in Idx \/ i = count
    BY <1>1, <1>3 DEF TypeOK, Idx
  <2>3. tasks'[0] = Main
    BY <2>1 DEF TableOK, TypeOK, Idx
  <2>4. \A i, j \in Idx' : tasks'[i] = tasks'[j] => i = j
    BY <2>1, <2>2 DEF TableOK
  <2>5. \A i \in Idx' : tasks'[i] \in Procs => pc'[tasks'[i]] # "free"
    BY <1>2, <2>1, <2>2 DEF TableOK, TypeOK
  <2> QED
    BY <2>3, <2>4, <2>5 DEF TableOK
<1>6. CpuOK'
  BY <1>1, <1>3 DEF CpuOK, CurrentIsRunning, SpaceOf, TypeOK
<1>7. TlsPrivate'
  BY <1>1, <1>2 DEF TlsPrivate, TypeOK
<1>8. ExitOK'
  BY <1>2 DEF ExitOK, TypeOK
<1>9. ShellOK'
  BY <1>1 DEF ShellOK, TypeOK
<1> QED
  BY <1>4, <1>5, <1>6, <1>7, <1>8, <1>9

\* remove_process: the removed entry is the last one, so no entry moves and
\* CURRENT, which is 0, stays.
LEMMA RemoveCommitInv ==
  ASSUME IndInv, RemoveCommit
  PROVE  /\ IndInv'
         /\ count' = count - 1 /\ current' = current
         /\ \A i \in 0 .. count - 2 : tasks'[i] = tasks[i]
<1> USE ConstantsAssumption DEF IndInv
<1>1. /\ running = Main /\ mpc = "removing" /\ mpc' = "idle"
      /\ tasks' = SwapRemove(pid) /\ count' = count - 1
      /\ UNCHANGED <<running, fsMsr, cr3, rsp0, phase, mode, pid, left, child>>
  BY DEF RemoveCommit, cpu
<1>2. /\ pid = count - 1 /\ pid # 0 /\ tasks[pid] = child /\ child \in Procs
      /\ count \in Nat /\ count - 1 \in Idx /\ count # 1
  BY <1>1 DEF ShellOK, TypeOK, Idx
<1>3. current = 0
  BY <1>1 DEF CpuOK, CurrentIsRunning, TableOK, TypeOK, Idx
<1>4. current' = current
  <2>1. current # count - 1 /\ ~(pid < current)
    BY <1>2, <1>3 DEF TypeOK
  <2> QED
    BY <2>1 DEF RemoveCommit
<1>5. /\ Idx' = 0 .. count - 2
      /\ Idx' \subseteq Idx
      /\ \A i \in Idx' : i # pid /\ tasks'[i] = tasks[i]
      /\ tasks' \in [Idx' -> Tasks]
  BY <1>1, <1>2 DEF SwapRemove, Idx, TypeOK
<1>6. /\ pc' = [pc EXCEPT ![child] = "free"]
      /\ exit' = [exit EXCEPT ![child] = NoInfo]
      /\ inbox' = [inbox EXCEPT ![child] = NoMsg]
      /\ fsBase' = [fsBase EXCEPT ![child] = 0]
      /\ fsWant' = [fsWant EXCEPT ![child] = 0]
      /\ cause' = [cause EXCEPT ![child] = NoInfo]
  BY <1>2 DEF RemoveCommit, Fresh
<1>7. TypeOK'
  <2>1. count' \in Nat \ {0} /\ current' \in Idx'
    BY <1>1, <1>2, <1>3, <1>4, <1>5 DEF TypeOK
  <2>2. /\ pc' \in [Procs -> ProcPcs]
        /\ exit' \in [Procs -> ExitInfo \cup {NoInfo}]
        /\ inbox' \in [Procs -> Msgs \cup {NoMsg}]
        /\ fsBase' \in [Procs -> FsBases]
        /\ fsWant' \in [Procs -> FsBases]
        /\ cause' \in [Procs -> ExitInfo \cup {NoInfo}]
    BY <1>6 DEF TypeOK
  <2> QED
    BY <1>1, <1>5, <2>1, <2>2 DEF TypeOK
<1>8. TableOK'
  <2>1. \A i \in Idx' : tasks[i] # child
    BY <1>2, <1>5 DEF TableOK
  <2>2. tasks'[0] = Main
    BY <1>5, <1>3, <1>4, <1>7 DEF TableOK, TypeOK
  <2> QED
    BY <1>5, <1>6, <2>1, <2>2 DEF TableOK, TypeOK
<1>9. CpuOK'
  BY <1>1, <1>4, <1>5, <1>7 DEF CpuOK, CurrentIsRunning, SpaceOf, TypeOK
<1>10. TlsPrivate'
  BY <1>1, <1>6 DEF TlsPrivate, TypeOK
<1>11. ExitOK'
  BY <1>6 DEF ExitOK, TypeOK
<1>12. ShellOK'
  BY <1>1 DEF ShellOK
<1> QED
  BY <1>1, <1>4, <1>5, <1>7, <1>8, <1>9, <1>10, <1>11, <1>12

\* The shell's other steps touch only its own variables and one inbox.
LEMMA MainStepInv == IndInv /\ MainStep => IndInv'
<1> SUFFICES ASSUME IndInv, MainStep PROVE IndInv'
  OBVIOUS
<1>1. ASSUME NEW p \in Procs, NEW m \in Modes, Spawn(p, m) PROVE IndInv'
  BY <1>1, SpawnInv
<1>2. ASSUME NEW m \in Msgs, SendFromKernel(m) PROVE IndInv'
  <2> USE ConstantsAssumption DEF IndInv
  <2>1. inbox' \in [Procs -> Msgs \cup {NoMsg}]
    BY <1>2 DEF SendFromKernel, Deliver, TypeOK
  <2>2. /\ UNCHANGED <<table, cpu, phase, pc, exit, fsBase, mode, pid, left, hist>>
        /\ mpc = "spawned" /\ mpc' \in {"halted", "sent"}
    BY <1>2 DEF SendFromKernel
  <2> QED
    BY <2>1, <2>2 DEF TypeOK, TableOK, CpuOK, CurrentIsRunning, SpaceOf,
       TlsPrivate, ExitOK, ShellOK, Idx, table, cpu, hist
<1>3. ASSUME WaitBegin \/ WaitPoll \/ WaitDeadline \/ RemoveCheck PROVE IndInv'
  <2> USE ConstantsAssumption DEF IndInv
  <2>1. /\ UNCHANGED <<table, cpu, phase, procs, mode, pid, hist>>
        /\ mpc \notin {"idle", "halted"}
        /\ left' \in 0 .. WaitTicks
    BY <1>3 DEF WaitBegin, WaitPoll, WaitDeadline, RemoveCheck, TypeOK
  <2>2. mpc' \in MainPcs
    BY <1>3 DEF WaitBegin, WaitPoll, WaitDeadline, RemoveCheck, TypeOK
  <2> QED
    BY <2>1, <2>2 DEF TypeOK, TableOK, CpuOK, CurrentIsRunning, SpaceOf,
       TlsPrivate, ExitOK, ShellOK, Idx, table, cpu, procs, hist
<1>4. ASSUME RemoveCommit PROVE IndInv'
  BY <1>4, RemoveCommitInv
<1> QED
  BY <1>1, <1>2, <1>3, <1>4 DEF MainStep, MainCode

\* Every step of the kernel, and stuttering, preserves the invariant.
LEMMA NextInv == IndInv /\ [Next]_vars => IndInv'
<1> SUFFICES ASSUME IndInv, [Next]_vars PROVE IndInv'
  OBVIOUS
<1>1. CASE Timer
  BY <1>1, TimerInv
<1>2. CASE MainStep
  BY <1>2, MainStepInv
<1>3. ASSUME NEW p \in Procs, ProcStep(p) PROVE IndInv'
  BY <1>3, ProcStepInv
<1>4. CASE UNCHANGED vars
  BY <1>4 DEF IndInv, TypeOK, TableOK, CpuOK, CurrentIsRunning, SpaceOf,
     TlsPrivate, ExitOK, ShellOK, Idx, vars, table, cpu, procs, shell, hist
<1> QED
  BY <1>1, <1>2, <1>3, <1>4 DEF Next

\* The inductive invariant holds of every behaviour: table, CPU registers,
\* exit records and the shell's pid agree after every preemption.
THEOREM Inductive == Spec => []IndInv
<1>1. QED
  BY InitInv, NextInv, PTL DEF Spec

\* The task table, the CPU registers and the process records stay well typed;
\* CURRENT in particular never indexes past the table (tasks_mut()[CURRENT]
\* would panic in an interrupt handler).
THEOREM TypeCorrect == Spec => []TypeOK
<1>1. IndInv => TypeOK
  BY DEF IndInv
<1> QED
  BY <1>1, Inductive, PTL

\* For any number of tasks and any interleaving, a handler that looks up
\* tasks[CURRENT] finds the task that trapped.
THEOREM CurrentCorrect == Spec => []CurrentIsRunning
<1>1. IndInv => CurrentIsRunning
  BY DEF IndInv, CpuOK
<1> QED
  BY <1>1, Inductive, PTL

\* The running task has its own address space and kernel stack loaded and
\* has not been reaped.
THEOREM CpuCorrect == Spec => []CpuMatchesTask
<1>1. IndInv => CpuMatchesTask
  BY DEF IndInv, CpuOK, CpuMatchesTask, CurrentIsRunning, TableOK, TypeOK
<1> QED
  BY <1>1, Inductive, PTL

\* FS_BASE is private to each process.
THEOREM TlsCorrect == Spec => []TlsPrivate
<1>1. IndInv => TlsPrivate
  BY DEF IndInv
<1> QED
  BY <1>1, Inductive, PTL

\* A recorded exit is the process's own first cause.
THEOREM ExitCorrect == Spec => []FirstCauseKept
<1>1. IndInv => FirstCauseKept
  BY DEF IndInv, ExitOK, FirstCauseKept
<1> QED
  BY <1>1, Inductive, PTL

\* The shell's pid names the process it spawned until it has reaped it.
THEOREM PidCorrect == Spec => []PidIsChild
<1>1. IndInv => PidIsChild
  BY DEF IndInv, ShellOK, PidIsChild, TypeOK, Idx
<1> QED
  BY <1>1, Inductive, PTL

\* swap_remove never renumbers a live process.
THEOREM PidsNeverMove == Spec => PidStable
<1> DEFINE Stable ==
      \A i \in Idx : tasks[i] \in Procs /\ pc'[tasks[i]] # "free" =>
                         i \in 0 .. count' - 1 /\ tasks'[i] = tasks[i]
<1>1. IndInv /\ [Next]_vars => [Stable]_vars
  <2> SUFFICES ASSUME IndInv, Next PROVE Stable
    OBVIOUS
  <2>1. CASE UNCHANGED <<count, tasks>>
    BY <2>1 DEF IndInv, TypeOK, Idx
  <2>2. ASSUME NEW p \in Procs, NEW m \in Modes, Spawn(p, m) PROVE Stable
    BY <2>2 DEF Spawn, IndInv, TypeOK, Idx
  <2>3. CASE RemoveCommit
    <3>1. /\ count' = count - 1 /\ \A i \in 0 .. count - 2 : tasks'[i] = tasks[i]
      BY <2>3, RemoveCommitInv
    <3>2. pid = count - 1 /\ pc'[tasks[pid]] = "free"
      BY <2>3 DEF RemoveCommit, Fresh, IndInv, ShellOK, TypeOK
    <3> QED
      BY <3>1, <3>2 DEF IndInv, TypeOK, Idx
  <2> HIDE DEF Stable
  <2> QED
    BY <2>1, <2>2, <2>3 DEF Next, MainStep, MainCode, Timer, SendFromKernel,
       WaitBegin, WaitPoll, WaitDeadline, RemoveCheck, ProcStep, EnterUsermode,
       ArchPrctl, SysSend, SysRecv, SysExit, Kill, ExitSelf, table
<1> QED
  BY <1>1, Inductive, PTL DEF Spec, PidStable

\* No context switch resumes a process that has exited.
THEOREM ExitedStayParked == Spec => NeverResumeExited
<1> DEFINE Live == running' # running =>
                      ~(running' \in Procs /\ exit'[running'] # NoInfo)
<1>1. [Next]_vars => [Live]_vars
  <2> SUFFICES ASSUME Next PROVE Live
    OBVIOUS
  <2>1. CASE running' = running
    BY <2>1
  <2>2. CASE Timer
    BY <2>2 DEF Timer, SchedulerTick, SwitchTo, IsNext, Exited, cpu
  <2> HIDE DEF Live
  <2> QED
    BY <2>1, <2>2 DEF Next, MainStep, MainCode, Spawn, SendFromKernel,
       WaitBegin, WaitPoll, WaitDeadline, RemoveCheck, RemoveCommit, ProcStep,
       EnterUsermode, ArchPrctl, SysSend, SysRecv, SysExit, Kill, ExitSelf, cpu
<1> QED
  BY <1>1, PTL DEF Spec, NeverResumeExited
==============================================================================
