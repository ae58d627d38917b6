------------------------------ MODULE Scheduler ------------------------------
(***************************************************************************)
(* The task table, the timer-driven round robin and the life of a process. *)
(*                                                                         *)
(* Source: src/task.rs (the table, scheduler_tick, push_task,              *)
(* remove_process, mailboxes), src/process.rs (spawn, trampoline, exit,    *)
(* kill, wait, reap), src/interrupts.rs (timer), the FS_BASE part of       *)
(* src/linux_abi.rs and src/syscall.rs, and the callers in src/shell.rs.   *)
(*                                                                         *)
(* The model starts where kmain hands over to the shell: the table holds   *)
(* the main task at index 0 and the kernel threads behind it.  Indices are *)
(* the code's (from 0), so the scheduler's arithmetic is literal.          *)
(*                                                                         *)
(* Atomicity.  Interrupt handlers and syscalls run with IF clear: each is  *)
(* one action.  Code of the main task runs with interrupts on and is cut   *)
(* wherever another task could run between two accesses to shared state.   *)
(***************************************************************************)
EXTENDS Integers, FiniteSets

CONSTANTS
    Main,           \* the boot task, index 0: runs the shell
    KThreads,       \* the kernel threads behind it (bg-0.., wayland)
    Procs,          \* identities of ring-3 processes (reused once reaped)
    FsBases,        \* TLS base addresses a program may install; 0 is reset
    Msgs,           \* IPC payloads
    Quantum,        \* QUANTUM_TICKS
    WaitTicks       \* timeout_ticks handed to process::wait

NoInfo == "none"
NoMsg  == "no-message"
KernelSpace == "kernel-pml4"
Killed == {"page-fault", "exception"}
ExitInfo == Killed \cup {"normal"}

KTasks == {Main} \cup KThreads
Tasks  == KTasks \cup Procs
Modes  == {"run", "test", "ipc"}

ASSUME ConstantsAssumption ==
    /\ Quantum \in Nat \ {0}
    /\ WaitTicks \in Nat
    /\ 0 \in FsBases
    /\ NoMsg \notin Msgs
    /\ KThreads # {} /\ IsFiniteSet(KThreads)
    /\ Main \notin KThreads
    /\ KTasks \cap Procs = {}
    /\ KernelSpace \notin Procs

VARIABLES
    \* TASKS: the table, a function on 0..count-1, and CURRENT
    count, tasks, current,
    \* the CPU: whose instructions execute, the MSR, CR3, TSS.rsp0
    running, fsMsr, cr3, rsp0,
    \* TICKS % QUANTUM_TICKS
    phase,
    \* struct Process, per process: where its code is, exit, inbox, fs_base
    pc, exit, inbox, fsBase,
    \* the main task: program counter, shell command, pid, ticks left to the
    \* deadline
    mpc, mode, pid, left,
    \* history: the base each program last installed, why its run ended, and
    \* the process the main task last spawned
    fsWant, cause, child

table == <<count, tasks, current>>
cpu   == <<running, fsMsr, cr3, rsp0>>
procs == <<pc, exit, inbox, fsBase>>
shell == <<mpc, mode, pid, left>>
hist  == <<fsWant, cause, child>>
vars  == <<table, cpu, phase, procs, shell, hist>>

Idx == 0 .. count - 1
InTable(t) == \E i \in Idx : tasks[i] = t

\* Task::is_exited: kernel tasks never exit.
Exited(t) == t \in Procs /\ exit[t] # NoInfo

\* Task::cr3: a process has its own PML4, everything else shares boot's.
SpaceOf(t) == IF t \in Procs THEN t ELSE KernelSpace

Init ==
    /\ count = Cardinality(KTasks)
    /\ tasks \in [0 .. count - 1 -> KTasks]
    /\ tasks[0] = Main
    /\ \A i, j \in 0 .. count - 1 : tasks[i] = tasks[j] => i = j
    /\ current = 0
    /\ running = Main /\ cr3 = KernelSpace /\ rsp0 = Main /\ fsMsr = 0
    /\ phase = 0
    /\ pc = [p \in Procs |-> "free"]
    /\ exit = [p \in Procs |-> NoInfo]
    /\ inbox = [p \in Procs |-> NoMsg]
    /\ fsBase = [p \in Procs |-> 0]
    /\ mpc = "idle" /\ mode = "run" /\ pid = 0 /\ left = 0
    /\ fsWant = [p \in Procs |-> 0]
    /\ cause = [p \in Procs |-> NoInfo]
    /\ child = Main

------------------------------------------------------------------------------
(* The timer interrupt: timer + scheduler_tick.                             *)

\* Mutant: is_exited is not consulted.
IsNext_AnyTask(n) ==
    \E s \in 1 .. count - 1 : n = (current + s) % count /\ s = 1

\* Mutant: the scan starts from the front of the table, not from CURRENT.
IsNext_FromFront(n) ==
    \E s \in 1 .. count - 1 :
        /\ n = s % count
        /\ ~Exited(tasks[n])
        /\ \A r \in 1 .. s - 1 : Exited(tasks[r % count])

\* The first task after CURRENT, in table order, that has not exited.
IsNext(n) ==
    \E s \in 1 .. count - 1 :
        /\ n = (current + s) % count
        /\ ~Exited(tasks[n])
        /\ \A r \in 1 .. s - 1 : Exited(tasks[(current + r) % count])

\* Mutant: FS_BASE is saved after CURRENT has moved, into the incoming task.
SwitchTo_SaveAfterStore(n) ==
    /\ fsBase' = IF tasks[n] \in Procs
                 THEN [fsBase EXCEPT ![tasks[n]] = fsMsr]
                 ELSE fsBase
    /\ current' = n
    /\ fsMsr' = IF tasks[n] \in Procs THEN fsBase'[tasks[n]] ELSE fsMsr
    /\ cr3' = SpaceOf(tasks[n])
    /\ rsp0' = tasks[n]
    /\ running' = tasks[n]

\* Mutant: CURRENT is not stored before the context switch.
SwitchTo_StaleCurrent(n) ==
    /\ cr3' = SpaceOf(tasks[n]) /\ rsp0' = tasks[n] /\ running' = tasks[n]
    /\ UNCHANGED <<current, fsBase, fsMsr>>

\* Mutant: a kernel task keeps whatever address space is loaded.
SwitchTo_LazyCr3(n) ==
    /\ current' = n
    /\ cr3' = IF tasks[n] \in Procs THEN tasks[n] ELSE cr3
    /\ rsp0' = tasks[n] /\ running' = tasks[n]
    /\ UNCHANGED <<fsBase, fsMsr>>

\* The outgoing process's FS_BASE is saved, the incoming one's restored;
\* CR3 and TSS.rsp0 follow, then context_switch.
SwitchTo(n) ==
    /\ fsBase' = IF tasks[current] \in Procs
                 THEN [fsBase EXCEPT ![tasks[current]] = fsMsr]
                 ELSE fsBase
    /\ current' = n
    /\ fsMsr' = IF tasks[n] \in Procs THEN fsBase'[tasks[n]] ELSE fsMsr
    /\ cr3' = SpaceOf(tasks[n])
    /\ rsp0' = tasks[n]
    /\ running' = tasks[n]

SchedulerTick ==
    \/ /\ phase' = 0
       /\ \E n \in Idx : IsNext(n) /\ SwitchTo(n)
    \/ /\ phase' # 0 \/ ~\E n \in Idx : IsNext(n)
       /\ UNCHANGED <<current, cpu, fsBase>>

Timer ==
    /\ phase' = (phase + 1) % Quantum
    /\ left' = IF left > 0 THEN left - 1 ELSE 0
    /\ SchedulerTick
    /\ UNCHANGED <<count, tasks, pc, exit, inbox, mpc, mode, pid, hist>>

------------------------------------------------------------------------------
(* What a process does while it has the CPU.  The handlers find it through  *)
(* CURRENT (with_current_process_mut), not through the CPU.                 *)

Cur == tasks[current]

\* process_entry_trampoline -> run_ring3 -> enter_usermode: reloading the FS
\* selector clears the FS base.
EnterUsermode(p) ==
    /\ running = p /\ pc[p] = "entry"
    /\ pc' = [pc EXCEPT ![p] = "ring3"]
    /\ fsMsr' = 0
    /\ fsWant' = [fsWant EXCEPT ![p] = 0]
    /\ UNCHANGED <<table, running, cr3, rsp0, phase, exit, inbox, fsBase,
                   shell, cause, child>>

\* arch_prctl(ARCH_SET_FS, base)
ArchPrctl(p, base) ==
    /\ running = p /\ pc[p] = "ring3"
    /\ fsMsr' = base
    /\ fsBase' = [fsBase EXCEPT ![Cur] = base]
    /\ fsWant' = [fsWant EXCEPT ![p] = base]
    /\ UNCHANGED <<table, running, cr3, rsp0, phase, pc, exit, inbox, shell,
                   cause, child>>

\* task::deliver_message: one slot, a second delivery replaces the first;
\* no such pid, not a process, or already exited: refused.
Deliver(i, m) ==
    inbox' = IF i \in Idx /\ tasks[i] \in Procs /\ ~Exited(tasks[i])
             THEN [inbox EXCEPT ![tasks[i]] = m]
             ELSE inbox

\* sys_send
SysSend(p, i, m) ==
    /\ running = p /\ pc[p] = "ring3"
    /\ Deliver(i, m)
    /\ UNCHANGED <<table, cpu, phase, pc, exit, fsBase, shell, hist>>

\* sys_recv: take_current_message
SysRecv(p) ==
    /\ running = p /\ pc[p] = "ring3"
    /\ inbox' = [inbox EXCEPT ![Cur] = NoMsg]
    /\ UNCHANGED <<table, cpu, phase, pc, exit, fsBase, shell, hist>>

\* exit/exit_group: the entry stub unwinds to process_entry_trampoline.
SysExit(p) ==
    /\ running = p /\ pc[p] = "ring3"
    /\ pc' = [pc EXCEPT ![p] = "exiting"]
    /\ cause' = [cause EXCEPT ![p] = "normal"]
    /\ UNCHANGED <<table, cpu, phase, exit, inbox, fsBase, shell, fsWant,
                   child>>

\* Mutant: the last record wins.
MarkExited_Overwrite(t, info) == exit' = [exit EXCEPT ![t] = info]

\* Process::mark_exited keeps the first record.
MarkExited(t, info) ==
    exit' = IF exit[t] = NoInfo THEN [exit EXCEPT ![t] = info] ELSE exit

\* kill_current / kill_current_exception, then redirect_to_exit
Kill(p, info) ==
    /\ running = p /\ pc[p] = "ring3"
    /\ MarkExited(Cur, info)
    /\ pc' = [pc EXCEPT ![p] = "exiting"]
    /\ cause' = [cause EXCEPT ![p] = info]
    /\ UNCHANGED <<table, cpu, phase, inbox, fsBase, shell, fsWant, child>>

\* exit_self: mark_current_exited(Normal), then hlt for ever.
ExitSelf(p) ==
    /\ running = p /\ pc[p] = "exiting"
    /\ MarkExited(Cur, "normal")
    /\ pc' = [pc EXCEPT ![p] = "parked"]
    /\ UNCHANGED <<table, cpu, phase, inbox, fsBase, shell, hist>>

ProcStep(p) ==
    \/ EnterUsermode(p) \/ SysRecv(p) \/ SysExit(p) \/ ExitSelf(p)
    \/ \E b \in FsBases : ArchPrctl(p, b)
    \/ \E i \in 0 .. count, m \in Msgs : SysSend(p, i, m)
    \/ \E k \in Killed : Kill(p, k)

------------------------------------------------------------------------------
(* The main task: cmd_run / cmd_runlinux ("run") and the self-test, which   *)
(* reaps after a timeout too ("test") or sends a message first and stops    *)
(* the machine on anything but a normal exit ("ipc").                       *)

\* A Process as spawn builds it; free_process drops it.
Fresh(p, where) ==
    /\ pc' = [pc EXCEPT ![p] = where]
    /\ exit' = [exit EXCEPT ![p] = NoInfo]
    /\ inbox' = [inbox EXCEPT ![p] = NoMsg]
    /\ fsBase' = [fsBase EXCEPT ![p] = 0]
    /\ fsWant' = [fsWant EXCEPT ![p] = 0]
    /\ cause' = [cause EXCEPT ![p] = NoInfo]

\* Mutant: the pid is the length of the table after the push.
Spawn_PidOffByOne(p, m) ==
    /\ running = Main /\ mpc = "idle" /\ pc[p] = "free"
    /\ tasks' = [i \in 0 .. count |-> IF i = count THEN p ELSE tasks[i]]
    /\ count' = count + 1
    /\ pid' = count + 1
    /\ Fresh(p, "entry")
    /\ mode' = m /\ mpc' = "spawned"
    /\ child' = p
    /\ UNCHANGED <<current, cpu, phase, left>>

\* spawn -> push_task: the push itself is under cli/sti.
Spawn(p, m) ==
    /\ running = Main /\ mpc = "idle" /\ pc[p] = "free"
    /\ tasks' = [i \in 0 .. count |-> IF i = count THEN p ELSE tasks[i]]
    /\ count' = count + 1
    /\ pid' = count
    /\ Fresh(p, "entry")
    /\ mode' = m /\ mpc' = "spawned"
    /\ child' = p
    /\ UNCHANGED <<current, cpu, phase, left>>

\* send_from_kernel, a refusal is selftest_fail -> halt_forever
SendFromKernel(m) ==
    /\ running = Main /\ mpc = "spawned" /\ mode = "ipc"
    /\ Deliver(pid, m)
    /\ mpc' = IF Exited(tasks[pid]) THEN "halted" ELSE "sent"
    /\ UNCHANGED <<table, cpu, phase, pc, exit, fsBase, mode, pid, left, hist>>

\* wait: deadline = ticks() + timeout_ticks
WaitBegin ==
    /\ running = Main
    /\ IF mode = "ipc" THEN mpc = "sent" ELSE mpc = "spawned"
    /\ mpc' = "waiting"
    /\ left' = WaitTicks
    /\ UNCHANGED <<table, cpu, phase, procs, mode, pid, hist>>

\* wait: process_exit_status(pid), read before the clock is
WaitPoll ==
    /\ running = Main /\ mpc = "waiting"
    /\ mpc' = IF ~Exited(tasks[pid]) THEN "polled"
              ELSE IF mode = "ipc" /\ exit[tasks[pid]] # "normal" THEN "halted"
              ELSE "reap"
    /\ UNCHANGED <<table, cpu, phase, procs, mode, pid, left, hist>>

\* Mutant: the deadline is recomputed on every turn of the loop.
WaitDeadline_Rearmed ==
    /\ running = Main /\ mpc = "polled"
    /\ mpc' = IF WaitTicks > 0 THEN "waiting" ELSE "idle"
    /\ left' = WaitTicks
    /\ UNCHANGED <<table, cpu, phase, procs, mode, pid, hist>>

\* wait: ticks() >= deadline gives up, otherwise hlt and poll again
WaitDeadline ==
    /\ running = Main /\ mpc = "polled"
    /\ mpc' = CASE left > 0      -> "waiting"
                [] left = 0 /\ mode = "run"  -> "idle"
                [] left = 0 /\ mode = "test" -> "reap"
                [] left = 0 /\ mode = "ipc"  -> "halted"
    /\ UNCHANGED <<table, cpu, phase, procs, mode, pid, left, hist>>

\* reap -> remove_process, up to its early returns.  Interrupts stay on.
RemoveCheck ==
    /\ running = Main /\ mpc = "reap"
    /\ mpc' = IF pid \in Idx /\ current # pid THEN "removing" ELSE "idle"
    /\ UNCHANGED <<table, cpu, phase, procs, mode, pid, left, hist>>

\* Mutant: the entry is overwritten but the table keeps its length.
SwapRemove_NoTruncate(i) == [tasks EXCEPT ![i] = tasks[count - 1]]

\* Mutant: the hole is one entry too low.
SwapRemove_OffByOne(i) ==
    [j \in 0 .. count - 2 |-> IF j = i - 1 THEN tasks[count - 1] ELSE tasks[j]]

\* Vec::swap_remove(pid): the last entry moves into the hole.
SwapRemove(i) ==
    [j \in 0 .. count - 2 |-> IF j = i THEN tasks[count - 1] ELSE tasks[j]]

\* remove_process from swap_remove on, then free_process
RemoveCommit ==
    /\ running = Main /\ mpc = "removing"
    /\ tasks' = SwapRemove(pid)
    /\ count' = count - 1
    /\ current' = CASE current = count - 1 -> pid
                    [] current # count - 1 /\ pid < current -> current - 1
                    [] OTHER -> current
    /\ Fresh(tasks[pid], "free")
    /\ mpc' = "idle"
    /\ UNCHANGED <<cpu, phase, mode, pid, left, child>>

\* The main task's own code between spawn and the end of reap.
MainCode == WaitBegin \/ WaitPoll \/ WaitDeadline \/ RemoveCheck \/ RemoveCommit

MainStep ==
    \/ \E p \in Procs, m \in Modes : Spawn(p, m)
    \/ \E m \in Msgs : SendFromKernel(m)
    \/ MainCode

Next == Timer \/ MainStep \/ \E p \in Procs : ProcStep(p)

(* The PIT never stops, so Timer is weakly fair.  A task that is chosen has *)
(* the CPU for a whole quantum, and wait and reap block on nothing but the  *)
(* next interrupt: if the main task is chosen again and again while it is   *)
(* in that code, the code advances (strong fairness).  Nothing obliges the  *)
(* shell to spawn, or a program to make a syscall or to exit.               *)
Fairness == WF_vars(Timer) /\ SF_vars(MainCode)

Spec == Init /\ [][Next]_vars
FairSpec == Spec /\ Fairness

------------------------------------------------------------------------------
(* Properties.                                                              *)

ProcPcs == {"free", "entry", "ring3", "exiting", "parked"}
MainPcs == {"idle", "spawned", "sent", "waiting", "polled", "reap",
            "removing", "halted"}

\* Every variable has the type of the source's field; the table is indexed
\* by 0..len-1.
TypeOK ==
    /\ count \in Nat \ {0} /\ tasks \in [Idx -> Tasks] /\ current \in Idx
    /\ running \in Tasks /\ fsMsr \in FsBases
    /\ cr3 \in Procs \cup {KernelSpace} /\ rsp0 \in Tasks
    /\ phase \in 0 .. Quantum - 1
    /\ pc \in [Procs -> ProcPcs]
    /\ exit \in [Procs -> ExitInfo \cup {NoInfo}]
    /\ inbox \in [Procs -> Msgs \cup {NoMsg}]
    /\ fsBase \in [Procs -> FsBases]
    /\ mpc \in MainPcs /\ mode \in Modes /\ pid \in Nat
    /\ left \in 0 .. WaitTicks
    /\ fsWant \in [Procs -> FsBases]
    /\ cause \in [Procs -> ExitInfo \cup {NoInfo}]
    /\ child \in Tasks

\* CURRENT is the index of the task whose code the CPU executes, across
\* every switch, spawn and swap_remove: every syscall and fault handler
\* charges its effect to tasks[CURRENT].
CurrentIsRunning == tasks[current] = running

\* The CPU translates through the running task's own PML4 and interrupts
\* land on its own kernel stack, and that task is still in the table: no
\* task runs in an address space that reap has given back.
CpuMatchesTask ==
    /\ cr3 = SpaceOf(running)
    /\ rsp0 = running
    /\ running \in Procs => pc[running] # "free"

\* Thread-local storage is private: whatever the interleaving, a process in
\* ring 3 sees the FS base it last installed itself (0 if none), and the
\* saved copy of a process that is switched out is that base.
TlsPrivate ==
    \A p \in Procs :
        pc[p] = "ring3" =>
            IF running = p THEN fsMsr = fsWant[p] ELSE fsBase[p] = fsWant[p]

\* The exit record wait() reports is the first thing that ended the process:
\* the exit stub that runs after a kill does not turn it into a normal exit,
\* and no process ends on another one's account.
FirstCauseKept ==
    \A p \in Procs : pc[p] # "free" /\ exit[p] # NoInfo => exit[p] = cause[p]

\* From spawn to reap, the pid the shell holds names the process it spawned,
\* although pids are table indices and removal reorders the table.
PidIsChild ==
    mpc \notin {"idle", "halted"} => pid \in Idx /\ tasks[pid] = child

\* A process keeps its pid from the step it is spawned until it is reaped:
\* swap_remove never renumbers a live process.
PidStable ==
    [][\A i \in Idx :
          tasks[i] \in Procs /\ pc'[tasks[i]] # "free" =>
              i \in 0 .. count' - 1 /\ tasks'[i] = tasks[i]]_vars

\* The scheduler never switches to a process that has exited (its code is
\* parked and its memory may be freed under it).
NeverResumeExited ==
    [][running' # running =>
          ~(running' \in Procs /\ exit'[running'] # NoInfo)]_vars

\* No starvation: a task in the table gets the CPU again, unless it exits or
\* is reaped first.
EveryTaskRuns ==
    \A t \in Tasks :
        InTable(t) ~> (running = t \/ Exited(t) \/ ~InTable(t))

\* wait() returns: with the exit record or at its deadline, even though the
\* waiter shares the CPU with the process it waits for.
WaitReturns == (mpc \in {"waiting", "polled"}) ~> (mpc \notin {"waiting", "polled"})
==============================================================================
