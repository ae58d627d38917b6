----------------------------- MODULE SyscallEntry -----------------------------
(***************************************************************************)
(* The ring-3 boundary on one CPU: syscall_entry and its exit path on the  *)
(* shared SYSCALL_STACK, enter_usermode, traps, the interrupt flag, and a  *)
(* spin lock (keyboard::QUEUE) that the main task, the IRQ1 handler and    *)
(* sys_read all take.                                                      *)
(*                                                                         *)
(* Source: src/syscall.rs, src/sync.rs, the entry points of                *)
(* src/interrupts.rs and src/keyboard.rs, exit_self and redirect_to_exit   *)
(* of src/process.rs.  Which task the timer picks is left open here (see   *)
(* Scheduler): any task that has not parked.                               *)
(*                                                                         *)
(* Stack pointers are abstracted to whose stack they point into; memory of *)
(* SYSCALL_STACK to whose frame was pushed there last.                     *)
(***************************************************************************)
EXTENDS Naturals, FiniteSets

CONSTANTS
    Procs,      \* ring-3 processes
    Main        \* the main task: polls the keyboard in kernel mode

ASSUME TasksAssumption == Main \notin Procs /\ "nobody" \notin Procs \cup {Main}

Nobody == "nobody"
Tasks  == Procs \cup {Main}

VARIABLES
    running,    \* the task on the CPU
    ifl,        \* RFLAGS.IF
    at,         \* where each task's code is
    savedRsp,   \* SAVED_USER_RSP: whose user stack it points into
    frame,      \* SYSCALL_STACK: whose frame lies at its top
    rsp,        \* the stack each process is on when outside a syscall
    returnRsp,  \* ring3_kernel_rsp of each task
    locked,     \* QUEUE.locked
    irq         \* the IRQ1 handler: "idle" or "spin" (inside QUEUE.lock())

vars == <<running, ifl, at, savedRsp, frame, rsp, returnRsp, locked, irq>>

\* On SYSCALL_STACK, IF clear (dispatch, spin, critical) or set (unwind).
InDispatch == {"dispatch", "spin", "critical", "return"}
OnSyscallStack == InDispatch \cup {"unwind"}

\* A process has resumed on SYSCALL_STACK over another's frame: the registers
\* and the return address it pops are arbitrary, so nothing is said of what
\* follows, and behaviours end here.  It is reached, although syscall.rs:14
\* says that one syscall's handling never overlaps another; the properties
\* below are about the machine up to that point.
Wild == \E p \in Procs : at[p] \in OnSyscallStack /\ running = p /\ frame # p

\* Code of task t runs: it has the CPU, no handler is on top of it.
Runs(t) == running = t /\ irq = "idle" /\ ~Wild

Init ==
    /\ running = Main /\ ifl = TRUE
    /\ at = [t \in Tasks |-> IF t = Main THEN "idle" ELSE "kernel"]
    /\ savedRsp = Nobody /\ frame = Nobody
    /\ rsp = [p \in Procs |-> p]
    /\ returnRsp = [p \in Procs |-> Nobody]
    /\ locked = FALSE
    /\ irq = "idle"

Goto(t, where) == at' = [at EXCEPT ![t] = where]

\* Mutant: the old value of the swap is ignored.
Lock_Ignored(won, lost, t) ==
    /\ Goto(t, won)
    /\ locked' = TRUE

\* SpinLock::lock: one swap; the loser keeps swapping.
Lock(won, lost, t) ==
    /\ Goto(t, IF locked THEN lost ELSE won)
    /\ locked' = TRUE

\* Mutant: one global resume point.
EnterUsermode_GlobalSlot(p) ==
    /\ Runs(p) /\ at[p] = "kernel"
    /\ Goto(p, "ring3")
    /\ returnRsp' = [q \in Procs |-> p]
    /\ UNCHANGED <<running, ifl, savedRsp, frame, rsp, locked, irq>>

\* run_ring3 / enter_usermode: the resume point is stored per task, then
\* iretq with IF set.
EnterUsermode(p) ==
    /\ Runs(p) /\ at[p] = "kernel"
    /\ Goto(p, "ring3")
    /\ returnRsp' = [returnRsp EXCEPT ![running] = p]
    /\ UNCHANGED <<running, ifl, savedRsp, frame, rsp, locked, irq>>

\* Mutant: SFMASK does not cover IF.
SyscallEnter_KeepsIf(p) ==
    /\ Runs(p) /\ at[p] = "ring3"
    /\ savedRsp' = rsp[p]
    /\ frame' = p
    /\ Goto(p, "dispatch")
    /\ UNCHANGED <<running, ifl, rsp, returnRsp, locked, irq>>

\* SYSCALL: SFMASK clears IF, the user rsp goes to the global slot and the
\* handler's frame to the top of SYSCALL_STACK.
SyscallEnter(p) ==
    /\ Runs(p) /\ at[p] = "ring3"
    /\ ifl' = FALSE
    /\ savedRsp' = rsp[p]
    /\ frame' = p
    /\ Goto(p, "dispatch")
    /\ UNCHANGED <<running, rsp, returnRsp, locked, irq>>

\* syscall_dispatch of a call that takes no lock
Dispatch(p) ==
    /\ Runs(p) /\ at[p] = "dispatch"
    /\ Goto(p, "return")
    /\ UNCHANGED <<running, ifl, savedRsp, frame, rsp, returnRsp, locked, irq>>

\* sys_read -> keyboard::next_event -> QUEUE.lock(), and its spinning
SysReadLock(p) ==
    /\ Runs(p) /\ at[p] \in {"dispatch", "spin"}
    /\ Lock("critical", "spin", p)
    /\ UNCHANGED <<running, ifl, savedRsp, frame, rsp, returnRsp, irq>>

\* The guard is dropped at the end of next_event.
SysReadUnlock(p) ==
    /\ Runs(p) /\ at[p] = "critical"
    /\ locked' = FALSE
    /\ Goto(p, "return")
    /\ UNCHANGED <<running, ifl, savedRsp, frame, rsp, returnRsp, irq>>

\* mov rsp, [SAVED_USER_RSP]; sysretq restores the caller's RFLAGS
Sysret(p) ==
    /\ Runs(p) /\ at[p] = "return"
    /\ rsp' = [rsp EXCEPT ![p] = savedRsp]
    /\ ifl' = TRUE
    /\ Goto(p, "ring3")
    /\ UNCHANGED <<running, savedRsp, frame, returnRsp, locked, irq>>

\* Mutant: the exit path forgets sti.
ExitSti_NoSti(p) ==
    /\ Runs(p) /\ at[p] = "dispatch"
    /\ Goto(p, "unwind")
    /\ UNCHANGED <<running, ifl, savedRsp, frame, rsp, returnRsp, locked, irq>>

\* .Lsyscall_exit: sti, still on SYSCALL_STACK
ExitSti(p) ==
    /\ Runs(p) /\ at[p] = "dispatch"
    /\ ifl' = TRUE
    /\ Goto(p, "unwind")
    /\ UNCHANGED <<running, savedRsp, frame, rsp, returnRsp, locked, irq>>

\* ring3_load_return_rsp; mov rsp, rax; ret into process_entry_trampoline
Unwind(p) ==
    /\ Runs(p) /\ at[p] = "unwind"
    /\ rsp' = [rsp EXCEPT ![p] = returnRsp[running]]
    /\ Goto(p, "exit_self")
    /\ UNCHANGED <<running, ifl, savedRsp, frame, returnRsp, locked, irq>>

\* A trap from ring 3: the gate runs on the task's own rsp0 stack with IF
\* clear, redirect_to_exit sends the iretq to exit_self with IF set.
TrapKill(p) ==
    /\ Runs(p) /\ at[p] = "ring3"
    /\ Goto(p, "exit_self")
    /\ UNCHANGED <<running, ifl, savedRsp, frame, rsp, returnRsp, locked, irq>>

\* exit_self: marked exited, hlt for ever; the scheduler skips it.
ExitSelf(p) ==
    /\ Runs(p) /\ at[p] = "exit_self"
    /\ Goto(p, "parked")
    /\ UNCHANGED <<running, ifl, savedRsp, frame, rsp, returnRsp, locked, irq>>

\* The main task in keyboard::next_event, with interrupts on
PollLock ==
    /\ Runs(Main) /\ at[Main] \in {"idle", "spin"}
    /\ Lock("critical", "spin", Main)
    /\ UNCHANGED <<running, ifl, savedRsp, frame, rsp, returnRsp, irq>>

PollUnlock ==
    /\ Runs(Main) /\ at[Main] = "critical"
    /\ locked' = FALSE
    /\ Goto(Main, "idle")
    /\ UNCHANGED <<running, ifl, savedRsp, frame, rsp, returnRsp, irq>>

\* IRQ1 -> keyboard::irq: takes QUEUE, or spins on it with IF clear for as
\* long as the task it interrupted holds it, which is for ever.
Irq1 ==
    /\ ifl /\ irq = "idle" /\ ~Wild
    /\ irq' = IF locked THEN "spin" ELSE "idle"
    /\ ifl' = ~locked
    /\ UNCHANGED <<running, at, savedRsp, frame, rsp, returnRsp, locked>>

\* IRQ0 with a switch: the incoming context was itself switched out with IF
\* set, or starts in task_trampoline, which sets it.
Timer ==
    /\ ifl /\ irq = "idle" /\ ~Wild
    /\ \E t \in Tasks \ {running} : at[t] # "parked" /\ running' = t
    /\ UNCHANGED <<ifl, at, savedRsp, frame, rsp, returnRsp, locked, irq>>

ProcStep(p) ==
    \/ EnterUsermode(p) \/ SyscallEnter(p) \/ Dispatch(p) \/ SysReadLock(p)
    \/ SysReadUnlock(p) \/ Sysret(p) \/ ExitSti(p) \/ Unwind(p)
    \/ TrapKill(p) \/ ExitSelf(p)

Next == Timer \/ Irq1 \/ PollLock \/ PollUnlock \/ \E p \in Procs : ProcStep(p)

Spec == Init /\ [][Next]_vars

------------------------------------------------------------------------------
(* Properties.                                                              *)

\* SYSRET puts a process back on its own user stack, and the exit path puts
\* it on its own kernel stack, although SAVED_USER_RSP is one global slot
\* and other processes enter and leave ring 3 in between (even while one is
\* preempted on its way out, as long as it has not resumed over their frame).
OwnStack == \A p \in Procs : rsp[p] = p

\* A syscall that returns is never preempted: from SYSCALL to SYSRET the
\* same process has the CPU and interrupts are off.
SyscallUninterrupted ==
    [][at[running] \in InDispatch /\ running \in Procs =>
          running' = running /\ (ifl' => at'[running] \in {"ring3", "unwind"})]_vars

\* QUEUE is held by at most one task, and exactly when its lock bit is set.
QueueExclusive ==
    /\ Cardinality({t \in Tasks : at[t] = "critical"}) <= 1
    /\ locked <=> \E t \in Tasks : at[t] = "critical"

\* Interrupts are off only inside a syscall or a spinning handler: no path
\* back to ring 3, to the trampoline or to the main task leaves IF clear
\* (the timer would never preempt that task again).
InterruptsReturn ==
    ~ifl => irq = "spin" \/ at[running] \in InDispatch
==============================================================================
