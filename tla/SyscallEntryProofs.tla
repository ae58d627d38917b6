-------------------------- MODULE SyscallEntryProofs --------------------------
(***************************************************************************)
(* Proofs about SyscallEntry, for any number of processes.                 *)
(*                                                                         *)
(* The inductive invariant says what the shared stack and the global slot  *)
(* rest on: a process between SYSCALL and SYSRET has the CPU, interrupts   *)
(* are off, and the slot and the frame are its own.  Like the properties,  *)
(* it is about the machine up to Wild.                                     *)
(***************************************************************************)
EXTENDS SyscallEntry, FiniteSetTheorems, TLAPS

Where == {"kernel", "ring3", "exit_self", "parked", "idle"} \cup OnSyscallStack
Owners == Tasks \cup {Nobody}

TypeOK ==
    /\ running \in Tasks /\ ifl \in BOOLEAN /\ at \in [Tasks -> Where]
    /\ savedRsp \in Owners /\ frame \in Owners
    /\ rsp \in [Procs -> Owners] /\ returnRsp \in [Procs -> Owners]
    /\ locked \in BOOLEAN /\ irq \in {"idle", "spin"}

\* One process at most is inside a syscall that returns, and the CPU's state
\* is about it.
DispatchOK ==
    \A p \in Procs : at[p] \in InDispatch =>
        running = p /\ ifl = FALSE /\ irq = "idle" /\ savedRsp = p /\ frame = p

\* The resume point of a process that has entered ring 3 is its own.
ReturnOK ==
    \A p \in Procs : at[p] \in {"ring3"} \cup OnSyscallStack => returnRsp[p] = p

IfOK ==
    /\ ifl = FALSE => irq = "spin" \/ (running \in Procs /\ at[running] \in InDispatch)
    /\ ifl = TRUE => irq = "idle"

LockOK ==
    /\ \A t, u \in Tasks : at[t] = "critical" /\ at[u] = "critical" => t = u
    /\ locked = TRUE => \E t \in Tasks : at[t] = "critical"
    /\ \A t \in Tasks : at[t] = "critical" => locked = TRUE

IndInv == TypeOK /\ OwnStack /\ DispatchOK /\ ReturnOK /\ IfOK /\ LockOK

USE DEF InDispatch, OnSyscallStack, Where, Owners, Tasks, Nobody

\* At boot no process has entered ring 3.
LEMMA InitInv == Init => IndInv
  BY TasksAssumption DEF Init, IndInv, TypeOK, OwnStack, DispatchOK, ReturnOK, IfOK, LockOK

\* A task that runs while no syscall is under way runs with interrupts on,
\* and a process in a syscall is the one that runs.
LEMMA RunsAlone ==
    ASSUME IndInv, NEW t \in Tasks, Runs(t)
    PROVE  /\ irq = "idle" /\ running = t
           /\ \A p \in Procs \ {t} : at[p] \notin InDispatch
           /\ t = Main => ifl = TRUE
  BY TasksAssumption DEF IndInv, TypeOK, DispatchOK, IfOK, Runs

\* The steps of a process preserve the invariant.
LEMMA ProcInv ==
    ASSUME IndInv, NEW p \in Procs, ProcStep(p)
    PROVE  IndInv'
<1> USE TasksAssumption DEF Goto
<1>0. /\ p \in Tasks /\ Runs(p) /\ irq = "idle" /\ running = p
      /\ \A q \in Procs \ {p} : at[q] \notin InDispatch
  <2>1. p \in Tasks /\ Runs(p)
    BY DEF ProcStep, EnterUsermode, SyscallEnter, Dispatch, SysReadLock, SysReadUnlock,
           Sysret, ExitSti, Unwind, TrapKill, ExitSelf
  <2> QED
    BY <2>1, RunsAlone
<1>1. CASE EnterUsermode(p)
  <2>1. TypeOK' /\ OwnStack' /\ ReturnOK'
    BY <1>0, <1>1 DEF EnterUsermode, IndInv, TypeOK, OwnStack, DispatchOK, ReturnOK
  <2>2. DispatchOK'
    BY <1>0, <1>1 DEF EnterUsermode, IndInv, TypeOK, OwnStack, DispatchOK
  <2>3. IfOK'
    BY <1>0, <1>1 DEF EnterUsermode, IndInv, TypeOK, IfOK, DispatchOK
  <2>4. LockOK'
    BY <1>0, <1>1 DEF EnterUsermode, IndInv, TypeOK, LockOK
  <2> QED
    BY <2>1, <2>2, <2>3, <2>4 DEF IndInv
<1>2. CASE SyscallEnter(p)
  <2>1. TypeOK' /\ OwnStack' /\ ReturnOK'
    BY <1>0, <1>2 DEF SyscallEnter, IndInv, TypeOK, OwnStack, DispatchOK, ReturnOK
  <2>2. DispatchOK'
    BY <1>0, <1>2 DEF SyscallEnter, IndInv, TypeOK, OwnStack, DispatchOK
  <2>3. IfOK'
    BY <1>0, <1>2 DEF SyscallEnter, IndInv, TypeOK, IfOK, DispatchOK
  <2>4. LockOK'
    BY <1>0, <1>2 DEF SyscallEnter, IndInv, TypeOK, LockOK
  <2> QED
    BY <2>1, <2>2, <2>3, <2>4 DEF IndInv
<1>3. CASE Dispatch(p)
  <2>1. TypeOK' /\ OwnStack' /\ ReturnOK'
    BY <1>0, <1>3 DEF Dispatch, IndInv, TypeOK, OwnStack, DispatchOK, ReturnOK
  <2>2. DispatchOK'
    BY <1>0, <1>3 DEF Dispatch, IndInv, TypeOK, OwnStack, DispatchOK
  <2>3. IfOK'
    BY <1>0, <1>3 DEF Dispatch, IndInv, TypeOK, IfOK, DispatchOK
  <2>4. LockOK'
    BY <1>0, <1>3 DEF Dispatch, IndInv, TypeOK, LockOK
  <2> QED
    BY <2>1, <2>2, <2>3, <2>4 DEF IndInv
<1>4. CASE SysReadLock(p)
  <2>1. TypeOK' /\ OwnStack' /\ ReturnOK'
    BY <1>0, <1>4 DEF SysReadLock, Lock, IndInv, TypeOK, OwnStack, DispatchOK, ReturnOK
  <2>2. DispatchOK'
    BY <1>0, <1>4 DEF SysReadLock, Lock, IndInv, TypeOK, OwnStack, DispatchOK
  <2>3. IfOK'
    BY <1>0, <1>4 DEF SysReadLock, Lock, IndInv, TypeOK, IfOK, DispatchOK
  <2>4. LockOK'
    BY <1>0, <1>4 DEF SysReadLock, Lock, IndInv, TypeOK, LockOK
  <2> QED
    BY <2>1, <2>2, <2>3, <2>4 DEF IndInv
<1>5. CASE SysReadUnlock(p)
  <2>1. TypeOK' /\ OwnStack' /\ ReturnOK'
    BY <1>0, <1>5 DEF SysReadUnlock, IndInv, TypeOK, OwnStack, DispatchOK, ReturnOK
  <2>2. DispatchOK'
    BY <1>0, <1>5 DEF SysReadUnlock, IndInv, TypeOK, OwnStack, DispatchOK
  <2>3. IfOK'
    BY <1>0, <1>5 DEF SysReadUnlock, IndInv, TypeOK, IfOK, DispatchOK
  <2>4. LockOK'
    BY <1>0, <1>5 DEF SysReadUnlock, IndInv, TypeOK, LockOK
  <2> QED
    BY <2>1, <2>2, <2>3, <2>4 DEF IndInv
<1>6. CASE Sysret(p)
  <2>1. TypeOK' /\ OwnStack' /\ ReturnOK'
    BY <1>0, <1>6 DEF Sysret, IndInv, TypeOK, OwnStack, DispatchOK, ReturnOK
  <2>2. DispatchOK'
    BY <1>0, <1>6 DEF Sysret, IndInv, TypeOK, OwnStack, DispatchOK
  <2>3. IfOK'
    BY <1>0, <1>6 DEF Sysret, IndInv, TypeOK, IfOK, DispatchOK
  <2>4. LockOK'
    BY <1>0, <1>6 DEF Sysret, IndInv, TypeOK, LockOK
  <2> QED
    BY <2>1, <2>2, <2>3, <2>4 DEF IndInv
<1>7. CASE ExitSti(p)
  <2>1. TypeOK' /\ OwnStack' /\ ReturnOK'
    BY <1>0, <1>7 DEF ExitSti, IndInv, TypeOK, OwnStack, DispatchOK, ReturnOK
  <2>2. DispatchOK'
    BY <1>0, <1>7 DEF ExitSti, IndInv, TypeOK, OwnStack, DispatchOK
  <2>3. IfOK'
    BY <1>0, <1>7 DEF ExitSti, IndInv, TypeOK, IfOK, DispatchOK
  <2>4. LockOK'
    BY <1>0, <1>7 DEF ExitSti, IndInv, TypeOK, LockOK
  <2> QED
    BY <2>1, <2>2, <2>3, <2>4 DEF IndInv
<1>8. CASE Unwind(p)
  <2>1. TypeOK' /\ OwnStack' /\ ReturnOK'
    BY <1>0, <1>8 DEF Unwind, IndInv, TypeOK, OwnStack, DispatchOK, ReturnOK
  <2>2. DispatchOK'
    BY <1>0, <1>8 DEF Unwind, IndInv, TypeOK, OwnStack, DispatchOK
  <2>3. IfOK'
    BY <1>0, <1>8 DEF Unwind, IndInv, TypeOK, IfOK, DispatchOK
  <2>4. LockOK'
    BY <1>0, <1>8 DEF Unwind, IndInv, TypeOK, LockOK
  <2> QED
    BY <2>1, <2>2, <2>3, <2>4 DEF IndInv
<1>9. CASE TrapKill(p)
  <2>1. TypeOK' /\ OwnStack' /\ ReturnOK'
    BY <1>0, <1>9 DEF TrapKill, IndInv, TypeOK, OwnStack, DispatchOK, ReturnOK
  <2>2. DispatchOK'
    BY <1>0, <1>9 DEF TrapKill, IndInv, TypeOK, OwnStack, DispatchOK
  <2>3. IfOK'
    BY <1>0, <1>9 DEF TrapKill, IndInv, TypeOK, IfOK, DispatchOK
  <2>4. LockOK'
    BY <1>0, <1>9 DEF TrapKill, IndInv, TypeOK, LockOK
  <2> QED
    BY <2>1, <2>2, <2>3, <2>4 DEF IndInv
<1>10. CASE ExitSelf(p)
  <2>1. TypeOK' /\ OwnStack' /\ ReturnOK'
    BY <1>0, <1>10 DEF ExitSelf, IndInv, TypeOK, OwnStack, DispatchOK, ReturnOK
  <2>2. DispatchOK'
    BY <1>0, <1>10 DEF ExitSelf, IndInv, TypeOK, OwnStack, DispatchOK
  <2>3. IfOK'
    BY <1>0, <1>10 DEF ExitSelf, IndInv, TypeOK, IfOK, DispatchOK
  <2>4. LockOK'
    BY <1>0, <1>10 DEF ExitSelf, IndInv, TypeOK, LockOK
  <2> QED
    BY <2>1, <2>2, <2>3, <2>4 DEF IndInv
<1> QED
  BY <1>1, <1>2, <1>3, <1>4, <1>5, <1>6, <1>7, <1>8, <1>9, <1>10 DEF ProcStep

\* So do the main task's polling and the two interrupts.
LEMMA KernelInv ==
    ASSUME IndInv, PollLock \/ PollUnlock \/ Irq1 \/ Timer
    PROVE  IndInv'
<1> USE TasksAssumption DEF Goto
<1>1. CASE PollLock \/ PollUnlock
  <2>0. /\ Main \in Tasks /\ irq = "idle" /\ running = Main /\ ifl = TRUE
        /\ \A q \in Procs : at[q] \notin InDispatch
    BY <1>1, RunsAlone DEF PollLock, PollUnlock
  <2>1. CASE PollLock
    <3>1. TypeOK' /\ OwnStack' /\ DispatchOK' /\ ReturnOK' /\ IfOK'
      BY <2>0, <2>1 DEF PollLock, Lock, IndInv, TypeOK, OwnStack, DispatchOK, ReturnOK, IfOK
    <3>2. LockOK'
      BY <2>0, <2>1 DEF PollLock, Lock, IndInv, TypeOK, LockOK
    <3> QED
      BY <3>1, <3>2 DEF IndInv
  <2>2. CASE PollUnlock
    <3>1. TypeOK' /\ OwnStack' /\ DispatchOK' /\ ReturnOK' /\ IfOK'
      BY <2>0, <2>2 DEF PollUnlock, IndInv, TypeOK, OwnStack, DispatchOK, ReturnOK, IfOK
    <3>2. LockOK'
      BY <2>0, <2>2 DEF PollUnlock, IndInv, TypeOK, LockOK
    <3> QED
      BY <3>1, <3>2 DEF IndInv
  <2> QED
    BY <1>1, <2>1, <2>2
<1>2. CASE Irq1 \/ Timer
  <2>0. ifl = TRUE /\ \A q \in Procs : at[q] \notin InDispatch
    BY <1>2 DEF Irq1, Timer, IndInv, TypeOK, DispatchOK
  <2>1. CASE Irq1
    <3>1. TypeOK' /\ OwnStack' /\ DispatchOK' /\ ReturnOK' /\ LockOK'
      BY <2>0, <2>1 DEF Irq1, IndInv, TypeOK, OwnStack, DispatchOK, ReturnOK, LockOK
    <3>2. IfOK'
      BY <2>0, <2>1 DEF Irq1, IndInv, TypeOK, IfOK
    <3> QED
      BY <3>1, <3>2 DEF IndInv
  <2>2. CASE Timer
    BY <2>0, <2>2 DEF Timer, IndInv, TypeOK, OwnStack, DispatchOK, ReturnOK, IfOK, LockOK
  <2> QED
    BY <1>2, <2>1, <2>2
<1> QED
  BY <1>1, <1>2

\* Every step preserves the invariant.
LEMMA StepInv == IndInv /\ [Next]_vars => IndInv'
<1> SUFFICES ASSUME IndInv, [Next]_vars PROVE IndInv'
  OBVIOUS
<1>1. CASE \E p \in Procs : ProcStep(p)
  BY <1>1, ProcInv
<1>2. CASE PollLock \/ PollUnlock \/ Irq1 \/ Timer
  BY <1>2, KernelInv
<1>3. CASE UNCHANGED vars
  BY <1>3 DEF vars, IndInv, TypeOK, OwnStack, DispatchOK, ReturnOK, IfOK, LockOK
<1> QED
  BY <1>1, <1>2, <1>3 DEF Next

\* The invariant holds of every behaviour.
THEOREM Invariance == Spec => []IndInv
  BY InitInv, StepInv, PTL DEF Spec

\* SYSRET and the exit path put a process back on its own stack, although
\* SAVED_USER_RSP and SYSCALL_STACK are shared, as long as none has resumed
\* over another's frame (Wild, where behaviours end).
THEOREM OwnStackThm == Spec => []OwnStack
<1>1. IndInv => OwnStack
  BY DEF IndInv
<1> QED
  BY <1>1, Invariance, PTL

\* No path leaves a task outside a syscall with interrupts off.
THEOREM InterruptsReturnThm == Spec => []InterruptsReturn
<1>1. IndInv => InterruptsReturn
  BY DEF IndInv, TypeOK, IfOK, InterruptsReturn
<1> QED
  BY <1>1, Invariance, PTL

\* The keyboard queue's lock bit is set exactly while one task is in the
\* critical section (SpinLock::lock and the drop of its guard).
THEOREM QueueExclusiveThm == Spec => []QueueExclusive
<1>1. IndInv => QueueExclusive
  <2> SUFFICES ASSUME IndInv PROVE QueueExclusive
    OBVIOUS
  <2> DEFINE inside == {t \in Tasks : at[t] = "critical"}
  <2>1. inside = {} \/ \E t \in Tasks : inside = {t}
    BY DEF IndInv, LockOK
  <2>2. Cardinality(inside) <= 1
    <3>1. CASE inside = {}
      BY <3>1, FS_EmptySet
    <3>2. ASSUME NEW t \in Tasks, inside = {t} PROVE Cardinality(inside) = 1
      <4> HIDE DEF inside
      <4> QED
        BY <3>2, FS_Singleton
    <3> QED
      BY <2>1, <3>1, <3>2
  <2>3. locked <=> \E t \in Tasks : at[t] = "critical"
    BY DEF IndInv, TypeOK, LockOK
  <2> QED
    BY <2>2, <2>3 DEF QueueExclusive
<1> QED
  BY <1>1, Invariance, PTL

\* From SYSCALL to SYSRET, or to the sti of the exit path, the process keeps
\* the CPU and interrupts stay off.
THEOREM SyscallUninterruptedThm == Spec => SyscallUninterrupted
<1> DEFINE Keeps == at[running] \in InDispatch /\ running \in Procs =>
                      running' = running /\ (ifl' => at'[running] \in {"ring3", "unwind"})
<1>1. IndInv /\ [Next]_vars => Keeps
  <2> SUFFICES ASSUME IndInv, [Next]_vars, at[running] \in InDispatch, running \in Procs
               PROVE  running' = running /\ (ifl' => at'[running] \in {"ring3", "unwind"})
    OBVIOUS
  <2> USE TasksAssumption
  <2>0. ifl = FALSE /\ irq = "idle" /\ running \in Tasks /\ at \in [Tasks -> Where]
    BY DEF IndInv, TypeOK, DispatchOK
  <2>1. CASE \E p \in Procs : ProcStep(p)
    <3>1. PICK p \in Procs : ProcStep(p)
      BY <2>1
    <3>2. p = running
      BY <3>1 DEF ProcStep, EnterUsermode, SyscallEnter, Dispatch, SysReadLock, SysReadUnlock,
                  Sysret, ExitSti, Unwind, TrapKill, ExitSelf, Runs
    <3> QED
      BY <2>0, <3>1, <3>2 DEF ProcStep, EnterUsermode, SyscallEnter, Dispatch, SysReadLock,
            SysReadUnlock, Sysret, ExitSti, Unwind, TrapKill, ExitSelf, Goto, Lock
  <2>2. CASE PollLock \/ PollUnlock \/ Irq1 \/ Timer
    BY <2>0, <2>2 DEF PollLock, PollUnlock, Irq1, Timer, Runs
  <2>3. CASE UNCHANGED vars
    BY <2>0, <2>3 DEF vars
  <2> QED
    BY <2>1, <2>2, <2>3 DEF Next
<1> QED
  BY <1>1, Invariance, PTL DEF Spec, SyscallUninterrupted
=============================================================================
