------------------------------- MODULE Kernel -------------------------------
(***************************************************************************)
(* The task subsystem as a whole: the scheduler loops and waits of the     *)
(* task cores, the life of a task from create_process_from_elf through     *)
(* request_kill and exit_current to the release of its slot, and core 0,   *)
(* which creates and kills tasks and delivers input.                       *)
(*                                                                         *)
(* The system stops at the first fault: a failed debug_assert panics, and  *)
(* after the other faults two cores own one slot.                          *)
(***************************************************************************)
EXTENDS Wait

CONSTANT KernelOps   \* what core 0 does

ASSUME KernelAssumption == KernelOps \subseteq {"create", "kill", "input", "cleanup"}

VARIABLES
    new_pid, processes,   \* the process manager: next pid, state per pid
    requested             \* history: pids request_kill was called for

procVars == <<new_pid, processes, requested>>
vars == <<taskVars, schedVars, waitVars, procVars>>

TypeOK ==
    /\ TaskSlotsTypeOK
    /\ SchedulerTypeOK
    /\ WaitTypeOK
    /\ new_pid \in 1 .. MaxPid + 1
    /\ processes \in [Pids -> {"absent", "Ready", "Terminated"}]
    /\ requested \subseteq Pids

Init ==
    /\ TaskSlotsInit
    /\ SchedulerInit
    /\ WaitInit
    /\ new_pid = 1
    /\ processes = [p \in Pids |-> "absent"]
    /\ requested = {}

-----------------------------------------------------------------------------
(* Creation, under the process manager lock from SysCreate to the return of *)
(* the enqueue.  A core that waits for the lock has not made the call yet.  *)

PmFree == \A c \in Cores : caller[c] # "create"

IsLeastLoaded(c) ==
    /\ c \in TaskCores
    /\ \A d \in TaskCores :
         \/ runnable_tasks_count[c] < runnable_tasks_count[d]
         \/ runnable_tasks_count[c] = runnable_tasks_count[d] /\ c <= d

MayCreate(c) ==
    IF c = 0 THEN pc[c] = "kernel" /\ "create" \in KernelOps
             ELSE pc[c] = "user" /\ "create" \in Syscalls

\* create_process_from_elf up to the reserved slot.
SysCreate(c) ==
    /\ MayCreate(c) /\ PmFree /\ new_pid <= MaxPid
    /\ new_pid' = new_pid + 1
    /\ \E t \in Slots, prio \in Priorities, core \in TaskCores :
         /\ IsLeastLoaded(core)
         /\ AllocateTaskSlot(t, new_pid, prio, core)
         /\ target' = [target EXCEPT ![c] = [slot |-> t, pid |-> new_pid]]
         /\ event' = [event EXCEPT ![t] = FALSE]
    /\ caller' = [caller EXCEPT ![c] = "create"]
    /\ Goto(c, "create_ready")
    /\ UNCHANGED <<loopVars, should_be_rescheduled, queueVars, ipi, enqueue_core,
                   enqueue_priority, now, fault, waiters, woken, core_id, wake_time,
                   processes, requested>>

\* The address space could not be built, or no slot is free: the pid is spent.
SysCreateFails(c) ==
    /\ MayCreate(c) /\ PmFree /\ new_pid <= MaxPid
    /\ new_pid' = new_pid + 1
    /\ Goto(c, ReturnStep(c))
    /\ UNCHANGED <<taskVars, loopVars, should_be_rescheduled, queueVars, ipi, callVars,
                   now, fault, waitVars, processes, requested>>

\* Mutant: the process is not in the table when the task is queued.
CreateReadyUnstored(c) ==
    /\ pc[c] = "create_ready"
    /\ SetState(target[c].slot, "Ready")
    /\ EnqueueArguments(c, target[c].slot)
    /\ Goto(c, "enq_count")
    /\ UNCHANGED <<pid, priority, home_core, on_cpu, kill_pending, saved_rsp, loopVars,
                   should_be_rescheduled, queueVars, ipi, target, caller, now, fault,
                   waitVars, procVars>>
\* The process is stored first: a core may run the task once it is queued.
CreateReady(c) ==
    /\ pc[c] = "create_ready"
    /\ processes' = [processes EXCEPT ![target[c].pid] = "Ready"]
    /\ SetState(target[c].slot, "Ready")
    /\ EnqueueArguments(c, target[c].slot)
    /\ Goto(c, "enq_count")
    /\ UNCHANGED <<pid, priority, home_core, on_cpu, kill_pending, saved_rsp, loopVars,
                   should_be_rescheduled, queueVars, ipi, target, caller, now, fault,
                   waitVars, new_pid, requested>>

CleanupDead ==
    /\ pc[0] = "kernel" /\ "cleanup" \in KernelOps /\ PmFree
    /\ processes' = [p \in Pids |-> IF processes[p] = "Terminated" THEN "absent"
                                                                  ELSE processes[p]]
    /\ UNCHANGED <<taskVars, schedVars, waitVars, new_pid, requested>>

-----------------------------------------------------------------------------
(* request_kill. Every process is created with parent 0, so the permission  *)
(* check of TerminateProcess lets a task kill only itself, which is Exit;   *)
(* requests for other tasks come from core 0.                               *)

RequestKill(p) ==
    /\ pc[0] = "kernel" /\ "kill" \in KernelOps
    /\ \E t \in SlotsOfPid(p) : target' = [target EXCEPT ![0] = [slot |-> t, pid |-> p]]
    /\ caller' = [caller EXCEPT ![0] = "kill"]
    /\ requested' = requested \cup {p}
    /\ Goto(0, "kill_mark")
    /\ UNCHANGED <<taskVars, loopVars, should_be_rescheduled, queueVars, ipi, enqueue_core,
                   enqueue_priority, now, fault, waitVars, new_pid, processes>>

\* The flag goes to the slot found before; only wake_task compares the pid.
KillMark(c) ==
    /\ pc[c] = "kill_mark"
    /\ kill_pending' = [kill_pending EXCEPT ![target[c].slot] = TRUE]
    /\ Goto(c, IF pid[target[c].slot] = target[c].pid THEN "wake_cas" ELSE "kill_ipi")
    /\ UNCHANGED <<pid, state, priority, home_core, on_cpu, saved_rsp, loopVars,
                   should_be_rescheduled, queueVars, ipi, callVars, now, fault, waitVars,
                   procVars>>

KillIpi(c) ==
    /\ pc[c] = "kill_ipi"
    /\ IF state[target[c].slot] = "Running"
         THEN Kick(c, home_core[target[c].slot])
         ELSE UNCHANGED <<should_be_rescheduled, ipi>>
    /\ ForgetCall(c)
    /\ Goto(c, ReturnStep(c))
    /\ UNCHANGED <<taskVars, loopVars, queueVars, now, fault, waitVars, procVars>>

-----------------------------------------------------------------------------
(* The edge of ring 3. *)

TaskFirstEntry(c) ==
    /\ pc[c] = "task_first_entry"
    /\ saved_rsp' = [saved_rsp EXCEPT ![picked[c]] = "exit_to_user"]
    /\ Goto(c, IF kill_pending[current_slot[c]] THEN "exit_killed" ELSE "user")
    /\ UNCHANGED <<pid, state, priority, home_core, on_cpu, kill_pending, loopVars,
                   should_be_rescheduled, queueVars, ipi, callVars, now, fault, waitVars,
                   procVars>>

ExitToUser(c) ==
    /\ pc[c] = "exit_to_user"
    /\ \/ /\ kill_pending[current_slot[c]]
          /\ Goto(c, "exit_killed")
          /\ UNCHANGED should_be_rescheduled
       \/ /\ ~kill_pending[current_slot[c]]
          /\ should_be_rescheduled' = [should_be_rescheduled EXCEPT ![c] = FALSE]
          /\ Goto(c, IF should_be_rescheduled[c] THEN "switch" ELSE "user")
    /\ UNCHANGED <<taskVars, loopVars, queueVars, ipi, callVars, now, fault, waitVars,
                   procVars>>

SysYield(c) ==
    /\ pc[c] = "user" /\ "yield" \in Syscalls
    /\ Goto(c, IF runnable_tasks_count[c] <= 1 THEN "exit_to_user" ELSE "switch_yield")
    /\ UNCHANGED <<taskVars, loopVars, should_be_rescheduled, queueVars, ipi, callVars,
                   now, fault, waitVars, procVars>>

SysExit(c) ==
    /\ pc[c] = "user" /\ "exit" \in Syscalls
    /\ Goto(c, "exit")
    /\ UNCHANGED <<taskVars, loopVars, should_be_rescheduled, queueVars, ipi, callVars,
                   now, fault, waitVars, procVars>>

\* exit_current: terminate_process under the process manager lock, then the
\* slot dies with interrupts off.
ExitTeardown(c) ==
    /\ pc[c] \in {"exit", "exit_killed"} /\ PmFree
    /\ processes' = [processes EXCEPT ![pid[current_slot[c]]] = "Terminated"]
    /\ Goto(c, "exit_dead")
    /\ UNCHANGED <<taskVars, loopVars, should_be_rescheduled, queueVars, ipi, callVars,
                   now, fault, waitVars, new_pid, requested>>

ExitDead(c) ==
    /\ pc[c] = "exit_dead"
    /\ SetState(current_slot[c], "Dead")
    /\ LeaveRunQueue(home_core[current_slot[c]])
    /\ Goto(c, "switch")
    /\ UNCHANGED <<pid, priority, home_core, on_cpu, kill_pending, saved_rsp, loopVars,
                   should_be_rescheduled, executing_tasks, yielding_tasks, sleeping_tasks,
                   ipi, callVars, now, fault, waitVars, procVars>>

\* Somebody makes the condition of task t true and then calls wake_all: core 0
\* when it forwards input, a task that writes a futex word and calls FutexWake.
\* A FutexWake may also come without any change of a word.
SignalEvent(c) ==
    /\ IF c = 0 THEN pc[c] = "kernel" /\ "input" \in KernelOps
                ELSE pc[c] = "user" /\ "futex_wake" \in Syscalls
    /\ \/ \E t \in Slots : /\ pid[t] # INVALID_PID
                           /\ event' = [event EXCEPT ![t] = TRUE]
       \/ c # 0 /\ UNCHANGED event
    /\ Goto(c, "wake_all")
    /\ UNCHANGED <<taskVars, loopVars, should_be_rescheduled, queueVars, ipi, callVars,
                   now, fault, waiters, woken, core_id, wake_time, procVars>>

-----------------------------------------------------------------------------

Sound == fault = "none"

SchedulerLoopStep(c) ==
    /\ Sound
    /\ \/ PickTask(c) \/ PickNothing(c)
       \/ Steal(c) \/ StealPush(c) \/ StealNothing(c)
       \/ RunTask(c) \/ SwitchContext(c)
       \/ ReturnOnCpu(c) \/ ReturnCurrent(c) \/ ReturnReap(c)
    /\ UNCHANGED <<waitVars, procVars>>

WakeStep(c) ==
    /\ Sound
    /\ WakeCas(c) \/ EnqueueCount(c) \/ EnqueuePush(c) \/ EnqueueKick(c)
    /\ UNCHANGED <<waitVars, procVars>>

WaitStep(c) ==
    /\ Sound
    /\ \/ WaitCondition(c) \/ WaitBlock(c) \/ WaitCheck(c)
       \/ SleepCondition(c) \/ SleepBlock(c)
       \/ WakeAll(c) \/ WakeNext(c) \/ WakeAllDone(c)
    /\ UNCHANGED procVars

KernelStep(c) ==
    /\ Sound
    /\ \/ CreateReady(c) \/ KillMark(c) \/ KillIpi(c)
       \/ TaskFirstEntry(c) \/ ExitToUser(c) \/ ExitTeardown(c) \/ ExitDead(c)

InterruptStep(c) ==
    /\ Sound
    /\ TimerTick(c) \/ RescheduleInterrupt(c)
    /\ UNCHANGED <<waitVars, procVars>>

\* What a task does in ring 3 is up to its program, not to the kernel.
UserStep(c) ==
    /\ Sound
    /\ \/ SysCreate(c) \/ SysCreateFails(c) \/ SysYield(c) \/ SysExit(c) \/ SignalEvent(c)
       \/ (SysWait(c) \/ SysSleep(c)) /\ UNCHANGED procVars

KernelCoreStep ==
    /\ Sound
    /\ \/ SysCreate(0) \/ SysCreateFails(0) \/ SignalEvent(0) \/ CleanupDead
       \/ \E p \in Pids : RequestKill(p)

Clock == Sound /\ ClockAdvance /\ UNCHANGED <<waitVars, procVars>>

Stopped == ~Sound /\ UNCHANGED vars

\* The steps a core takes on its own, whatever user programs do.
CoreStep(c) == SchedulerLoopStep(c) \/ WakeStep(c) \/ WaitStep(c) \/ KernelStep(c)

Next ==
    \/ \E c \in Cores : CoreStep(c)
    \/ \E c \in TaskCores : InterruptStep(c) \/ UserStep(c)
    \/ KernelCoreStep \/ Clock \/ Stopped

Spec == Init /\ [][Next]_vars
=============================================================================
