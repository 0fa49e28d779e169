------------------------------ MODULE Scheduler ------------------------------
(***************************************************************************)
(* The per-core run queues and scheduler loops of process/scheduler.rs.    *)
(*                                                                         *)
(* pc[c] says which statement core c executes next.  While a task runs,    *)
(* the core executes that task's kernel or user code, so pc[c] covers the  *)
(* scheduler loop and the system calls alike; picked[c] is the local       *)
(* slot_index of the loop's run_task frame.  A critical section under a    *)
(* run queue lock is one step; every other access to shared state that     *)
(* another core can see in between is a step of its own.                   *)
(***************************************************************************)
EXTENDS TaskSlots, SequencesExt

CONSTANTS
    MaxTime,                \* bound of the clock
    WORK_STEALING_ENABLED

ASSUME SchedulerAssumption ==
    MaxTime \in Nat /\ WORK_STEALING_ENABLED \in BOOLEAN

VARIABLES
    pc, picked,
    current_slot, should_be_rescheduled, slice_remaining, runnable_tasks_count,
    executing_tasks, yielding_tasks,  \* the two banks, oldest task first
    sleeping_tasks,                   \* the cells of the sleeper array
    ipi,      \* a reschedule interrupt is pending at the core
    target,   \* the TaskRef that wake_task / core_enqueue_ready_task works on
    caller,   \* who called wake_task / core_enqueue_ready_task
    enqueue_core, enqueue_priority,   \* arguments of core_enqueue_ready_task
    now,      \* tsc_timestamp_us
    fault     \* the first failed assertion or broken ownership rule

queueVars == <<executing_tasks, yielding_tasks, sleeping_tasks, runnable_tasks_count>>
loopVars == <<picked, current_slot, slice_remaining>>
callVars == <<target, caller, enqueue_core, enqueue_priority>>
schedVars == <<pc, loopVars, should_be_rescheduled, queueVars, ipi, callVars, now, fault>>

Cells == 1 .. MAX_TASKS
Times == 0 .. MaxTime
Sleeper == [ref: TaskRef, wake_time: Times]
NoSleeper == [ref |-> NoTask, wake_time |-> 0]

\* Steps of a system call, executed with interrupts enabled.
SyscallSteps == {"wait", "wait_block", "wait_check", "sleep", "sleep_block",
    "wake_all", "wake_next", "wake_cas", "enq_count", "enq_push", "enq_kick",
    "kill_mark", "kill_ipi", "create_ready", "exit"}
InterruptsEnabled == {"user", "halt"} \cup SyscallSteps

\* A core at one of these executes on the stack of the task it picked.
OnTaskStack == SyscallSteps \cup {"user", "task_first_entry", "exit_to_user",
    "switch", "switch_yield", "exit_killed", "exit_dead"}
SchedulerLoop == {"pick", "steal", "steal_push", "run", "halt",
    "ret_on_cpu", "ret_current", "ret_reap"}
Steps == OnTaskStack \cup SchedulerLoop \cup {"kernel"}

Callers == {"none", "wake_all", "kill", "wait", "create"}
Faults == {"none", "no_current_task", "stale_core", "double_reap",
    "foreign_sleeper", "list_full"}

SchedulerTypeOK ==
    /\ pc \in [Cores -> Steps]
    /\ picked \in [Cores -> SlotIndex]
    /\ current_slot \in [Cores -> SlotIndex]
    /\ should_be_rescheduled \in [Cores -> BOOLEAN]
    /\ slice_remaining \in [Cores -> Nat]
    /\ runnable_tasks_count \in [Cores -> Int]
    /\ executing_tasks \in [Cores -> Seq(Slots)]
    /\ yielding_tasks \in [Cores -> Seq(Slots)]
    /\ sleeping_tasks \in [Cores -> [Cells -> Sleeper \cup {NoSleeper}]]
    /\ ipi \in [Cores -> BOOLEAN]
    /\ target \in [Cores -> TaskRef \cup {NoTask}]
    /\ caller \in [Cores -> Callers]
    /\ enqueue_core \in [Cores -> Cores]
    /\ enqueue_priority \in [Cores -> 0 .. 7]
    /\ now \in Times
    /\ fault \in Faults

SchedulerInit ==
    /\ pc = [c \in Cores |-> IF c = 0 THEN "kernel" ELSE "pick"]
    /\ picked = [c \in Cores |-> INVALID_SLOT]
    /\ current_slot = [c \in Cores |-> INVALID_SLOT]
    /\ should_be_rescheduled = [c \in Cores |-> FALSE]
    /\ slice_remaining = [c \in Cores |-> 0]
    /\ runnable_tasks_count = [c \in Cores |-> 0]
    /\ executing_tasks = [c \in Cores |-> <<>>]
    /\ yielding_tasks = [c \in Cores |-> <<>>]
    /\ sleeping_tasks = [c \in Cores |-> [i \in Cells |-> NoSleeper]]
    /\ ipi = [c \in Cores |-> FALSE]
    /\ target = [c \in Cores |-> NoTask]
    /\ caller = [c \in Cores |-> "none"]
    /\ enqueue_core = [c \in Cores |-> 0]
    /\ enqueue_priority = [c \in Cores |-> 0]
    /\ now = 0
    /\ fault = "none"

-----------------------------------------------------------------------------

Goto(c, step) == pc' = [pc EXCEPT ![c] = step]

\* After a system call a task passes exit_to_user; core 0 has no task.
ReturnStep(c) == IF c = 0 THEN "kernel" ELSE "exit_to_user"

\* The oldest task of the highest priority among the positions S of a bank.
IsNext(bank, S, i) ==
    /\ i \in S
    /\ \A j \in S : \/ priority[bank[j]] < priority[bank[i]]
                    \/ priority[bank[j]] = priority[bank[i]] /\ i <= j

\* Mutant: the slice is off by two.
SliceTicksTooShort(prio) == prio - 1
SliceTicks(prio) == prio + 1

\* Mutant: a task that blocks or dies is still counted.
StayCounted(c) == UNCHANGED runnable_tasks_count
\* core_task_leave_run_queue
LeaveRunQueue(c) ==
    runnable_tasks_count' = [runnable_tasks_count EXCEPT ![c] = @ - 1]

\* Mutant: the on_cpu check is missing.
StealableAlways(t) == TRUE
\* A task another core may take: nobody is still on its stack.
Stealable(t) == ~on_cpu[t]

-----------------------------------------------------------------------------
(* The scheduler loop of core c, with interrupts off. *)

PickTask(c) ==
    /\ pc[c] = "pick"
    /\ LET swap == executing_tasks[c] = <<>>
           bank == IF swap THEN yielding_tasks[c] ELSE executing_tasks[c]
       IN \E i \in DOMAIN bank :
            /\ IsNext(bank, DOMAIN bank, i)
            /\ executing_tasks' = [executing_tasks EXCEPT ![c] = RemoveAt(bank, i)]
            /\ yielding_tasks' = [yielding_tasks EXCEPT ![c] = IF swap THEN <<>> ELSE @]
            /\ picked' = [picked EXCEPT ![c] = bank[i]]
    /\ Goto(c, "run")
    /\ UNCHANGED <<taskVars, current_slot, slice_remaining, should_be_rescheduled,
                   sleeping_tasks, runnable_tasks_count, ipi, callVars, now, fault>>

PickNothing(c) ==
    /\ pc[c] = "pick"
    /\ executing_tasks[c] = <<>> /\ yielding_tasks[c] = <<>>
    /\ Goto(c, IF WORK_STEALING_ENABLED THEN "steal" ELSE "halt")
    /\ UNCHANGED <<taskVars, loopVars, should_be_rescheduled, queueVars, ipi,
                   callVars, now, fault>>

\* try_steal_task up to the drop of the victim's lock.  Any busy core may be
\* the victim, since the try_lock of an earlier one may have failed.
Steal(c) ==
    /\ pc[c] = "steal"
    /\ \E victim \in TaskCores \ {c} :
         LET exec == executing_tasks[victim]
             yielding == yielding_tasks[victim]
             E == {i \in DOMAIN exec : Stealable(exec[i])}
             Y == {i \in DOMAIN yielding : Stealable(yielding[i])}
         IN /\ runnable_tasks_count[victim] > 1
            /\ \/ \E i \in E :
                    /\ IsNext(exec, E, i)
                    /\ executing_tasks' = [executing_tasks EXCEPT ![victim] = RemoveAt(exec, i)]
                    /\ picked' = [picked EXCEPT ![c] = exec[i]]
                    /\ UNCHANGED yielding_tasks
               \/ \E i \in Y :
                    /\ E = {} /\ IsNext(yielding, Y, i)
                    /\ yielding_tasks' = [yielding_tasks EXCEPT ![victim] = RemoveAt(yielding, i)]
                    /\ picked' = [picked EXCEPT ![c] = yielding[i]]
                    /\ UNCHANGED executing_tasks
    /\ Goto(c, "steal_push")
    /\ UNCHANGED <<taskVars, current_slot, slice_remaining, should_be_rescheduled,
                   sleeping_tasks, runnable_tasks_count, ipi, callVars, now, fault>>

\* The rest of try_steal_task: the stolen task changes its home.
StealPush(c) ==
    /\ pc[c] = "steal_push"
    /\ LET t == picked[c]
           left == [runnable_tasks_count EXCEPT ![home_core[t]] = @ - 1]
       IN /\ home_core' = [home_core EXCEPT ![t] = c]
          /\ runnable_tasks_count' = [left EXCEPT ![c] = @ + 1]
          /\ executing_tasks' = [executing_tasks EXCEPT ![c] = Append(@, t)]
    /\ picked' = [picked EXCEPT ![c] = INVALID_SLOT]
    /\ Goto(c, "pick")
    /\ UNCHANGED <<pid, state, priority, on_cpu, kill_pending, saved_rsp, current_slot,
                   slice_remaining, should_be_rescheduled, yielding_tasks,
                   sleeping_tasks, ipi, callVars, now, fault>>

\* No victim was busy, or its lock was taken, or it had nothing to give.
StealNothing(c) ==
    /\ pc[c] = "steal"
    /\ Goto(c, "halt")
    /\ UNCHANGED <<taskVars, loopVars, should_be_rescheduled, queueVars, ipi,
                   callVars, now, fault>>

\* run_task up to switch_context.
RunTask(c) ==
    /\ pc[c] = "run"
    /\ LET t == picked[c]
       IN /\ SetState(t, "Running")
          /\ on_cpu' = [on_cpu EXCEPT ![t] = TRUE]
          /\ current_slot' = [current_slot EXCEPT ![c] = t]
          /\ slice_remaining' = [slice_remaining EXCEPT ![c] = SliceTicks(priority[t])]
          /\ Goto(c, saved_rsp[t])
    /\ should_be_rescheduled' = [should_be_rescheduled EXCEPT ![c] = FALSE]
    /\ UNCHANGED <<pid, priority, home_core, kill_pending, saved_rsp, picked, queueVars,
                   ipi, callVars, now, fault>>

\* run_task after switch_context came back, in three steps.
ReturnOnCpu(c) ==
    /\ pc[c] = "ret_on_cpu"
    /\ on_cpu' = [on_cpu EXCEPT ![picked[c]] = FALSE]
    /\ Goto(c, "ret_current")
    /\ UNCHANGED <<pid, state, priority, home_core, kill_pending, saved_rsp, loopVars,
                   should_be_rescheduled, queueVars, ipi, callVars, now, fault>>

ReturnCurrent(c) ==
    /\ pc[c] = "ret_current"
    /\ current_slot' = [current_slot EXCEPT ![c] = INVALID_SLOT]
    /\ Goto(c, "ret_reap")
    /\ UNCHANGED <<taskVars, picked, slice_remaining, should_be_rescheduled, queueVars,
                   ipi, callVars, now, fault>>

\* The slot is released if its state reads Dead.  Once on_cpu is clear another
\* core may have stolen the task, run it and killed it; then this core frees a
\* slot that core still executes on, and the next release frees it again.
ReturnReap(c) ==
    /\ pc[c] = "ret_reap"
    /\ LET t == picked[c]
       IN IF state[t] = "Dead"
            THEN /\ ReleaseTaskSlot(t)
                 /\ fault' = IF home_core[t] = c THEN fault ELSE "double_reap"
            ELSE UNCHANGED <<taskVars, fault>>
    /\ picked' = [picked EXCEPT ![c] = INVALID_SLOT]
    /\ Goto(c, "pick")
    /\ UNCHANGED <<current_slot, slice_remaining, should_be_rescheduled, queueVars, ipi,
                   callVars, now>>

-----------------------------------------------------------------------------
(* Leaving a task: core_run_scheduling ("switch") requeues a task that is   *)
(* still Running according to its slice, core_yield_executing_tasks         *)
(* ("switch_yield") always into the yielding bank.                          *)

\* Mutant: an expired task keeps its turn in the epoch.
NeverYields(c) == pc[c] = "switch_yield"
YieldsTurn(c) == pc[c] = "switch_yield" \/ slice_remaining[c] = 0

SwitchContext(c) ==
    /\ pc[c] \in {"switch", "switch_yield"}
    /\ LET t == current_slot[c]
       IN IF state[t] # "Running"
            THEN UNCHANGED <<state, executing_tasks, yielding_tasks>>
            ELSE /\ SetState(t, "Ready")
                 /\ IF YieldsTurn(c)
                      THEN /\ yielding_tasks' = [yielding_tasks EXCEPT ![c] = Append(@, t)]
                           /\ UNCHANGED executing_tasks
                      ELSE /\ executing_tasks' = [executing_tasks EXCEPT ![c] = Append(@, t)]
                           /\ UNCHANGED yielding_tasks
    /\ Goto(c, "ret_on_cpu")
    /\ UNCHANGED <<pid, priority, home_core, on_cpu, kill_pending, saved_rsp, loopVars,
                   should_be_rescheduled, sleeping_tasks, runnable_tasks_count, ipi,
                   callVars, now, fault>>

-----------------------------------------------------------------------------
(* Waking a task: wake_task and core_enqueue_ready_task for target[c].      *)

AfterWake(c) ==
    CASE caller[c] = "wake_all" -> "wake_next"
      [] caller[c] = "kill"     -> "kill_ipi"
      [] caller[c] = "wait"     -> "switch"
      [] OTHER                  -> ReturnStep(c)

\* The call is over: its arguments are gone.
ForgetCall(c) ==
    /\ target' = [target EXCEPT ![c] = NoTask]
    /\ caller' = [caller EXCEPT ![c] = "none"]
    /\ enqueue_core' = [enqueue_core EXCEPT ![c] = 0]
    /\ enqueue_priority' = [enqueue_priority EXCEPT ![c] = 0]

\* wake_task and core_enqueue_ready_task return; a create releases the process
\* manager lock.
WakeReturn(c) ==
    /\ Goto(c, AfterWake(c))
    /\ IF caller[c] \in {"wait", "create"} THEN ForgetCall(c) ELSE UNCHANGED callVars

\* The arguments core_enqueue_ready_task is called with for slot t.
EnqueueArguments(c, t) ==
    /\ enqueue_core' = [enqueue_core EXCEPT ![c] = home_core[t]]
    /\ enqueue_priority' = [enqueue_priority EXCEPT ![c] = priority[t]]

\* The pid of the slot was compared in the step before this one.
WakeCas(c) ==
    /\ pc[c] = "wake_cas"
    /\ LET t == target[c].slot
       IN \/ /\ Transition(t, "Blocked", "Ready")
             /\ EnqueueArguments(c, t)
             /\ Goto(c, "enq_count")
             /\ UNCHANGED <<target, caller>>
          \/ state[t] # "Blocked" /\ WakeReturn(c) /\ UNCHANGED state
    /\ UNCHANGED <<pid, priority, home_core, on_cpu, kill_pending, saved_rsp, loopVars,
                   should_be_rescheduled, queueVars, ipi, now, fault>>

EnqueueCount(c) ==
    /\ pc[c] = "enq_count"
    /\ runnable_tasks_count' = [runnable_tasks_count EXCEPT ![enqueue_core[c]] = @ + 1]
    /\ Goto(c, "enq_push")
    /\ UNCHANGED <<taskVars, loopVars, should_be_rescheduled, executing_tasks,
                   yielding_tasks, sleeping_tasks, ipi, callVars, now, fault>>

EnqueuePush(c) ==
    /\ pc[c] = "enq_push"
    /\ executing_tasks' =
         [executing_tasks EXCEPT ![enqueue_core[c]] = Append(@, target[c].slot)]
    /\ Goto(c, "enq_kick")
    /\ UNCHANGED <<taskVars, loopVars, should_be_rescheduled, yielding_tasks,
                   sleeping_tasks, runnable_tasks_count, ipi, callVars, now, fault>>

\* Mutant: another core is marked but not interrupted.
MarkOnly(c, k) ==
    /\ should_be_rescheduled' = [should_be_rescheduled EXCEPT ![k] = TRUE]
    /\ UNCHANGED ipi
\* Interrupts core k, or marks it when the code runs on k itself.
Kick(c, k) ==
    IF k = c
      THEN /\ should_be_rescheduled' = [should_be_rescheduled EXCEPT ![k] = TRUE]
           /\ UNCHANGED ipi
      ELSE ipi' = [ipi EXCEPT ![k] = TRUE] /\ UNCHANGED should_be_rescheduled

\* The woken task preempts an idle core or a task of lower priority.
EnqueueKick(c) ==
    /\ pc[c] = "enq_kick"
    /\ LET running == current_slot[enqueue_core[c]]
       IN IF running = INVALID_SLOT \/ priority[running] < enqueue_priority[c]
            THEN Kick(c, enqueue_core[c])
            ELSE UNCHANGED <<should_be_rescheduled, ipi>>
    /\ WakeReturn(c)
    /\ UNCHANGED <<taskVars, loopVars, queueVars, now, fault>>

-----------------------------------------------------------------------------
(* Interrupts. A ring 3 return passes exit_to_user, a halted core goes back *)
(* to the top of its loop, interrupted kernel code just continues.          *)

InterruptReturn(c) ==
    Goto(c, CASE pc[c] = "user" -> "exit_to_user"
              [] pc[c] = "halt" -> "pick"
              [] OTHER          -> pc[c])

\* wake_due_sleeping_tasks: the sleepers of core c whose time has come.
Due(c) == {t \in Slots : \E i \in Cells :
    LET s == sleeping_tasks[c][i]
    IN /\ s # NoSleeper /\ s.ref.slot = t
       /\ ~IsStale(s.ref) /\ s.wake_time <= now}

\* Stale entries go, and so does the entry that wakes its task.  A later entry
\* of a woken task goes if the scan reaches it after the task was woken.
Late(c) == {i \in Cells :
    LET s == sleeping_tasks[c][i]
    IN s # NoSleeper /\ s.ref.slot \in Due(c) /\ s.wake_time > now}
SleepersAfterTick(c, kept) == [i \in Cells |->
    LET s == sleeping_tasks[c][i]
    IN IF s # NoSleeper /\ ~IsStale(s.ref) /\ (s.ref.slot \in Due(c) => i \in kept)
         THEN s ELSE NoSleeper]

\* on_timer_tick.  The order in which one tick queues several sleepers depends
\* on earlier removals from the array; any order is allowed here.
TimerTick(c) ==
    /\ pc[c] \in InterruptsEnabled
    /\ \E woken \in SetToSeqs(Due(c)) :
         LET runnable == runnable_tasks_count[c] + Len(woken)
             t == current_slot[c]
             running == t # INVALID_SLOT
             preempt == running /\ \E u \in Due(c) : priority[t] < priority[u]
             expired == running /\ slice_remaining[c] <= 1
         IN /\ executing_tasks' = [executing_tasks EXCEPT ![c] = @ \o woken]
            /\ runnable_tasks_count' = [runnable_tasks_count EXCEPT ![c] = runnable]
            /\ slice_remaining' = [slice_remaining EXCEPT ![c] =
                 IF ~running THEN @
                 ELSE IF ~expired THEN @ - 1
                 ELSE IF runnable > 1 THEN 0 ELSE SliceTicks(priority[t])]
            /\ should_be_rescheduled' = [should_be_rescheduled EXCEPT ![c] =
                 @ \/ preempt \/ (expired /\ runnable > 1)]
    /\ state' = [t \in Slots |-> IF t \in Due(c) THEN "Ready" ELSE state[t]]
    /\ \E kept \in SUBSET Late(c) :
         sleeping_tasks' = [sleeping_tasks EXCEPT ![c] = SleepersAfterTick(c, kept)]
    /\ fault' = IF \E t \in Due(c) : home_core[t] # c THEN "foreign_sleeper" ELSE fault
    /\ InterruptReturn(c)
    /\ UNCHANGED <<pid, priority, home_core, on_cpu, kill_pending, saved_rsp, picked,
                   current_slot, yielding_tasks, ipi, callVars, now>>

\* reschedule_interrupt_handler
RescheduleInterrupt(c) ==
    /\ ipi[c] /\ pc[c] \in InterruptsEnabled
    /\ ipi' = [ipi EXCEPT ![c] = FALSE]
    /\ should_be_rescheduled' = [should_be_rescheduled EXCEPT ![c] = TRUE]
    /\ InterruptReturn(c)
    /\ UNCHANGED <<taskVars, loopVars, queueVars, callVars, now, fault>>

ClockAdvance ==
    /\ now < MaxTime
    /\ now' = now + 1
    /\ UNCHANGED <<taskVars, pc, loopVars, should_be_rescheduled, queueVars, ipi,
                   callVars, fault>>
=============================================================================
