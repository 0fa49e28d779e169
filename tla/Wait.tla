-------------------------------- MODULE Wait --------------------------------
(***************************************************************************)
(* Blocking and waking of process/wait.rs: a wait queue with its waiter    *)
(* list, the wait loop, the sleep loop and wake_all.                       *)
(*                                                                         *)
(* One wait queue stands for INPUT_WAIT_QUEUE and FUTEX_WAIT_QUEUE, which  *)
(* share nothing but the code.  event[t] is the value of the condition the *)
(* task in slot t waits for: input in a window of its process, or a futex  *)
(* word that differs from the expected value.                              *)
(***************************************************************************)
EXTENDS Scheduler

CONSTANT Syscalls   \* the system calls tasks make

ASSUME WaitAssumption ==
    Syscalls \subseteq {"yield", "wait", "sleep", "futex_wake", "create", "exit"}

VARIABLES
    waiters,    \* the cells of the waiter list
    woken,      \* woken[c]: what core c copied from the list in wake_all
    event,
    core_id,    \* core_id[t]: the local core_id of the wait or sleep loop
    wake_time   \* wake_time[t]: the local wake_time_us of the sleep loop

waitVars == <<waiters, woken, event, core_id, wake_time>>

WaitTypeOK ==
    /\ waiters \in [Cells -> TaskRef \cup {NoTask}]
    /\ woken \in [Cores -> [Cells -> TaskRef \cup {NoTask}]]
    /\ event \in [Slots -> BOOLEAN]
    /\ core_id \in [Slots -> Cores]
    /\ wake_time \in [Slots -> Times]

WaitInit ==
    /\ waiters = [i \in Cells |-> NoTask]
    /\ woken = [c \in Cores |-> [i \in Cells |-> NoTask]]
    /\ event = [t \in Slots |-> FALSE]
    /\ core_id = [t \in Slots |-> 0]
    /\ wake_time = [t \in Slots |-> 0]

-----------------------------------------------------------------------------

Self(c) == [slot |-> picked[c], pid |-> pid[picked[c]]]

IsEmpty(list, none, i) == list[i] = none /\ \A j \in Cells : list[j] = none => i <= j

\* WaiterList::push and add_sleeping_task: a full list first drops its stale
\* entries.
PurgedWaiters ==
    IF \E i \in Cells : waiters[i] = NoTask
      THEN waiters
      ELSE [i \in Cells |-> IF IsStale(waiters[i]) THEN NoTask ELSE waiters[i]]
PurgedSleepers(c) ==
    IF \E i \in Cells : sleeping_tasks[c][i] = NoSleeper
      THEN sleeping_tasks[c]
      ELSE [i \in Cells |-> IF IsStale(sleeping_tasks[c][i].ref)
                              THEN NoSleeper ELSE sleeping_tasks[c][i]]

\* The loop is over: its locals are gone and the system call returns.
LeaveLoop(c) ==
    /\ Goto(c, "exit_to_user")
    /\ saved_rsp' = [saved_rsp EXCEPT ![picked[c]] = "exit_to_user"]
    /\ core_id' = [core_id EXCEPT ![picked[c]] = 0]
    /\ wake_time' = [wake_time EXCEPT ![picked[c]] = 0]

\* core_current_task_kill_pending(core_id) on a core the task has left: no
\* task runs there, or the answer is about another task.
StaleCoreFault(t) ==
    fault' = IF current_slot[core_id[t]] = INVALID_SLOT
               THEN "no_current_task" ELSE "stale_core"

-----------------------------------------------------------------------------
(* block_current_task_until_event *)

SysWait(c) ==
    /\ pc[c] = "user" /\ "wait" \in Syscalls
    /\ core_id' = [core_id EXCEPT ![picked[c]] = c]
    /\ saved_rsp' = [saved_rsp EXCEPT ![picked[c]] = "wait"]
    /\ Goto(c, "wait")
    /\ UNCHANGED <<pid, state, priority, home_core, on_cpu, kill_pending, loopVars,
                   should_be_rescheduled, queueVars, ipi, callVars, now, fault,
                   waiters, woken, event, wake_time>>

\* The head of the loop.  A task that leaves because of its event consumes it.
WaitCondition(c) ==
    LET t == picked[c]
    IN /\ pc[c] = "wait"
       /\ \/ /\ event[t]
             /\ LeaveLoop(c)
             /\ event' = [event EXCEPT ![t] = FALSE]
             /\ UNCHANGED fault
          \/ /\ ~event[t] /\ core_id[t] # c
             /\ StaleCoreFault(t)
             /\ UNCHANGED <<pc, saved_rsp, event, core_id, wake_time>>
          \/ /\ ~event[t] /\ core_id[t] = c /\ kill_pending[t]
             /\ LeaveLoop(c)
             /\ UNCHANGED <<event, fault>>
          \/ /\ ~event[t] /\ core_id[t] = c /\ ~kill_pending[t]
             /\ Goto(c, "wait_block")
             /\ UNCHANGED <<saved_rsp, event, core_id, wake_time, fault>>
       /\ UNCHANGED <<pid, state, priority, home_core, on_cpu, kill_pending, loopVars,
                      should_be_rescheduled, queueVars, ipi, callVars, now,
                      waiters, woken>>

\* add_current_task_and_mark_blocked, under the lock of the waiter list.
WaitBlock(c) ==
    LET t == picked[c]
        list == PurgedWaiters
    IN /\ pc[c] = "wait_block"
       /\ \/ \E i \in Cells :
               /\ IsEmpty(list, NoTask, i)
               /\ waiters' = [list EXCEPT ![i] = Self(c)]
               /\ Transition(t, "Running", "Blocked")
               /\ LeaveRunQueue(home_core[t])
               /\ Goto(c, "wait_check")
               /\ UNCHANGED fault
          \/ /\ \A i \in Cells : list[i] # NoTask
             /\ fault' = "list_full"
             /\ UNCHANGED <<waiters, state, runnable_tasks_count, pc>>
       /\ UNCHANGED <<pid, priority, home_core, on_cpu, kill_pending, saved_rsp, loopVars,
                      should_be_rescheduled, executing_tasks, yielding_tasks,
                      sleeping_tasks, ipi, callVars, now, woken, event, core_id, wake_time>>

\* Mutants: the second look ignores the event, or the kill request.
KillOnly(t) == kill_pending[t]
EventOnly(t) == event[t]
WakeReason(t) == event[t] \/ kill_pending[t]

\* The second look at the condition.  The task takes its entry back and wakes
\* itself like any other task, or leaves the core.
WaitCheck(c) ==
    LET t == picked[c]
        mine == {i \in Cells : waiters[i] = Self(c)}
    IN /\ pc[c] = "wait_check"
       /\ \/ /\ WakeReason(t)
             /\ \/ mine = {} /\ UNCHANGED waiters
                \/ \E i \in mine : waiters' = [waiters EXCEPT ![i] = NoTask]
             /\ target' = [target EXCEPT ![c] = Self(c)]
             /\ caller' = [caller EXCEPT ![c] = "wait"]
             /\ UNCHANGED <<enqueue_core, enqueue_priority>>
             /\ Goto(c, "wake_cas")
          \/ /\ ~WakeReason(t)
             /\ Goto(c, "switch")
             /\ UNCHANGED <<waiters, callVars>>
       /\ UNCHANGED <<taskVars, loopVars, should_be_rescheduled, queueVars, ipi, now,
                      fault, woken, event, core_id, wake_time>>

-----------------------------------------------------------------------------
(* sleep_current_task_ms *)

SysSleep(c) ==
    /\ pc[c] = "user" /\ "sleep" \in Syscalls
    /\ \E w \in now .. MaxTime : wake_time' = [wake_time EXCEPT ![picked[c]] = w]
    /\ core_id' = [core_id EXCEPT ![picked[c]] = c]
    /\ saved_rsp' = [saved_rsp EXCEPT ![picked[c]] = "sleep"]
    /\ Goto(c, "sleep")
    /\ UNCHANGED <<pid, state, priority, home_core, on_cpu, kill_pending, loopVars,
                   should_be_rescheduled, queueVars, ipi, callVars, now, fault,
                   waiters, woken, event>>

SleepCondition(c) ==
    LET t == picked[c]
        due == now >= wake_time[t]
    IN /\ pc[c] = "sleep"
       /\ \/ /\ due \/ (core_id[t] = c /\ kill_pending[t])
             /\ LeaveLoop(c)
             /\ UNCHANGED fault
          \/ /\ ~due /\ core_id[t] # c
             /\ StaleCoreFault(t)
             /\ UNCHANGED <<pc, saved_rsp, core_id, wake_time>>
          \/ /\ ~due /\ core_id[t] = c /\ ~kill_pending[t]
             /\ Goto(c, "sleep_block")
             /\ UNCHANGED <<saved_rsp, core_id, wake_time, fault>>
       /\ UNCHANGED <<pid, state, priority, home_core, on_cpu, kill_pending, loopVars,
                      should_be_rescheduled, queueVars, ipi, callVars, now,
                      waiters, woken, event>>

\* core_block_current_task_until_wake_time up to core_run_scheduling.
SleepBlock(c) ==
    LET t == picked[c]
        home == home_core[t]
        list == PurgedSleepers(home)
    IN /\ pc[c] = "sleep_block"
       /\ \/ \E i \in Cells :
               /\ IsEmpty(list, NoSleeper, i)
               /\ sleeping_tasks' = [sleeping_tasks EXCEPT ![home] =
                    [list EXCEPT ![i] = [ref |-> Self(c), wake_time |-> wake_time[t]]]]
               /\ Transition(t, "Running", "Blocked")
               /\ LeaveRunQueue(home)
               /\ Goto(c, "switch")
               /\ UNCHANGED fault
          \/ /\ \A i \in Cells : list[i] # NoSleeper
             /\ fault' = "list_full"
             /\ UNCHANGED <<sleeping_tasks, state, runnable_tasks_count, pc>>
       /\ UNCHANGED <<pid, priority, home_core, on_cpu, kill_pending, saved_rsp, loopVars,
                      should_be_rescheduled, executing_tasks, yielding_tasks, ipi,
                      callVars, now, waitVars>>

-----------------------------------------------------------------------------
(* WaitQueue::wake_all: the list is copied and emptied under its lock, then *)
(* every copied task is woken without it.                                   *)

WakeAll(c) ==
    /\ pc[c] = "wake_all"
    /\ woken' = [woken EXCEPT ![c] = waiters]
    /\ waiters' = [i \in Cells |-> NoTask]
    /\ caller' = [caller EXCEPT ![c] = "wake_all"]
    /\ Goto(c, "wake_next")
    /\ UNCHANGED <<taskVars, loopVars, should_be_rescheduled, queueVars, ipi, target,
                   enqueue_core, enqueue_priority, now, fault, event, core_id, wake_time>>

\* The next copied entry: wake_task compares the pid of its slot.
WakeNext(c) ==
    /\ pc[c] = "wake_next"
    /\ \E i \in Cells :
         LET ref == woken[c][i]
             alive == pid[ref.slot] = ref.pid
         IN /\ ref # NoTask /\ \A j \in 1 .. i - 1 : woken[c][j] = NoTask
            /\ woken' = [woken EXCEPT ![c][i] = NoTask]
            /\ target' = [target EXCEPT ![c] = IF alive THEN ref ELSE NoTask]
            /\ Goto(c, IF alive THEN "wake_cas" ELSE "wake_next")
    /\ UNCHANGED <<taskVars, loopVars, should_be_rescheduled, queueVars, ipi, caller,
                   enqueue_core, enqueue_priority, now, fault, waiters, event, core_id, wake_time>>

WakeAllDone(c) ==
    /\ pc[c] = "wake_next"
    /\ \A i \in Cells : woken[c][i] = NoTask
    /\ ForgetCall(c)
    /\ Goto(c, ReturnStep(c))
    /\ UNCHANGED <<taskVars, loopVars, should_be_rescheduled, queueVars, ipi, now, fault,
                   waitVars>>
=============================================================================
