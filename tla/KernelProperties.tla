-------------------------- MODULE KernelProperties --------------------------
(***************************************************************************)
(* What the task subsystem promises.  The invariants hold in every state   *)
(* up to the first fault; the findings show which faults can happen.       *)
(***************************************************************************)
EXTENDS Kernel

\* Core c executes on the kernel stack of slot t, or has just left it and has
\* not given it free.
Occupies(c, t) == picked[c] = t /\ pc[c] \in OnTaskStack \cup {"ret_on_cpu"}

\* The places a Ready task can be: queued, taken from a queue to be run, taken
\* to be moved, or on its way into a queue.
Queued(c, t) == t \in Range(executing_tasks[c]) \cup Range(yielding_tasks[c])
Taken(c, t) == pc[c] = "run" /\ picked[c] = t
Stolen(c, t) == pc[c] = "steal_push" /\ picked[c] = t
BeingQueued(c, t) == pc[c] \in {"enq_count", "enq_push"} /\ target[c].slot = t
InFlight(c, t) == Taken(c, t) \/ Stolen(c, t) \/ BeingQueued(c, t)

-----------------------------------------------------------------------------

\* saved_rsp and fpu_state "are only touched by the core that owns the task at
\* that moment" (task.rs:130): no two cores are on one task's stack, and a slot
\* that is free or being filled in has nobody on its stack.
StackExclusive == Sound =>
    \A t \in Slots :
      /\ \A c, d \in Cores : Occupies(c, t) /\ Occupies(d, t) => c = d
      /\ \A c \in Cores : Occupies(c, t) => state[t] \notin {"Free", "Creating"}

\* A task is Ready exactly when it is queued or on its way between queues, it is
\* in one place only, and a queue holds only tasks whose home is its core: no
\* wake, requeue or steal loses a task or queues it twice.
OnePlace(t) ==
    /\ state[t] = "Ready" <=> \E c \in Cores : Queued(c, t) \/ InFlight(c, t)
    /\ \A c, d \in Cores : Queued(c, t) => home_core[t] = c /\ ~InFlight(d, t)
    /\ \A c, d \in Cores : InFlight(c, t) /\ InFlight(d, t) => c = d
OncePerQueue(c) ==
    /\ IsInjective(executing_tasks[c]) /\ IsInjective(yielding_tasks[c])
    /\ Range(executing_tasks[c]) \cap Range(yielding_tasks[c]) = {}
ReadyExactlyOnce == Sound =>
    (\A t \in Slots : OnePlace(t)) /\ (\A c \in Cores : OncePerQueue(c))

\* RUNNABLE_TASKS_COUNT counts the "tasks that are queued or running on each
\* core" (scheduler.rs:40): exactly the tasks at home there that run or are
\* ready, except one whose enqueue has not counted it yet.  So it never
\* underflows (debug_assert, scheduler.rs:358).
Uncounted(t) == \E c \in Cores : pc[c] = "enq_count" /\ target[c].slot = t
RunnableCountExact == Sound =>
    \A c \in Cores : runnable_tasks_count[c] =
      Cardinality({t \in Slots : /\ home_core[t] = c
                                 /\ state[t] \in {"Ready", "Running"}
                                 /\ ~Uncounted(t)})

\* A core halts with work in its queue only while an interrupt is pending there
\* or the core that queued the work is about to send one.
NoSleepOnWork == Sound =>
    \A c \in TaskCores :
      pc[c] = "halt" /\ executing_tasks[c] \o yielding_tasks[c] # <<>> =>
        ipi[c] \/ \E d \in Cores : pc[d] = "enq_kick" /\ enqueue_core[d] = c

\* A waker that will still get to the task in slot t.
WakerComing(t) ==
    LET ref == [slot |-> t, pid |-> pid[t]]
    IN \E c \in Cores :
         \/ pc[c] = "wake_all" /\ \E i \in Cells : waiters[i] = ref
         \/ \E i \in Cells : woken[c][i] = ref
         \/ pc[c] \in {"wake_cas", "kill_mark"} /\ target[c] = ref

SwitchedOut(t) == \A c \in Cores : ~Occupies(c, t)

\* "A wake between the first check and the block is not lost" (docs/process.md):
\* a task that left its core blocked on an event that has come, or with a kill
\* pending, still has a waker on its way.
NoLostEvent == Sound =>
    \A t \in Slots :
      /\ state[t] = "Blocked" /\ saved_rsp[t] = "wait" /\ SwitchedOut(t)
      /\ event[t] \/ kill_pending[t]
      => WakerComing(t)

\* A task that can still run has its process in the table, so the
\* terminate_process of its exit finds it (debug_assert, task.rs:364).
TaskHasProcess == Sound =>
    \A t \in Slots :
      /\ state[t] \in {"Ready", "Running", "Blocked"}
      /\ ~\E c \in Cores : Occupies(c, t) /\ pc[c] = "exit_dead"
      => processes[pid[t]] = "Ready"


-----------------------------------------------------------------------------
(* Liveness.  A core that can execute an instruction eventually does; a      *)
(* pending interrupt and the next timer tick arrive once interrupts are on   *)
(* again, however short that is; time passes.  Nothing is assumed of user    *)
(* programs or of core 0's callers.                                          *)

Tick(c) == Sound /\ TimerTick(c) /\ UNCHANGED <<waitVars, procVars>>
Ipi(c) == Sound /\ RescheduleInterrupt(c) /\ UNCHANGED <<waitVars, procVars>>

Fairness ==
    /\ \A c \in Cores : WF_vars(CoreStep(c))
    /\ \A c \in TaskCores : SF_vars(Tick(c)) /\ SF_vars(Ipi(c))
    /\ WF_vars(Clock)

FairSpec == Spec /\ Fairness

\* A kill request ends the task, wherever it was: its slot is freed.
KilledTaskExits == \A p \in Pids :
    (p \in requested) ~> (SlotsOfPid(p) = {} \/ ~Sound)

\* A task blocked on an event that has come leaves the wait loop.
EventEndsWait == \A t \in Slots :
    (event[t] /\ saved_rsp[t] = "wait") ~> (saved_rsp[t] # "wait" \/ ~Sound)

\* "every runnable task runs once per epoch and a busy high priority task cannot
\* starve a low one" (scheduler.rs:196).
NothingStarves == \A t \in Slots :
    (state[t] = "Ready") ~> (state[t] # "Ready" \/ ~Sound)

-----------------------------------------------------------------------------
(* What comments, assertions and documents say, and the code does not keep. *)

\* core_current_task_ref asserts that a task runs on the core it is asked about
\* (debug_assert, task.rs:217).
CurrentTaskAsserted == fault # "no_current_task"

\* "The scheduler loop frees the slot once it has switched away from the dead
\* task" (task.rs:340).
FreedAfterSwitch ==
    \A t \in Slots, c \in Cores : Occupies(c, t) => state[t] # "Free"



\* "PIDs are never reused, so a stale reference is detected" (docs/process.md:48):
\* a kill request reaches no task but the one it names.
KillHitsItsTarget ==
    \A t \in Slots : kill_pending[t] /\ pid[t] # INVALID_PID => pid[t] \in requested

\* Of a sleeping task: "A kill wakes it early and the sleep loop ends"
\* (docs/process.md:285).
KillWakesSleeper ==
    \A t \in Slots :
      /\ state[t] = "Blocked" /\ saved_rsp[t] = "sleep" /\ SwitchedOut(t)
      /\ kill_pending[t]
      => \E c \in Cores : caller[c] = "kill" /\ target[c].slot = t
=============================================================================
