------------------------------ MODULE TaskSlots ------------------------------
(***************************************************************************)
(* The fixed table of task slots of process/task.rs: who owns a slot, the  *)
(* state machine its atomics implement, and the references to it that      *)
(* outlive it.  The operators here constrain only the variables of the     *)
(* table; Scheduler, Wait and Kernel conjoin them into whole handlers.     *)
(***************************************************************************)
EXTENDS Integers, FiniteSets

CONSTANTS
    MAX_TASKS,    \* slots in the table
    MAX_CORES,    \* core 0 boots and runs the kernel, 1..MAX_CORES-1 run tasks
    MaxPid,       \* bound: the pids a behaviour may hand out
    Priorities    \* the priorities new tasks are given

ASSUME TaskSlotsAssumption ==
    /\ MAX_TASKS \in Nat \ {0}
    /\ MAX_CORES \in Nat \ {0, 1}
    /\ MaxPid \in Nat \ {0}
    /\ Priorities # {} /\ Priorities \subseteq 0 .. 7

Slots == 0 .. MAX_TASKS - 1
INVALID_SLOT == MAX_TASKS
SlotIndex == Slots \cup {INVALID_SLOT}

Cores == 0 .. MAX_CORES - 1
TaskCores == Cores \ {0}

Pids == 1 .. MaxPid
INVALID_PID == MaxPid + 1

TaskState == {"Free", "Creating", "Ready", "Running", "Blocked", "Dead"}

\* What a task does next when it is switched to: the return address that
\* saved_rsp leads to.
ResumePoint == {"task_first_entry", "exit_to_user", "wait", "sleep"}

TaskRef == [slot: Slots, pid: Pids \cup {INVALID_PID}]
NoTask == [slot |-> INVALID_SLOT, pid |-> INVALID_PID]

VARIABLES
    pid, state, priority, home_core, on_cpu, kill_pending,  \* fields of TaskSlot
    saved_rsp   \* where the stack of a switched-out task continues

taskVars == <<pid, state, priority, home_core, on_cpu, kill_pending, saved_rsp>>

TaskSlotsTypeOK ==
    /\ pid \in [Slots -> Pids \cup {INVALID_PID}]
    /\ state \in [Slots -> TaskState]
    /\ priority \in [Slots -> 0 .. 7]
    /\ home_core \in [Slots -> Cores]
    /\ on_cpu \in [Slots -> BOOLEAN]
    /\ kill_pending \in [Slots -> BOOLEAN]
    /\ saved_rsp \in [Slots -> ResumePoint]

TaskSlotsInit ==
    /\ pid = [t \in Slots |-> INVALID_PID]
    /\ state = [t \in Slots |-> "Free"]
    /\ priority = [t \in Slots |-> 0]
    /\ home_core = [t \in Slots |-> 0]
    /\ on_cpu = [t \in Slots |-> FALSE]
    /\ kill_pending = [t \in Slots |-> FALSE]
    /\ saved_rsp = [t \in Slots |-> "task_first_entry"]

-----------------------------------------------------------------------------

SetState(t, to) == state' = [state EXCEPT ![t] = to]

\* Mutant: the state is stored without comparing it.
StoreState(t, from, to) == SetState(t, to)
\* The compare_exchange of TaskSlot::transition, when it succeeds.
Transition(t, from, to) == state[t] = from /\ SetState(t, to)

\* A reference to a task that is gone, or that is no longer blocked.
IsStale(ref) == pid[ref.slot] # ref.pid \/ state[ref.slot] # "Blocked"

SlotsOfPid(p) == {t \in Slots : pid[t] = p}

\* The scan takes the first slot it finds Free.  Only the holder of the
\* process manager lock allocates, so during a scan slots only become free.
FreeSlots == {t \in Slots : state[t] = "Free"}
FirstFree(t) == t \in FreeSlots /\ \A u \in FreeSlots : t <= u

\* allocate_task_slot and init_task_stack.
AllocateTaskSlot(t, p, prio, core) ==
    /\ FirstFree(t)
    /\ SetState(t, "Creating")
    /\ priority' = [priority EXCEPT ![t] = prio]
    /\ home_core' = [home_core EXCEPT ![t] = core]
    /\ on_cpu' = [on_cpu EXCEPT ![t] = FALSE]
    /\ kill_pending' = [kill_pending EXCEPT ![t] = FALSE]
    /\ saved_rsp' = [saved_rsp EXCEPT ![t] = "task_first_entry"]
    /\ pid' = [pid EXCEPT ![t] = p]

ReleaseTaskSlot(t) ==
    /\ pid' = [pid EXCEPT ![t] = INVALID_PID]
    /\ SetState(t, "Free")
    /\ UNCHANGED <<priority, home_core, on_cpu, kill_pending, saved_rsp>>
=============================================================================
