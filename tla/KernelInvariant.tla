--------------------------- MODULE KernelInvariant ---------------------------
(***************************************************************************)
(* The inductive invariant behind the safety of the task subsystem: which  *)
(* core owns which slot at which statement.                                *)
(***************************************************************************)
EXTENDS KernelProperties

\* Statements of a call that works on target[c].
HoldsTarget == {"wake_cas", "enq_count", "enq_push", "enq_kick", "kill_mark",
    "kill_ipi", "create_ready"}
KernelCoreSteps == {"kernel", "wake_all", "wake_next"} \cup HoldsTarget

\* Core 0 executes only the statements of its callers, a task core is never
\* there; a core that has a task knows its slot.
Control(c) ==
    /\ c = 0 => pc[c] \in KernelCoreSteps /\ picked[c] = INVALID_SLOT /\ caller[c] # "wait"
    /\ c # 0 => pc[c] # "kernel"
    /\ c # 0 /\ pc[c] \in OnTaskStack \cup {"run", "steal_push", "ret_on_cpu",
                                            "ret_current", "ret_reap"}
         => picked[c] \in Slots
    /\ c # 0 /\ pc[c] \in OnTaskStack \cup {"ret_on_cpu", "ret_current"}
         => current_slot[c] = picked[c]
    /\ pc[c] \in HoldsTarget => target[c] \in TaskRef

TypeInv == TypeOK /\ \A c \in Cores : Control(c)

-----------------------------------------------------------------------------

OnStack(c) == pc[c] \in OnTaskStack \cup {"ret_on_cpu"}

\* A core on a task's stack is the task's home and has on_cpu set.
StackOwned(c) == OnStack(c) => home_core[picked[c]] = c /\ on_cpu[picked[c]]

\* Statements at which the task of the core is not Running any more or may have
\* been woken already.
MayHaveBlocked == {"wait_check", "switch", "ret_on_cpu"}
WakeSteps == {"wake_cas", "enq_count", "enq_push", "enq_kick"}

\* The state of the task a core is on, at each statement.
StackState(c) ==
    LET s == state[picked[c]]
    IN /\ OnStack(c) /\ pc[c] \notin MayHaveBlocked /\ caller[c] # "wait" => s = "Running"
       /\ pc[c] = "wait_check" \/ caller[c] = "wait" => s \in {"Blocked", "Ready"}
       /\ pc[c] = "switch" => s \in {"Running", "Blocked", "Ready", "Dead"}
       /\ pc[c] = "ret_on_cpu" => s \in {"Blocked", "Ready", "Dead"}
       /\ caller[c] = "wait" => pc[c] \in WakeSteps

\* A Ready task that is between two queues has its destination as its home; one
\* that is being stolen has nobody on its stack; one that is being created is
\* still marked so.
InTransit(c) ==
    /\ pc[c] = "run" => home_core[picked[c]] = c
    /\ pc[c] = "steal_push" => ~on_cpu[picked[c]]
    /\ pc[c] \in {"enq_count", "enq_push"} => enqueue_core[c] = home_core[target[c].slot]
    /\ pc[c] = "create_ready" => caller[c] = "create" /\ state[target[c].slot] = "Creating"

Local(c) == (c # 0 => StackOwned(c) /\ StackState(c)) /\ InTransit(c)

\* One core at a time creates a task.
OneCreator == \A c, d \in Cores : caller[c] = "create" /\ caller[d] = "create" => c = d

\* The inductive invariant: what each core may rely on about the slot it holds,
\* and that a Ready task is in one place.
Own ==
    /\ \A c \in Cores : Local(c)
    /\ OneCreator
    /\ \A t \in Slots : OnePlace(t)
    /\ \A c \in Cores : OncePerQueue(c)
OwnershipInv == Sound => Own
=============================================================================
