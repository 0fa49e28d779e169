--------------------------- MODULE KernelTypeProof ---------------------------
(***************************************************************************)
(* Type correctness and control of the task subsystem, for any number of   *)
(* slots, cores and pids.                                                  *)
(***************************************************************************)
EXTENDS KernelInvariant, QueueLemmas

LEMMA Constants ==
    /\ 0 \in Cores /\ TaskCores \subseteq Cores /\ 0 \notin TaskCores
    /\ INVALID_SLOT \notin Slots /\ Slots \subseteq SlotIndex /\ INVALID_SLOT \in SlotIndex
    /\ NoTask.slot \notin Slots /\ NoTask \notin TaskRef
  BY TaskSlotsAssumption DEF Cores, TaskCores, Slots, SlotIndex, INVALID_SLOT, NoTask, TaskRef

\* The oldest task of the highest priority is picked.
LEMMA PickTaskType ==
    ASSUME TypeInv, NEW c \in Cores, PickTask(c), UNCHANGED <<waitVars, procVars>>
    PROVE  TypeInv'
<1> USE Constants DEF TypeInv, TypeOK
<1>1. PICK s \in Seq(Slots), y \in Seq(Slots), t \in Slots :
        /\ executing_tasks' = [executing_tasks EXCEPT ![c] = s]
        /\ yielding_tasks' = [yielding_tasks EXCEPT ![c] = y]
        /\ picked' = [picked EXCEPT ![c] = t]
  <2>1. executing_tasks[c] \in Seq(Slots) /\ yielding_tasks[c] \in Seq(Slots) /\ <<>> \in Seq(Slots)
    BY DEF SchedulerTypeOK
  <2> DEFINE bank == IF executing_tasks[c] = <<>> THEN yielding_tasks[c] ELSE executing_tasks[c]
  <2>2. PICK i \in DOMAIN bank :
          /\ executing_tasks' = [executing_tasks EXCEPT ![c] = RemoveAt(bank, i)]
          /\ yielding_tasks' = [yielding_tasks EXCEPT ![c] =
               IF executing_tasks[c] = <<>> THEN <<>> ELSE yielding_tasks[c]]
          /\ picked' = [picked EXCEPT ![c] = bank[i]]
    BY Zenon DEF PickTask
  <2>3. bank \in Seq(Slots)
    BY <2>1
  <2> HIDE DEF bank
  <2>4. RemoveAt(bank, i) \in Seq(Slots) /\ bank[i] \in Slots
    BY <2>3, RemoveAtRange
  <2>5. (IF executing_tasks[c] = <<>> THEN <<>> ELSE yielding_tasks[c]) \in Seq(Slots)
    BY <2>1
  <2> QED BY <2>2, <2>4, <2>5, Zenon
<1>2. /\ pc[c] = "pick" /\ pc' = [pc EXCEPT ![c] = "run"]
      /\ UNCHANGED <<taskVars, current_slot, slice_remaining, should_be_rescheduled,
                     sleeping_tasks, runnable_tasks_count, ipi, callVars, now, fault>>
  BY DEF PickTask, Goto
<1>3. TaskSlotsTypeOK' /\ SchedulerTypeOK'
  BY <1>1, <1>2, Zenon DEF TaskSlotsTypeOK, SchedulerTypeOK, Steps, SchedulerLoop, taskVars, callVars
<1>4. ASSUME NEW d \in Cores PROVE Control(d)'
  BY <1>1, <1>2 DEF SchedulerTypeOK, callVars, Control, OnTaskStack, SyscallSteps, HoldsTarget,
     KernelCoreSteps
<1> QED BY <1>3, <1>4 DEF waitVars, procVars, WaitTypeOK

\* A step that moves only core c leaves the control of the others alone.
LEMMA ControlFrame ==
    ASSUME TypeInv, NEW c \in Cores, NEW step \in Steps, pc' = [pc EXCEPT ![c] = step],
           \A d \in Cores \ {c} : /\ picked'[d] = picked[d] /\ current_slot'[d] = current_slot[d]
                                  /\ target'[d] = target[d] /\ caller'[d] = caller[d],
           Control(c)'
    PROVE  pc' \in [Cores -> Steps] /\ \A d \in Cores : Control(d)'
<1>1. pc \in [Cores -> Steps]
  BY DEF TypeInv, TypeOK, SchedulerTypeOK
<1>2. ASSUME NEW d \in Cores \ {c} PROVE Control(d)'
  BY <1>1, <1>2 DEF TypeInv, Control
<1> QED BY <1>1, <1>2

\* wake_task and core_enqueue_ready_task return to a statement of their caller.
LEMMA WakeReturnType ==
    ASSUME TypeInv, NEW c \in Cores, WakeReturn(c), pc[c] \in {"wake_cas", "enq_kick"},
           UNCHANGED loopVars
    PROVE  /\ pc' \in [Cores -> Steps] /\ \A d \in Cores : Control(d)'
           /\ target' \in [Cores -> TaskRef \cup {NoTask}] /\ caller' \in [Cores -> Callers]
           /\ enqueue_core' \in [Cores -> Cores] /\ enqueue_priority' \in [Cores -> 0 .. 7]
<1> USE Constants
<1>1. /\ target \in [Cores -> TaskRef \cup {NoTask}] /\ caller \in [Cores -> Callers]
      /\ enqueue_core \in [Cores -> Cores] /\ enqueue_priority \in [Cores -> 0 .. 7]
      /\ pc \in [Cores -> Steps] /\ Control(c)
  BY DEF TypeInv, TypeOK, SchedulerTypeOK
<1>2. /\ target' \in [Cores -> TaskRef \cup {NoTask}] /\ caller' \in [Cores -> Callers]
      /\ enqueue_core' \in [Cores -> Cores] /\ enqueue_priority' \in [Cores -> 0 .. 7]
      /\ \A d \in Cores \ {c} : target'[d] = target[d] /\ caller'[d] = caller[d]
  BY <1>1 DEF WakeReturn, ForgetCall, callVars, Callers
<1>3. AfterWake(c) \in Steps
  BY DEF AfterWake, ReturnStep, Steps, OnTaskStack, SyscallSteps
<1>4. pc' = [pc EXCEPT ![c] = AfterWake(c)] /\ pc'[c] = AfterWake(c)
  BY <1>1 DEF WakeReturn, Goto
<1>5. Control(c)'
  <2>1. CASE caller[c] = "wake_all"
    BY <1>1, <1>4, <2>1 DEF Control, AfterWake, WakeReturn, callVars, loopVars, OnTaskStack, SyscallSteps,
       HoldsTarget, KernelCoreSteps
  <2>2. CASE caller[c] = "kill"
    BY <1>1, <1>4, <2>2 DEF Control, AfterWake, WakeReturn, callVars, loopVars, OnTaskStack, SyscallSteps,
       HoldsTarget, KernelCoreSteps
  <2>3. CASE caller[c] = "wait"
    BY <1>1, <1>4, <2>3 DEF Control, AfterWake, WakeReturn, ForgetCall, loopVars, OnTaskStack, SyscallSteps,
       HoldsTarget, KernelCoreSteps
  <2>4. CASE caller[c] \notin {"wake_all", "kill", "wait"}
    <3>1. pc'[c] = ReturnStep(c) /\ caller'[c] # "wait"
      BY <1>1, <1>4, <2>4 DEF AfterWake, WakeReturn, ForgetCall, callVars
    <3> QED BY <1>1, <3>1 DEF Control, ReturnStep, loopVars, OnTaskStack, SyscallSteps,
         HoldsTarget, KernelCoreSteps
  <2> QED BY <2>1, <2>2, <2>3, <2>4
<1> QED BY <1>2, <1>3, <1>4, <1>5, ControlFrame, Zenon DEF loopVars

\* wake_task tries to make its target Ready.
LEMMA WakeCasType ==
    ASSUME TypeInv, NEW c \in Cores, WakeCas(c), UNCHANGED <<waitVars, procVars>>
    PROVE  TypeInv'
<1> USE Constants
<1>1. /\ UNCHANGED <<pid, priority, home_core, on_cpu, kill_pending, saved_rsp, loopVars,
                     should_be_rescheduled, queueVars, ipi, now, fault>>
      /\ pc[c] = "wake_cas"
  BY DEF WakeCas
<1>2. state' \in [Slots -> TaskState]
  BY DEF WakeCas, Transition, SetState, TypeInv, TypeOK, TaskSlotsTypeOK, TaskState
<1>3. /\ pc' \in [Cores -> Steps] /\ \A d \in Cores : Control(d)'
      /\ target' \in [Cores -> TaskRef \cup {NoTask}] /\ caller' \in [Cores -> Callers]
      /\ enqueue_core' \in [Cores -> Cores] /\ enqueue_priority' \in [Cores -> 0 .. 7]
  <2>1. CASE WakeReturn(c)
    BY <1>1, <2>1, WakeReturnType
  <2>2. CASE EnqueueArguments(c, target[c].slot) /\ Goto(c, "enq_count") /\ UNCHANGED <<target, caller>>
    <3>1. target[c].slot \in Slots
      BY <1>1 DEF TypeInv, Control, HoldsTarget, TaskRef
    <3>2. enqueue_core' \in [Cores -> Cores] /\ enqueue_priority' \in [Cores -> 0 .. 7]
      BY <2>2, <3>1 DEF EnqueueArguments, TypeInv, TypeOK, SchedulerTypeOK, TaskSlotsTypeOK
    <3>3. Control(c)'
      BY <1>1, <2>2 DEF Goto, TypeInv, TypeOK, SchedulerTypeOK, Control, loopVars, HoldsTarget,
         KernelCoreSteps, OnTaskStack, SyscallSteps
    <3>4. pc' \in [Cores -> Steps] /\ \A d \in Cores : Control(d)'
      BY <1>1, <2>2, <3>3, ControlFrame, Zenon DEF Goto, loopVars, Steps, OnTaskStack, SyscallSteps
    <3> QED BY <2>2, <3>2, <3>4 DEF TypeInv, TypeOK, SchedulerTypeOK
  <2> QED BY <2>1, <2>2 DEF WakeCas
<1> QED BY <1>1, <1>2, <1>3 DEF TypeInv, TypeOK, TaskSlotsTypeOK, SchedulerTypeOK, WaitTypeOK,
     waitVars, procVars, loopVars, queueVars

\* core_enqueue_ready_task interrupts the core, if it should, and returns.
LEMMA EnqueueKickType ==
    ASSUME TypeInv, NEW c \in Cores, EnqueueKick(c), UNCHANGED <<waitVars, procVars>>
    PROVE  TypeInv'
<1>1. /\ pc[c] = "enq_kick" /\ WakeReturn(c)
      /\ UNCHANGED <<taskVars, loopVars, queueVars, now, fault>>
  BY DEF EnqueueKick
<1>2. should_be_rescheduled' \in [Cores -> BOOLEAN] /\ ipi' \in [Cores -> BOOLEAN]
  BY Zenon DEF EnqueueKick, Kick, TypeInv, TypeOK, SchedulerTypeOK
<1>3. /\ pc' \in [Cores -> Steps] /\ \A d \in Cores : Control(d)'
      /\ target' \in [Cores -> TaskRef \cup {NoTask}] /\ caller' \in [Cores -> Callers]
      /\ enqueue_core' \in [Cores -> Cores] /\ enqueue_priority' \in [Cores -> 0 .. 7]
  BY <1>1, WakeReturnType
<1> QED BY <1>1, <1>2, <1>3 DEF TypeInv, TypeOK, TaskSlotsTypeOK, SchedulerTypeOK, WaitTypeOK,
     waitVars, procVars, taskVars, loopVars, queueVars

\* core_enqueue_ready_task counts the task.
LEMMA EnqueueCountType ==
    ASSUME TypeInv, NEW c \in Cores, EnqueueCount(c), UNCHANGED <<waitVars, procVars>>
    PROVE  TypeInv'
<1>1. /\ pc[c] = "enq_count" /\ pc' = [pc EXCEPT ![c] = "enq_push"]
      /\ UNCHANGED <<taskVars, loopVars, should_be_rescheduled, executing_tasks,
                   yielding_tasks, sleeping_tasks, ipi, callVars, now, fault>>
  BY DEF EnqueueCount, Goto
<1>2. runnable_tasks_count' \in [Cores -> Int]
  <2>1. enqueue_core[c] \in Cores /\ runnable_tasks_count \in [Cores -> Int]
    BY DEF TypeInv, TypeOK, SchedulerTypeOK
  <2>2. runnable_tasks_count[enqueue_core[c]] + 1 \in Int
    BY <2>1
  <2> QED BY <2>1, <2>2 DEF EnqueueCount
<1>3. Control(c)'
  BY <1>1 DEF TypeInv, TypeOK, SchedulerTypeOK, Control, loopVars, callVars, HoldsTarget,
     KernelCoreSteps, OnTaskStack, SyscallSteps
<1>4. pc' \in [Cores -> Steps] /\ \A d \in Cores : Control(d)'
  BY <1>1, <1>3, ControlFrame, Zenon DEF loopVars, callVars, Steps, OnTaskStack, SyscallSteps
<1> QED BY <1>1, <1>2, <1>4 DEF TypeInv, TypeOK, TaskSlotsTypeOK, SchedulerTypeOK, WaitTypeOK,
     waitVars, procVars, taskVars, loopVars, callVars

\* core_task_leave_run_queue keeps the counters integers.
LEMMA LeaveRunQueueType ==
    ASSUME TypeInv, NEW c, LeaveRunQueue(c)
    PROVE  runnable_tasks_count' \in [Cores -> Int]
<1>1. runnable_tasks_count \in [Cores -> Int]
  BY DEF TypeInv, TypeOK, SchedulerTypeOK
<1>2. c \in Cores => runnable_tasks_count[c] - 1 \in Int
  BY <1>1
<1> QED BY <1>1, <1>2, Zenon DEF LeaveRunQueue

\* The stolen task moves to the thief's queue.
LEMMA StealPushType ==
    ASSUME TypeInv, NEW c \in Cores, StealPush(c), UNCHANGED <<waitVars, procVars>>
    PROVE  TypeInv'
<1> USE Constants
<1>1. /\ pc[c] = "steal_push" /\ pc' = [pc EXCEPT ![c] = "pick"]
      /\ picked' = [picked EXCEPT ![c] = INVALID_SLOT]
      /\ home_core' = [home_core EXCEPT ![picked[c]] = c]
      /\ UNCHANGED <<pid, state, priority, on_cpu, kill_pending, saved_rsp, current_slot,
                     slice_remaining, should_be_rescheduled, yielding_tasks,
                     sleeping_tasks, ipi, callVars, now, fault>>
  BY Zenon DEF StealPush, Goto
<1>2. c # 0 /\ picked[c] \in Slots /\ executing_tasks[c] \in Seq(Slots) /\ home_core[picked[c]] \in Cores
  BY <1>1, Zenon DEF TypeInv, TypeOK, SchedulerTypeOK, TaskSlotsTypeOK, Control, KernelCoreSteps, HoldsTarget
<1>3. executing_tasks' \in [Cores -> Seq(Slots)]
  <2>1. Append(executing_tasks[c], picked[c]) \in Seq(Slots)
    BY <1>2, AppendRange
  <2> QED BY <2>1 DEF StealPush, TypeInv, TypeOK, SchedulerTypeOK
<1>4. runnable_tasks_count' \in [Cores -> Int]
  <2>1. runnable_tasks_count \in [Cores -> Int]
    BY DEF TypeInv, TypeOK, SchedulerTypeOK
  <2>2. \A d \in Cores : /\ runnable_tasks_count[d] - 1 \in Int /\ runnable_tasks_count[d] + 1 \in Int
                           /\ (runnable_tasks_count[d] - 1) + 1 \in Int
    BY <2>1
  <2> DEFINE less == [runnable_tasks_count EXCEPT ![home_core[picked[c]]] = @ - 1]
  <2>3. less \in [Cores -> Int]
    BY <2>1, <2>2, Zenon
  <2>4. runnable_tasks_count' = [less EXCEPT ![c] = less[c] + 1]
    BY <1>2, <2>1 DEF StealPush
  <2> HIDE DEF less
  <2>5. less[c] + 1 \in Int
    BY <2>3
  <2> QED BY <2>3, <2>4, <2>5
<1>5. pc \in [Cores -> Steps] /\ picked \in [Cores -> SlotIndex]
      /\ current_slot \in [Cores -> SlotIndex] /\ target \in [Cores -> TaskRef \cup {NoTask}]
      /\ caller \in [Cores -> Callers]
  BY DEF TypeInv, TypeOK, SchedulerTypeOK
<1>6. Control(c)'
  BY <1>1, <1>2, <1>3, <1>4, <1>5 DEF TypeInv, Control, waitVars, procVars, taskVars, loopVars, queueVars, callVars, HoldsTarget, KernelCoreSteps, OnTaskStack, SyscallSteps
<1>7. pc' \in [Cores -> Steps] /\ \A d \in Cores : Control(d)'
  BY <1>1, <1>2, <1>3, <1>4, <1>5, <1>6, ControlFrame, Zenon DEF waitVars, procVars, taskVars, loopVars, queueVars, callVars, Steps, SchedulerLoop, OnTaskStack, SyscallSteps
<1> QED BY <1>1, <1>2, <1>3, <1>4, <1>7, Zenon DEF TypeInv, TypeOK, TaskSlotsTypeOK, SchedulerTypeOK, WaitTypeOK, waitVars, procVars, taskVars, loopVars, queueVars, callVars

\* A picked task continues where it was switched out.
LEMMA RunTaskType ==
    ASSUME TypeInv, NEW c \in Cores, RunTask(c), UNCHANGED <<waitVars, procVars>>
    PROVE  TypeInv'
<1> USE Constants
<1>1. /\ pc[c] = "run" /\ pc' = [pc EXCEPT ![c] = saved_rsp[picked[c]]]
      /\ state' = [state EXCEPT ![picked[c]] = "Running"]
      /\ on_cpu' = [on_cpu EXCEPT ![picked[c]] = TRUE]
      /\ current_slot' = [current_slot EXCEPT ![c] = picked[c]]
      /\ slice_remaining' = [slice_remaining EXCEPT ![c] = priority[picked[c]] + 1]
      /\ should_be_rescheduled' = [should_be_rescheduled EXCEPT ![c] = FALSE]
      /\ UNCHANGED <<pid, priority, home_core, kill_pending, saved_rsp, picked, queueVars,
                     ipi, callVars, now, fault>>
  BY DEF RunTask, Goto, SetState, SliceTicks
<1>2. c # 0 /\ picked[c] \in Slots /\ saved_rsp[picked[c]] \in ResumePoint /\ priority[picked[c]] \in 0 .. 7
  BY <1>1, Zenon DEF TypeInv, TypeOK, SchedulerTypeOK, TaskSlotsTypeOK, Control, KernelCoreSteps, HoldsTarget
<1>3. state' \in [Slots -> TaskState] /\ slice_remaining' \in [Cores -> Nat]
  <2>1. priority[picked[c]] + 1 \in Nat
    BY <1>2
  <2> QED BY <1>1, <2>1, Zenon DEF TypeInv, TypeOK, SchedulerTypeOK, TaskSlotsTypeOK, TaskState
<1>4. ResumePoint \subseteq OnTaskStack
  BY DEF ResumePoint, OnTaskStack, SyscallSteps
<1>5. pc \in [Cores -> Steps] /\ picked \in [Cores -> SlotIndex]
      /\ current_slot \in [Cores -> SlotIndex] /\ target \in [Cores -> TaskRef \cup {NoTask}]
      /\ caller \in [Cores -> Callers]
  BY DEF TypeInv, TypeOK, SchedulerTypeOK
<1>6. Control(c)'
  BY <1>1, <1>2, <1>3, <1>4, <1>5 DEF TypeInv, Control, waitVars, procVars, taskVars, loopVars, queueVars, callVars, HoldsTarget, KernelCoreSteps, OnTaskStack, SyscallSteps, ResumePoint
<1>7. pc' \in [Cores -> Steps] /\ \A d \in Cores : Control(d)'
  BY <1>1, <1>2, <1>3, <1>4, <1>5, <1>6, ControlFrame, Zenon DEF waitVars, procVars, taskVars, loopVars, queueVars, callVars, Steps, SchedulerLoop, OnTaskStack, SyscallSteps
<1> QED BY <1>1, <1>2, <1>3, <1>4, <1>7, Zenon DEF TypeInv, TypeOK, TaskSlotsTypeOK, SchedulerTypeOK, WaitTypeOK, waitVars, procVars, taskVars, loopVars, queueVars, callVars

\* A task that leaves its core may be requeued there.
LEMMA SwitchContextType ==
    ASSUME TypeInv, NEW c \in Cores, SwitchContext(c), UNCHANGED <<waitVars, procVars>>
    PROVE  TypeInv'
<1> USE Constants
<1>1. /\ pc[c] \in {"switch", "switch_yield"} /\ pc' = [pc EXCEPT ![c] = "ret_on_cpu"]
      /\ UNCHANGED <<pid, priority, home_core, on_cpu, kill_pending, saved_rsp, loopVars,
                     should_be_rescheduled, sleeping_tasks, runnable_tasks_count, ipi,
                     callVars, now, fault>>
  BY DEF SwitchContext, Goto
<1>2. current_slot[c] \in Slots /\ executing_tasks[c] \in Seq(Slots) /\ yielding_tasks[c] \in Seq(Slots)
  BY <1>1, Zenon DEF TypeInv, TypeOK, SchedulerTypeOK, Control, KernelCoreSteps, HoldsTarget, OnTaskStack
<1>3. /\ Append(executing_tasks[c], current_slot[c]) \in Seq(Slots)
      /\ Append(yielding_tasks[c], current_slot[c]) \in Seq(Slots)
  BY <1>2, AppendRange
<1>4. executing_tasks' \in [Cores -> Seq(Slots)] /\ yielding_tasks' \in [Cores -> Seq(Slots)]
  BY <1>3, Zenon DEF SwitchContext, TypeInv, TypeOK, SchedulerTypeOK
<1>5. state' \in [Slots -> TaskState]
  BY DEF SwitchContext, SetState, TypeInv, TypeOK, TaskSlotsTypeOK, TaskState
<1>6. pc \in [Cores -> Steps] /\ picked \in [Cores -> SlotIndex]
      /\ current_slot \in [Cores -> SlotIndex] /\ target \in [Cores -> TaskRef \cup {NoTask}]
      /\ caller \in [Cores -> Callers]
  BY DEF TypeInv, TypeOK, SchedulerTypeOK
<1>7. Control(c)'
  BY <1>1, <1>2, <1>3, <1>4, <1>5, <1>6, Zenon DEF TypeInv, Control, waitVars, procVars, taskVars, loopVars, queueVars, callVars, HoldsTarget, KernelCoreSteps, OnTaskStack, SyscallSteps
<1>8. pc' \in [Cores -> Steps] /\ \A d \in Cores : Control(d)'
  BY <1>1, <1>2, <1>3, <1>4, <1>5, <1>6, <1>7, ControlFrame, Zenon DEF waitVars, procVars, taskVars, loopVars, queueVars, callVars, Steps, SchedulerLoop, OnTaskStack, SyscallSteps
<1> QED BY <1>1, <1>2, <1>3, <1>4, <1>5, <1>8, Zenon DEF TypeInv, TypeOK, TaskSlotsTypeOK, SchedulerTypeOK, WaitTypeOK, waitVars, procVars, taskVars, loopVars, queueVars, callVars

\* A task leaves a bank of another core.
LEMMA StealType ==
    ASSUME TypeInv, NEW c \in Cores, Steal(c), UNCHANGED <<waitVars, procVars>>
    PROVE  TypeInv'
<1> USE Constants
<1>1. /\ pc[c] = "steal" /\ pc' = [pc EXCEPT ![c] = "steal_push"]
      /\ UNCHANGED <<taskVars, current_slot, slice_remaining, should_be_rescheduled,
                     sleeping_tasks, runnable_tasks_count, ipi, callVars, now, fault>>
  BY DEF Steal, Goto
<1>2. PICK victim \in Cores, e \in Seq(Slots), y \in Seq(Slots), t \in Slots :
        /\ executing_tasks' = [executing_tasks EXCEPT ![victim] = e]
        /\ yielding_tasks' = [yielding_tasks EXCEPT ![victim] = y]
        /\ picked' = [picked EXCEPT ![c] = t]
  <2>1. PICK v \in TaskCores :
          \/ \E i \in DOMAIN executing_tasks[v] :
               /\ executing_tasks' = [executing_tasks EXCEPT ![v] = RemoveAt(executing_tasks[v], i)]
               /\ picked' = [picked EXCEPT ![c] = executing_tasks[v][i]]
               /\ UNCHANGED yielding_tasks
          \/ \E i \in DOMAIN yielding_tasks[v] :
               /\ yielding_tasks' = [yielding_tasks EXCEPT ![v] = RemoveAt(yielding_tasks[v], i)]
               /\ picked' = [picked EXCEPT ![c] = yielding_tasks[v][i]]
               /\ UNCHANGED executing_tasks
    BY Zenon DEF Steal
  <2>2. /\ v \in Cores /\ executing_tasks[v] \in Seq(Slots) /\ yielding_tasks[v] \in Seq(Slots)
        /\ executing_tasks = [executing_tasks EXCEPT ![v] = executing_tasks[v]]
        /\ yielding_tasks = [yielding_tasks EXCEPT ![v] = yielding_tasks[v]]
    BY DEF TypeInv, TypeOK, SchedulerTypeOK
  <2>3. /\ \A i \in DOMAIN executing_tasks[v] :
             RemoveAt(executing_tasks[v], i) \in Seq(Slots) /\ executing_tasks[v][i] \in Slots
        /\ \A i \in DOMAIN yielding_tasks[v] :
             RemoveAt(yielding_tasks[v], i) \in Seq(Slots) /\ yielding_tasks[v][i] \in Slots
    BY <2>2, RemoveAtRange
  <2> QED BY <2>1, <2>2, <2>3
<1>3. pc \in [Cores -> Steps] /\ picked \in [Cores -> SlotIndex]
      /\ current_slot \in [Cores -> SlotIndex] /\ target \in [Cores -> TaskRef \cup {NoTask}]
      /\ caller \in [Cores -> Callers]
  BY DEF TypeInv, TypeOK, SchedulerTypeOK
<1>4. Control(c)'
  BY <1>1, <1>2, <1>3 DEF TypeInv, Control, waitVars, procVars, taskVars, loopVars, queueVars, callVars, HoldsTarget, KernelCoreSteps, OnTaskStack, SyscallSteps
<1>5. pc' \in [Cores -> Steps] /\ \A d \in Cores : Control(d)'
  BY <1>1, <1>2, <1>3, <1>4, ControlFrame, Zenon DEF waitVars, procVars, taskVars, loopVars, queueVars, callVars, Steps, SchedulerLoop, OnTaskStack, SyscallSteps
<1> QED BY <1>1, <1>2, <1>5, Zenon DEF TypeInv, TypeOK, TaskSlotsTypeOK, SchedulerTypeOK, WaitTypeOK, waitVars, procVars, taskVars, loopVars, queueVars, callVars

\* An entry for the running task is a valid reference.
LEMMA SelfType ==
    ASSUME TypeInv, NEW c \in Cores, picked[c] \in Slots
    PROVE  Self(c) \in TaskRef
  BY DEF TypeInv, TypeOK, TaskSlotsTypeOK, Self, TaskRef

\* Leaving a wait or sleep loop resets its locals.
LEMMA LeaveLoopType ==
    ASSUME TypeInv, NEW c \in Cores, LeaveLoop(c)
    PROVE  /\ saved_rsp' \in [Slots -> ResumePoint] /\ core_id' \in [Slots -> Cores]
           /\ wake_time' \in [Slots -> Times]
<1>1. 0 \in Times /\ 0 \in Cores /\ "exit_to_user" \in ResumePoint
  BY SchedulerAssumption, Constants DEF Times, ResumePoint
<1>2. saved_rsp \in [Slots -> ResumePoint] /\ core_id \in [Slots -> Cores] /\ wake_time \in [Slots -> Times]
  BY DEF TypeInv, TypeOK, TaskSlotsTypeOK, WaitTypeOK
<1> QED BY <1>1, <1>2, Zenon DEF LeaveLoop

\* The head of the wait loop.
LEMMA WaitConditionType ==
    ASSUME TypeInv, NEW c \in Cores, WaitCondition(c), UNCHANGED procVars
    PROVE  TypeInv'
<1> USE Constants
<1>1. /\ pc[c] = "wait"
      /\ UNCHANGED <<pid, state, priority, home_core, on_cpu, kill_pending, loopVars,
                     should_be_rescheduled, queueVars, ipi, callVars, now, waiters, woken>>
  BY DEF WaitCondition
<1>2. c # 0 /\ picked[c] \in Slots
  BY <1>1, Zenon DEF TypeInv, TypeOK, SchedulerTypeOK, Control, KernelCoreSteps, HoldsTarget, OnTaskStack, SyscallSteps
<1>3. PICK step \in {"wait", "exit_to_user", "wait_block"} : pc' = [pc EXCEPT ![c] = step]
  <2>1. pc = [pc EXCEPT ![c] = "wait"]
    BY <1>1 DEF TypeInv, TypeOK, SchedulerTypeOK
  <2> QED BY <2>1 DEF WaitCondition, LeaveLoop, Goto
<1>4. saved_rsp' \in [Slots -> ResumePoint] /\ core_id' \in [Slots -> Cores] /\ wake_time' \in [Slots -> Times]
  <2>1. LeaveLoop(c) \/ UNCHANGED <<saved_rsp, core_id, wake_time>>
    BY Zenon DEF WaitCondition
  <2> QED BY <2>1, LeaveLoopType DEF TypeInv, TypeOK, TaskSlotsTypeOK, WaitTypeOK
<1>5. event' \in [Slots -> BOOLEAN]
  <2>1. event' = event \/ event' = [event EXCEPT ![picked[c]] = FALSE]
    BY Zenon DEF WaitCondition
  <2> QED BY <2>1, Zenon DEF TypeInv, TypeOK, WaitTypeOK
<1>6. fault' \in Faults
  BY Zenon DEF WaitCondition, StaleCoreFault, TypeInv, TypeOK, SchedulerTypeOK, Faults
<1>7. pc \in [Cores -> Steps] /\ picked \in [Cores -> SlotIndex]
      /\ current_slot \in [Cores -> SlotIndex] /\ target \in [Cores -> TaskRef \cup {NoTask}]
      /\ caller \in [Cores -> Callers]
  BY DEF TypeInv, TypeOK, SchedulerTypeOK
<1>8. Control(c)'
  BY <1>1, <1>2, <1>3, <1>4, <1>5, <1>6, <1>7 DEF TypeInv, Control, waitVars, procVars, taskVars, loopVars, queueVars, callVars, HoldsTarget, KernelCoreSteps, OnTaskStack, SyscallSteps
<1>9. pc' \in [Cores -> Steps] /\ \A d \in Cores : Control(d)'
  BY <1>1, <1>2, <1>3, <1>4, <1>5, <1>6, <1>7, <1>8, ControlFrame, Zenon DEF waitVars, procVars, taskVars, loopVars, queueVars, callVars, Steps, SchedulerLoop, OnTaskStack, SyscallSteps
<1> QED BY <1>1, <1>2, <1>3, <1>4, <1>5, <1>6, <1>9, Zenon DEF TypeInv, TypeOK, TaskSlotsTypeOK, SchedulerTypeOK, WaitTypeOK, waitVars, procVars, taskVars, loopVars, queueVars, callVars

\* The head of the sleep loop.
LEMMA SleepConditionType ==
    ASSUME TypeInv, NEW c \in Cores, SleepCondition(c), UNCHANGED procVars
    PROVE  TypeInv'
<1> USE Constants
<1>1. /\ pc[c] = "sleep"
      /\ UNCHANGED <<pid, state, priority, home_core, on_cpu, kill_pending, loopVars,
                     should_be_rescheduled, queueVars, ipi, callVars, now, waiters, woken>>
  BY Zenon DEF SleepCondition
<1>2. c # 0 /\ picked[c] \in Slots
  BY <1>1, Zenon DEF TypeInv, TypeOK, SchedulerTypeOK, Control, KernelCoreSteps, HoldsTarget, OnTaskStack, SyscallSteps
<1>3. PICK step \in {"sleep", "exit_to_user", "sleep_block"} : pc' = [pc EXCEPT ![c] = step]
  <2>1. pc = [pc EXCEPT ![c] = "sleep"]
    BY <1>1 DEF TypeInv, TypeOK, SchedulerTypeOK
  <2> QED BY <2>1, Zenon DEF SleepCondition, LeaveLoop, Goto
<1>4. saved_rsp' \in [Slots -> ResumePoint] /\ core_id' \in [Slots -> Cores] /\ wake_time' \in [Slots -> Times]
  <2>1. LeaveLoop(c) \/ UNCHANGED <<saved_rsp, core_id, wake_time>>
    BY Zenon DEF SleepCondition
  <2> QED BY <2>1, LeaveLoopType DEF TypeInv, TypeOK, TaskSlotsTypeOK, WaitTypeOK
<1>5. event' \in [Slots -> BOOLEAN]
  <2>1. event' = event \/ event' = [event EXCEPT ![picked[c]] = FALSE]
    BY DEF SleepCondition
  <2> QED BY <2>1, Zenon DEF TypeInv, TypeOK, WaitTypeOK
<1>6. fault' \in Faults
  BY Zenon DEF SleepCondition, StaleCoreFault, TypeInv, TypeOK, SchedulerTypeOK, Faults
<1>7. pc \in [Cores -> Steps] /\ picked \in [Cores -> SlotIndex]
      /\ current_slot \in [Cores -> SlotIndex] /\ target \in [Cores -> TaskRef \cup {NoTask}]
      /\ caller \in [Cores -> Callers]
  BY DEF TypeInv, TypeOK, SchedulerTypeOK
<1>8. Control(c)'
  BY <1>1, <1>2, <1>3, <1>4, <1>5, <1>6, <1>7 DEF TypeInv, Control, waitVars, procVars, taskVars, loopVars, queueVars, callVars, HoldsTarget, KernelCoreSteps, OnTaskStack, SyscallSteps
<1>9. pc' \in [Cores -> Steps] /\ \A d \in Cores : Control(d)'
  BY <1>1, <1>2, <1>3, <1>4, <1>5, <1>6, <1>7, <1>8, ControlFrame, Zenon DEF waitVars, procVars, taskVars, loopVars, queueVars, callVars, Steps, SchedulerLoop, OnTaskStack, SyscallSteps
<1> QED BY <1>1, <1>2, <1>3, <1>4, <1>5, <1>6, <1>9, Zenon DEF TypeInv, TypeOK, TaskSlotsTypeOK, SchedulerTypeOK, WaitTypeOK, waitVars, procVars, taskVars, loopVars, queueVars, callVars

\* A task enters the waiter list.
LEMMA WaitBlockType ==
    ASSUME TypeInv, NEW c \in Cores, WaitBlock(c), UNCHANGED procVars
    PROVE  TypeInv'
<1> USE Constants
<1>1. /\ pc[c] = "wait_block"
      /\ UNCHANGED <<pid, priority, home_core, on_cpu, kill_pending, saved_rsp, loopVars,
                     should_be_rescheduled, executing_tasks, yielding_tasks,
                     sleeping_tasks, ipi, callVars, now, woken, event, core_id, wake_time>>
  BY Zenon DEF WaitBlock
<1>2. c # 0 /\ picked[c] \in Slots
  BY <1>1, Zenon DEF TypeInv, TypeOK, SchedulerTypeOK, Control, KernelCoreSteps, HoldsTarget, OnTaskStack, SyscallSteps
<1>3. PICK step \in {"wait_block", "wait_check"} : pc' = [pc EXCEPT ![c] = step]
  <2>1. pc = [pc EXCEPT ![c] = "wait_block"]
    BY <1>1 DEF TypeInv, TypeOK, SchedulerTypeOK
  <2> QED BY <2>1, Zenon DEF WaitBlock, Goto
<1>4. waiters' \in [Cells -> TaskRef \cup {NoTask}]
  <2>1. waiters \in [Cells -> TaskRef \cup {NoTask}] /\ Self(c) \in TaskRef
    BY <1>2, SelfType DEF TypeInv, TypeOK, WaitTypeOK
  <2>2. PurgedWaiters \in [Cells -> TaskRef \cup {NoTask}]
    BY <2>1 DEF PurgedWaiters
  <2>3. waiters' = waiters \/ \E i \in Cells : waiters' = [PurgedWaiters EXCEPT ![i] = Self(c)]
    BY DEF WaitBlock
  <2> QED BY <2>1, <2>2, <2>3
<1>5. state' \in [Slots -> TaskState] /\ fault' \in Faults
  BY Zenon DEF WaitBlock, Transition, SetState, TaskState, Faults, TypeInv, TypeOK, TaskSlotsTypeOK, SchedulerTypeOK
<1>6. runnable_tasks_count' \in [Cores -> Int]
  <2>1. LeaveRunQueue(home_core[picked[c]]) \/ UNCHANGED runnable_tasks_count
    BY DEF WaitBlock
  <2> QED BY <2>1, LeaveRunQueueType, Zenon DEF TypeInv, TypeOK, SchedulerTypeOK
<1>7. pc \in [Cores -> Steps] /\ picked \in [Cores -> SlotIndex]
      /\ current_slot \in [Cores -> SlotIndex] /\ target \in [Cores -> TaskRef \cup {NoTask}]
      /\ caller \in [Cores -> Callers]
  BY DEF TypeInv, TypeOK, SchedulerTypeOK
<1>8. Control(c)'
  BY <1>1, <1>2, <1>3, <1>4, <1>5, <1>6, <1>7 DEF TypeInv, Control, waitVars, procVars, taskVars, loopVars, queueVars, callVars, HoldsTarget, KernelCoreSteps, OnTaskStack, SyscallSteps
<1>9. pc' \in [Cores -> Steps] /\ \A d \in Cores : Control(d)'
  BY <1>1, <1>2, <1>3, <1>4, <1>5, <1>6, <1>7, <1>8, ControlFrame, Zenon DEF waitVars, procVars, taskVars, loopVars, queueVars, callVars, Steps, SchedulerLoop, OnTaskStack, SyscallSteps
<1> QED BY <1>1, <1>2, <1>3, <1>4, <1>5, <1>6, <1>9, Zenon DEF TypeInv, TypeOK, TaskSlotsTypeOK, SchedulerTypeOK, WaitTypeOK, waitVars, procVars, taskVars, loopVars, queueVars, callVars

\* A task enters the sleeper array.
LEMMA SleepBlockType ==
    ASSUME TypeInv, NEW c \in Cores, SleepBlock(c), UNCHANGED procVars
    PROVE  TypeInv'
<1> USE Constants
<1>1. /\ pc[c] = "sleep_block"
      /\ UNCHANGED <<pid, priority, home_core, on_cpu, kill_pending, saved_rsp, loopVars,
                     should_be_rescheduled, executing_tasks, yielding_tasks, ipi,
                     callVars, now, waitVars>>
  BY Zenon DEF SleepBlock
<1>2. c # 0 /\ picked[c] \in Slots
  BY <1>1, Zenon DEF TypeInv, TypeOK, SchedulerTypeOK, Control, KernelCoreSteps, HoldsTarget, OnTaskStack, SyscallSteps
<1>3. PICK step \in {"sleep_block", "switch"} : pc' = [pc EXCEPT ![c] = step]
  <2>1. pc = [pc EXCEPT ![c] = "sleep_block"]
    BY <1>1 DEF TypeInv, TypeOK, SchedulerTypeOK
  <2> QED BY <2>1, Zenon DEF SleepBlock, Goto
<1>4. sleeping_tasks' \in [Cores -> [Cells -> Sleeper \cup {NoSleeper}]]
  <2> DEFINE home == home_core[picked[c]]
  <2> DEFINE entry == [ref |-> Self(c), wake_time |-> wake_time[picked[c]]]
  <2>1. /\ sleeping_tasks \in [Cores -> [Cells -> Sleeper \cup {NoSleeper}]]
        /\ home \in Cores /\ wake_time[picked[c]] \in Times
    BY <1>2 DEF TypeInv, TypeOK, SchedulerTypeOK, TaskSlotsTypeOK, WaitTypeOK
  <2>2. entry \in Sleeper
    BY <1>2, <2>1, SelfType DEF Sleeper
  <2>3. sleeping_tasks[home] \in [Cells -> Sleeper \cup {NoSleeper}]
    BY <2>1
  <2>4. PurgedSleepers(home) \in [Cells -> Sleeper \cup {NoSleeper}]
    BY <2>3 DEF PurgedSleepers
  <2>5. \/ sleeping_tasks' = sleeping_tasks
        \/ \E i \in Cells : sleeping_tasks' =
             [sleeping_tasks EXCEPT ![home] = [PurgedSleepers(home) EXCEPT ![i] = entry]]
    BY Zenon DEF SleepBlock
  <2> HIDE DEF home, entry
  <2>6. \A i \in Cells : [PurgedSleepers(home) EXCEPT ![i] = entry] \in [Cells -> Sleeper \cup {NoSleeper}]
    BY <2>2, <2>4
  <2> QED BY <2>1, <2>5, <2>6
<1>5. state' \in [Slots -> TaskState] /\ fault' \in Faults
  BY Zenon DEF SleepBlock, Transition, SetState, TaskState, Faults, TypeInv, TypeOK, TaskSlotsTypeOK, SchedulerTypeOK
<1>6. runnable_tasks_count' \in [Cores -> Int]
  <2>1. LeaveRunQueue(home_core[picked[c]]) \/ UNCHANGED runnable_tasks_count
    BY Zenon DEF SleepBlock
  <2> QED BY <2>1, LeaveRunQueueType, Zenon DEF TypeInv, TypeOK, SchedulerTypeOK
<1>7. pc \in [Cores -> Steps] /\ picked \in [Cores -> SlotIndex]
      /\ current_slot \in [Cores -> SlotIndex] /\ target \in [Cores -> TaskRef \cup {NoTask}]
      /\ caller \in [Cores -> Callers]
  BY DEF TypeInv, TypeOK, SchedulerTypeOK
<1>8. Control(c)'
  BY <1>1, <1>2, <1>3, <1>4, <1>5, <1>6, <1>7 DEF TypeInv, Control, waitVars, procVars, taskVars, loopVars, queueVars, callVars, HoldsTarget, KernelCoreSteps, OnTaskStack, SyscallSteps
<1>9. pc' \in [Cores -> Steps] /\ \A d \in Cores : Control(d)'
  BY <1>1, <1>2, <1>3, <1>4, <1>5, <1>6, <1>7, <1>8, ControlFrame, Zenon DEF waitVars, procVars, taskVars, loopVars, queueVars, callVars, Steps, SchedulerLoop, OnTaskStack, SyscallSteps
<1> QED BY <1>1, <1>2, <1>3, <1>4, <1>5, <1>6, <1>9, Zenon DEF TypeInv, TypeOK, TaskSlotsTypeOK, SchedulerTypeOK, WaitTypeOK, waitVars, procVars, taskVars, loopVars, queueVars, callVars

\* The second look of the wait loop.
LEMMA WaitCheckType ==
    ASSUME TypeInv, NEW c \in Cores, WaitCheck(c), UNCHANGED procVars
    PROVE  TypeInv'
<1> USE Constants
<1>1. /\ pc[c] = "wait_check"
      /\ UNCHANGED <<taskVars, loopVars, should_be_rescheduled, queueVars, ipi, now,
                     fault, woken, event, core_id, wake_time, enqueue_core, enqueue_priority>>
  BY DEF WaitCheck, callVars
<1>2. c # 0 /\ picked[c] \in Slots /\ Self(c) \in TaskRef
  BY <1>1, SelfType, Zenon DEF TypeInv, TypeOK, SchedulerTypeOK, Control, KernelCoreSteps, HoldsTarget, OnTaskStack, SyscallSteps
<1>3. PICK step \in {"wake_cas", "switch"} :
        /\ pc' = [pc EXCEPT ![c] = step]
        /\ \/ target' = [target EXCEPT ![c] = Self(c)] /\ caller' = [caller EXCEPT ![c] = "wait"]
           \/ step = "switch" /\ UNCHANGED <<target, caller>>
  BY DEF WaitCheck, Goto, callVars
<1>4. target' \in [Cores -> TaskRef \cup {NoTask}]
  BY <1>2, <1>3, Zenon DEF TypeInv, TypeOK, SchedulerTypeOK
<1>5. caller' \in [Cores -> Callers]
  <2>1. caller' = caller \/ caller' = [caller EXCEPT ![c] = "wait"]
    BY <1>3
  <2> QED BY <2>1, Zenon DEF TypeInv, TypeOK, SchedulerTypeOK, Callers
<1>6. waiters' \in [Cells -> TaskRef \cup {NoTask}]
  <2>1. waiters' = waiters \/ \E i \in Cells : waiters' = [waiters EXCEPT ![i] = NoTask]
    BY DEF WaitCheck
  <2> QED BY <2>1 DEF TypeInv, TypeOK, WaitTypeOK
<1>7. pc \in [Cores -> Steps] /\ picked \in [Cores -> SlotIndex]
      /\ current_slot \in [Cores -> SlotIndex] /\ target \in [Cores -> TaskRef \cup {NoTask}]
      /\ caller \in [Cores -> Callers]
  BY DEF TypeInv, TypeOK, SchedulerTypeOK
<1>8. Control(c)'
  BY <1>1, <1>2, <1>3, <1>4, <1>5, <1>6, <1>7 DEF TypeInv, Control, waitVars, procVars, taskVars, loopVars, queueVars, callVars, HoldsTarget, KernelCoreSteps, OnTaskStack, SyscallSteps
<1>9. pc' \in [Cores -> Steps] /\ \A d \in Cores : Control(d)'
  BY <1>1, <1>2, <1>3, <1>4, <1>5, <1>6, <1>7, <1>8, ControlFrame, Zenon DEF waitVars, procVars, taskVars, loopVars, queueVars, callVars, Steps, SchedulerLoop, OnTaskStack, SyscallSteps
<1> QED BY <1>1, <1>2, <1>3, <1>4, <1>5, <1>6, <1>9, Zenon DEF TypeInv, TypeOK, TaskSlotsTypeOK, SchedulerTypeOK, WaitTypeOK, waitVars, procVars, taskVars, loopVars, queueVars, callVars

\* wake_all takes the next copied entry.
LEMMA WakeNextType ==
    ASSUME TypeInv, NEW c \in Cores, WakeNext(c), UNCHANGED procVars
    PROVE  TypeInv'
<1> USE Constants
<1>1. /\ pc[c] = "wake_next"
      /\ UNCHANGED <<taskVars, loopVars, should_be_rescheduled, queueVars, ipi, caller,
                     enqueue_core, enqueue_priority, now, fault, waiters, event, core_id, wake_time>>
  BY DEF WakeNext
<1>2. PICK i \in Cells, step \in {"wake_cas", "wake_next"}, ref \in TaskRef \cup {NoTask} :
        /\ woken' = [woken EXCEPT ![c][i] = NoTask]
        /\ pc' = [pc EXCEPT ![c] = step] /\ target' = [target EXCEPT ![c] = ref]
        /\ step = "wake_cas" => ref # NoTask
  <2>1. \A i \in Cells : woken[c][i] \in TaskRef \cup {NoTask}
    BY DEF TypeInv, TypeOK, WaitTypeOK
  <2> QED BY <2>1, Zenon DEF WakeNext, Goto
<1>3. ref \in TaskRef \/ ref = NoTask
  OBVIOUS
<1>4. woken' \in [Cores -> [Cells -> TaskRef \cup {NoTask}]]
  BY <1>2 DEF TypeInv, TypeOK, WaitTypeOK
<1>5. target' \in [Cores -> TaskRef \cup {NoTask}]
  BY <1>2 DEF TypeInv, TypeOK, SchedulerTypeOK
<1>6. pc \in [Cores -> Steps] /\ picked \in [Cores -> SlotIndex]
      /\ current_slot \in [Cores -> SlotIndex] /\ target \in [Cores -> TaskRef \cup {NoTask}]
      /\ caller \in [Cores -> Callers]
  BY DEF TypeInv, TypeOK, SchedulerTypeOK
<1>7. Control(c)'
  BY <1>1, <1>2, <1>3, <1>4, <1>5, <1>6 DEF TypeInv, Control, waitVars, procVars, taskVars, loopVars, queueVars, callVars, HoldsTarget, KernelCoreSteps, OnTaskStack, SyscallSteps
<1>8. pc' \in [Cores -> Steps] /\ \A d \in Cores : Control(d)'
  BY <1>1, <1>2, <1>3, <1>4, <1>5, <1>6, <1>7, ControlFrame, Zenon DEF waitVars, procVars, taskVars, loopVars, queueVars, callVars, Steps, SchedulerLoop, OnTaskStack, SyscallSteps
<1> QED BY <1>1, <1>2, <1>3, <1>4, <1>5, <1>8, Zenon DEF TypeInv, TypeOK, TaskSlotsTypeOK, SchedulerTypeOK, WaitTypeOK, waitVars, procVars, taskVars, loopVars, queueVars, callVars

\* request_kill returns.
LEMMA KillIpiType ==
    ASSUME TypeInv, NEW c \in Cores, KillIpi(c)
    PROVE  TypeInv'
<1> USE Constants
<1>1. /\ pc[c] = "kill_ipi" /\ pc' = [pc EXCEPT ![c] = ReturnStep(c)] /\ ForgetCall(c)
      /\ UNCHANGED <<taskVars, loopVars, queueVars, now, fault, waitVars, procVars>>
  BY Zenon DEF KillIpi, Goto
<1>2. should_be_rescheduled' \in [Cores -> BOOLEAN] /\ ipi' \in [Cores -> BOOLEAN]
  BY Zenon DEF KillIpi, Kick, TypeInv, TypeOK, SchedulerTypeOK
<1>3. /\ target' = [target EXCEPT ![c] = NoTask] /\ caller' = [caller EXCEPT ![c] = "none"]
      /\ target' \in [Cores -> TaskRef \cup {NoTask}] /\ caller' \in [Cores -> Callers]
      /\ enqueue_core' \in [Cores -> Cores] /\ enqueue_priority' \in [Cores -> 0 .. 7]
  BY <1>1 DEF ForgetCall, TypeInv, TypeOK, SchedulerTypeOK, Callers
<1>4. (c = 0 => ReturnStep(c) = "kernel") /\ (c # 0 => ReturnStep(c) = "exit_to_user")
  BY DEF ReturnStep
<1>5. pc \in [Cores -> Steps] /\ picked \in [Cores -> SlotIndex]
      /\ current_slot \in [Cores -> SlotIndex] /\ target \in [Cores -> TaskRef \cup {NoTask}]
      /\ caller \in [Cores -> Callers]
  BY DEF TypeInv, TypeOK, SchedulerTypeOK
<1>6. Control(c)'
  BY <1>1, <1>2, <1>3, <1>4, <1>5 DEF TypeInv, Control, waitVars, procVars, taskVars, loopVars, queueVars, callVars, HoldsTarget, KernelCoreSteps, OnTaskStack, SyscallSteps
<1>7. pc' \in [Cores -> Steps] /\ \A d \in Cores : Control(d)'
  BY <1>1, <1>2, <1>3, <1>4, <1>5, <1>6, ControlFrame, Zenon DEF waitVars, procVars, taskVars, loopVars, queueVars, callVars, Steps, SchedulerLoop, OnTaskStack, SyscallSteps
<1> QED BY <1>1, <1>2, <1>3, <1>4, <1>7, Zenon DEF TypeInv, TypeOK, TaskSlotsTypeOK, SchedulerTypeOK, WaitTypeOK, waitVars, procVars, taskVars, loopVars, queueVars, callVars

\* The check before ring 3.
LEMMA ExitToUserType ==
    ASSUME TypeInv, NEW c \in Cores, ExitToUser(c)
    PROVE  TypeInv'
<1> USE Constants
<1>1. /\ pc[c] = "exit_to_user"
      /\ UNCHANGED <<taskVars, loopVars, queueVars, ipi, callVars, now, fault, waitVars, procVars>>
  BY Zenon DEF ExitToUser
<1>2. PICK step \in {"exit_killed", "switch", "user"} : pc' = [pc EXCEPT ![c] = step]
  BY DEF ExitToUser, Goto
<1>3. should_be_rescheduled' \in [Cores -> BOOLEAN]
  BY Zenon DEF ExitToUser, TypeInv, TypeOK, SchedulerTypeOK
<1>4. pc \in [Cores -> Steps] /\ picked \in [Cores -> SlotIndex]
      /\ current_slot \in [Cores -> SlotIndex] /\ target \in [Cores -> TaskRef \cup {NoTask}]
      /\ caller \in [Cores -> Callers]
  BY DEF TypeInv, TypeOK, SchedulerTypeOK
<1>5. Control(c)'
  BY <1>1, <1>2, <1>3, <1>4 DEF TypeInv, Control, waitVars, procVars, taskVars, loopVars, queueVars, callVars, HoldsTarget, KernelCoreSteps, OnTaskStack, SyscallSteps
<1>6. pc' \in [Cores -> Steps] /\ \A d \in Cores : Control(d)'
  BY <1>1, <1>2, <1>3, <1>4, <1>5, ControlFrame, Zenon DEF waitVars, procVars, taskVars, loopVars, queueVars, callVars, Steps, SchedulerLoop, OnTaskStack, SyscallSteps
<1> QED BY <1>1, <1>2, <1>3, <1>6, Zenon DEF TypeInv, TypeOK, TaskSlotsTypeOK, SchedulerTypeOK, WaitTypeOK, waitVars, procVars, taskVars, loopVars, queueVars, callVars

\* The slot of an exiting task dies.
LEMMA ExitDeadType ==
    ASSUME TypeInv, NEW c \in Cores, ExitDead(c)
    PROVE  TypeInv'
<1> USE Constants
<1>1. /\ pc[c] = "exit_dead" /\ pc' = [pc EXCEPT ![c] = "switch"]
      /\ UNCHANGED <<pid, priority, home_core, on_cpu, kill_pending, saved_rsp, loopVars,
                     should_be_rescheduled, executing_tasks, yielding_tasks, sleeping_tasks,
                     ipi, callVars, now, fault, waitVars, procVars>>
  BY Zenon DEF ExitDead, Goto
<1>2. state' \in [Slots -> TaskState]
  BY Zenon DEF ExitDead, SetState, TypeInv, TypeOK, TaskSlotsTypeOK, TaskState
<1>3. runnable_tasks_count' \in [Cores -> Int]
  BY LeaveRunQueueType, Zenon DEF ExitDead
<1>4. pc \in [Cores -> Steps] /\ picked \in [Cores -> SlotIndex]
      /\ current_slot \in [Cores -> SlotIndex] /\ target \in [Cores -> TaskRef \cup {NoTask}]
      /\ caller \in [Cores -> Callers]
  BY DEF TypeInv, TypeOK, SchedulerTypeOK
<1>5. Control(c)'
  BY <1>1, <1>2, <1>3, <1>4 DEF TypeInv, Control, waitVars, procVars, taskVars, loopVars, queueVars, callVars, HoldsTarget, KernelCoreSteps, OnTaskStack, SyscallSteps
<1>6. pc' \in [Cores -> Steps] /\ \A d \in Cores : Control(d)'
  BY <1>1, <1>2, <1>3, <1>4, <1>5, ControlFrame, Zenon DEF waitVars, procVars, taskVars, loopVars, queueVars, callVars, Steps, SchedulerLoop, OnTaskStack, SyscallSteps
<1> QED BY <1>1, <1>2, <1>3, <1>6, Zenon DEF TypeInv, TypeOK, TaskSlotsTypeOK, SchedulerTypeOK, WaitTypeOK, waitVars, procVars, taskVars, loopVars, queueVars, callVars

\* A task starts to sleep.
LEMMA SysSleepType ==
    ASSUME TypeInv, NEW c \in Cores, SysSleep(c), UNCHANGED procVars
    PROVE  TypeInv'
<1> USE Constants
<1>1. /\ pc[c] = "user" /\ pc' = [pc EXCEPT ![c] = "sleep"]
      /\ UNCHANGED <<pid, state, priority, home_core, on_cpu, kill_pending, loopVars,
                     should_be_rescheduled, queueVars, ipi, callVars, now, fault,
                     waiters, woken, event>>
  BY DEF SysSleep, Goto
<1>2. wake_time' \in [Slots -> Times]
  <2>1. now \in Times /\ wake_time \in [Slots -> Times]
    BY DEF TypeInv, TypeOK, SchedulerTypeOK, WaitTypeOK
  <2>2. \A w \in now .. MaxTime : w \in Times
    BY <2>1, SchedulerAssumption DEF Times
  <2> QED BY <2>1, <2>2, Zenon DEF SysSleep
<1>3. saved_rsp' \in [Slots -> ResumePoint] /\ core_id' \in [Slots -> Cores]
  BY Zenon DEF SysSleep, TypeInv, TypeOK, TaskSlotsTypeOK, WaitTypeOK, ResumePoint
<1>4. pc \in [Cores -> Steps] /\ picked \in [Cores -> SlotIndex]
      /\ current_slot \in [Cores -> SlotIndex] /\ target \in [Cores -> TaskRef \cup {NoTask}]
      /\ caller \in [Cores -> Callers]
  BY DEF TypeInv, TypeOK, SchedulerTypeOK
<1>5. Control(c)'
  BY <1>1, <1>2, <1>3, <1>4 DEF TypeInv, Control, waitVars, procVars, taskVars, loopVars, queueVars, callVars, HoldsTarget, KernelCoreSteps, OnTaskStack, SyscallSteps
<1>6. pc' \in [Cores -> Steps] /\ \A d \in Cores : Control(d)'
  BY <1>1, <1>2, <1>3, <1>4, <1>5, ControlFrame, Zenon DEF waitVars, procVars, taskVars, loopVars, queueVars, callVars, Steps, SchedulerLoop, OnTaskStack, SyscallSteps
<1> QED BY <1>1, <1>2, <1>3, <1>6, Zenon DEF TypeInv, TypeOK, TaskSlotsTypeOK, SchedulerTypeOK, WaitTypeOK, waitVars, procVars, taskVars, loopVars, queueVars, callVars

\* A task slot is reserved.
LEMMA SysCreateType ==
    ASSUME TypeInv, NEW c \in Cores, SysCreate(c)
    PROVE  TypeInv'
<1> USE Constants
<1>1. /\ pc' = [pc EXCEPT ![c] = "create_ready"] /\ caller' = [caller EXCEPT ![c] = "create"]
      /\ new_pid' = new_pid + 1 /\ new_pid <= MaxPid
      /\ UNCHANGED <<loopVars, should_be_rescheduled, queueVars, ipi, enqueue_core,
                     enqueue_priority, now, fault, waiters, woken, core_id, wake_time,
                     processes, requested>>
  BY DEF SysCreate, Goto
<1>2. pc[c] \in {"kernel", "user"} /\ (c = 0 <=> pc[c] = "kernel")
  BY Zenon DEF SysCreate, MayCreate, TypeInv, Control
<1>3. new_pid \in Pids /\ new_pid' \in 1 .. MaxPid + 1
  BY <1>1, TaskSlotsAssumption DEF TypeInv, TypeOK, Pids
<1>4. PICK t \in Slots, prio \in 0 .. 7, core \in Cores :
        /\ AllocateTaskSlot(t, new_pid, prio, core)
        /\ target' = [target EXCEPT ![c] = [slot |-> t, pid |-> new_pid]]
        /\ event' = [event EXCEPT ![t] = FALSE]
  BY TaskSlotsAssumption, Zenon DEF SysCreate
<1>5. TaskSlotsTypeOK'
  BY <1>3, <1>4 DEF AllocateTaskSlot, SetState, TypeInv, TypeOK, TaskSlotsTypeOK, TaskState, ResumePoint
<1>6. [slot |-> t, pid |-> new_pid] \in TaskRef
  BY <1>3 DEF TaskRef
<1>7. target' \in [Cores -> TaskRef \cup {NoTask}] /\ caller' \in [Cores -> Callers] /\ event' \in [Slots -> BOOLEAN]
  BY <1>1, <1>4, <1>6, Zenon DEF TypeInv, TypeOK, SchedulerTypeOK, WaitTypeOK, Callers
<1>8. pc \in [Cores -> Steps] /\ picked \in [Cores -> SlotIndex]
      /\ current_slot \in [Cores -> SlotIndex] /\ target \in [Cores -> TaskRef \cup {NoTask}]
      /\ caller \in [Cores -> Callers]
  BY DEF TypeInv, TypeOK, SchedulerTypeOK
<1>9. Control(c)'
  BY <1>1, <1>2, <1>3, <1>4, <1>5, <1>6, <1>7, <1>8, Zenon DEF TypeInv, Control, waitVars, procVars, taskVars, loopVars, queueVars, callVars, HoldsTarget, KernelCoreSteps, OnTaskStack, SyscallSteps
<1>10. pc' \in [Cores -> Steps] /\ \A d \in Cores : Control(d)'
  BY <1>1, <1>2, <1>3, <1>4, <1>5, <1>6, <1>7, <1>8, <1>9, ControlFrame, Zenon DEF waitVars, procVars, taskVars, loopVars, queueVars, callVars, Steps, SchedulerLoop, OnTaskStack, SyscallSteps
<1> QED BY <1>1, <1>2, <1>3, <1>4, <1>5, <1>6, <1>7, <1>10, Zenon DEF TypeInv, TypeOK, TaskSlotsTypeOK, SchedulerTypeOK, WaitTypeOK, waitVars, procVars, taskVars, loopVars, queueVars, callVars

\* request_kill finds the slot of a pid.
LEMMA RequestKillType ==
    ASSUME TypeInv, NEW p \in Pids, RequestKill(p)
    PROVE  TypeInv'
<1> USE Constants
<1>1. /\ pc[0] = "kernel" /\ pc' = [pc EXCEPT ![0] = "kill_mark"] /\ caller' = [caller EXCEPT ![0] = "kill"]
      /\ requested' = requested \cup {p}
      /\ UNCHANGED <<taskVars, loopVars, should_be_rescheduled, queueVars, ipi, enqueue_core,
                     enqueue_priority, now, fault, waitVars, new_pid, processes>>
  BY DEF RequestKill, Goto
<1>2. PICK t \in Slots : target' = [target EXCEPT ![0] = [slot |-> t, pid |-> p]]
  BY Zenon DEF RequestKill, SlotsOfPid
<1>3. [slot |-> t, pid |-> p] \in TaskRef
  BY DEF TaskRef
<1>4. target' \in [Cores -> TaskRef \cup {NoTask}] /\ caller' \in [Cores -> Callers]
  BY <1>1, <1>2, <1>3, Zenon DEF TypeInv, TypeOK, SchedulerTypeOK, Callers
<1>5. pc \in [Cores -> Steps] /\ picked \in [Cores -> SlotIndex]
      /\ current_slot \in [Cores -> SlotIndex] /\ target \in [Cores -> TaskRef \cup {NoTask}]
      /\ caller \in [Cores -> Callers]
  BY DEF TypeInv, TypeOK, SchedulerTypeOK
<1>6. Control(0)'
  BY <1>1, <1>2, <1>3, <1>4, <1>5, Zenon DEF TypeInv, Control, waitVars, procVars, taskVars, loopVars, queueVars, callVars, HoldsTarget, KernelCoreSteps, OnTaskStack, SyscallSteps
<1>7. pc' \in [Cores -> Steps] /\ \A d \in Cores : Control(d)'
  BY <1>1, <1>2, <1>3, <1>4, <1>5, <1>6, ControlFrame, Zenon DEF waitVars, procVars, taskVars, loopVars, queueVars, callVars, Steps, SchedulerLoop, OnTaskStack, SyscallSteps
<1> QED BY <1>1, <1>2, <1>3, <1>4, <1>7, Zenon DEF TypeInv, TypeOK, TaskSlotsTypeOK, SchedulerTypeOK, WaitTypeOK, waitVars, procVars, taskVars, loopVars, queueVars, callVars

\* Terminated processes leave the process table.
LEMMA CleanupDeadType ==
    ASSUME TypeInv, CleanupDead
    PROVE  TypeInv'
<1>1. UNCHANGED <<taskVars, schedVars, waitVars, new_pid, requested>>
  BY DEF CleanupDead
<1>2. processes' \in [Pids -> {"absent", "Ready", "Terminated"}]
  BY DEF CleanupDead, TypeInv, TypeOK
<1>3. \A c \in Cores : Control(c)'
  BY <1>1, Zenon DEF TypeInv, Control, schedVars, loopVars, callVars
<1> QED BY <1>1, <1>2, <1>3 DEF TypeInv, TypeOK, TaskSlotsTypeOK, SchedulerTypeOK, WaitTypeOK,
     taskVars, schedVars, loopVars, queueVars, callVars, waitVars

\* Time passes.
LEMMA ClockType ==
    ASSUME TypeInv, Clock
    PROVE  TypeInv'
<1>1. UNCHANGED <<taskVars, pc, loopVars, should_be_rescheduled, queueVars, ipi,
                  callVars, fault, waitVars, procVars>>
  BY DEF Clock, ClockAdvance
<1>2. now' \in Times
  BY SchedulerAssumption DEF Clock, ClockAdvance, TypeInv, TypeOK, SchedulerTypeOK, Times
<1>3. \A c \in Cores : Control(c)'
  BY <1>1 DEF TypeInv, Control, loopVars, callVars
<1> QED BY <1>1, <1>2, <1>3 DEF TypeInv, TypeOK, TaskSlotsTypeOK, SchedulerTypeOK, WaitTypeOK,
     taskVars, loopVars, queueVars, callVars, waitVars, procVars

\* Nothing changes.
LEMMA StutterType ==
    ASSUME TypeInv, UNCHANGED vars
    PROVE  TypeInv'
<1>1. \A c \in Cores : Control(c)'
  BY Zenon DEF TypeInv, Control, vars, schedVars, loopVars, callVars
<1> QED BY <1>1 DEF TypeInv, TypeOK, TaskSlotsTypeOK, SchedulerTypeOK, WaitTypeOK,
     vars, taskVars, schedVars, loopVars, queueVars, callVars, waitVars, procVars

\* The table after boot.
LEMMA InitType == Init => TypeInv
<1> SUFFICES ASSUME Init PROVE TypeInv
  OBVIOUS
<1> USE Constants, TaskSlotsAssumption, SchedulerAssumption
<1>1. TaskSlotsTypeOK
  BY DEF Init, TaskSlotsInit, TaskSlotsTypeOK, TaskState, ResumePoint
<1>2. SchedulerTypeOK
  <2>1. <<>> \in Seq(Slots) /\ 0 \in Times
    BY DEF Times
  <2> QED BY <2>1 DEF Init, SchedulerInit, SchedulerTypeOK, Steps, SchedulerLoop, Callers, Faults
<1>3. WaitTypeOK
  BY DEF Init, WaitInit, WaitTypeOK, Times
<1>4. new_pid \in 1 .. MaxPid + 1 /\ requested \subseteq Pids
      /\ processes \in [Pids -> {"absent", "Ready", "Terminated"}]
  BY DEF Init
<1>5. ASSUME NEW c \in Cores PROVE Control(c)
  BY DEF Init, SchedulerInit, Control, KernelCoreSteps, HoldsTarget, OnTaskStack, SyscallSteps
<1> QED BY <1>1, <1>2, <1>3, <1>4, <1>5 DEF TypeInv, TypeOK

\* A tick wakes finitely many tasks.
LEMMA DueFinite ==
    ASSUME NEW c
    PROVE  IsFiniteSet(Due(c)) /\ Due(c) \subseteq Slots
<1>1. Due(c) \subseteq Slots
  BY DEF Due
<1>2. IsFiniteSet(Slots)
  BY FS_Interval, TaskSlotsAssumption DEF Slots
<1> QED BY <1>1, <1>2, FS_Subset

\* The timer wakes due sleepers and ends the slice.
LEMMA TimerTickType ==
    ASSUME TypeInv, NEW c \in Cores, TimerTick(c), UNCHANGED <<waitVars, procVars>>
    PROVE  TypeInv'
<1> USE Constants
<1>1. /\ pc[c] \in InterruptsEnabled
      /\ UNCHANGED <<pid, priority, home_core, on_cpu, kill_pending, saved_rsp, picked,
                     current_slot, yielding_tasks, ipi, callVars, now>>
  BY DEF TimerTick
<1>2. PICK step \in Steps :
        /\ pc' = [pc EXCEPT ![c] = step]
        /\ step = pc[c] \/ (pc[c] = "user" /\ step = "exit_to_user") \/ (pc[c] = "halt" /\ step = "pick")
  <2>1. pc[c] \in Steps /\ "exit_to_user" \in Steps /\ "pick" \in Steps
    BY DEF TypeInv, TypeOK, SchedulerTypeOK, Steps, OnTaskStack, SchedulerLoop
  <2> QED BY <2>1, Zenon DEF TimerTick, InterruptReturn, Goto
<1>3. step \in Steps
  OBVIOUS
<1>4. executing_tasks' \in [Cores -> Seq(Slots)] /\ runnable_tasks_count' \in [Cores -> Int]
  <2>1. IsFiniteSet(Due(c)) /\ Due(c) \subseteq Slots
    BY DueFinite
  <2>2. PICK w \in SetToSeqs(Due(c)) :
          /\ executing_tasks' = [executing_tasks EXCEPT ![c] = executing_tasks[c] \o w]
          /\ runnable_tasks_count' =
               [runnable_tasks_count EXCEPT ![c] = runnable_tasks_count[c] + Len(w)]
    BY Zenon DEF TimerTick
  <2>3. w \in Seq(Slots)
    BY <2>1, SetToSeqsRange
  <2>4. executing_tasks[c] \in Seq(Slots) /\ runnable_tasks_count[c] \in Int
    BY DEF TypeInv, TypeOK, SchedulerTypeOK
  <2>5. executing_tasks[c] \o w \in Seq(Slots) /\ runnable_tasks_count[c] + Len(w) \in Int
    BY <2>3, <2>4, ConcatRange
  <2> QED BY <2>2, <2>5 DEF TypeInv, TypeOK, SchedulerTypeOK
<1>5. slice_remaining' \in [Cores -> Nat]
  <2>1. PICK n : slice_remaining' = [slice_remaining EXCEPT ![c] = n] /\
          \/ n = slice_remaining[c]
          \/ n = slice_remaining[c] - 1 /\ ~(slice_remaining[c] <= 1)
          \/ n = 0
          \/ current_slot[c] # INVALID_SLOT /\ n = priority[current_slot[c]] + 1
    BY Zenon DEF TimerTick, SliceTicks
  <2>2. slice_remaining[c] \in Nat /\ current_slot[c] \in SlotIndex
    BY DEF TypeInv, TypeOK, SchedulerTypeOK
  <2>3. current_slot[c] # INVALID_SLOT => priority[current_slot[c]] \in 0 .. 7
    BY <2>2 DEF SlotIndex, TypeInv, TypeOK, TaskSlotsTypeOK
  <2>4. n \in Nat
    BY <2>1, <2>2, <2>3
  <2> QED BY <2>1, <2>4, Zenon DEF TypeInv, TypeOK, SchedulerTypeOK
<1>6. should_be_rescheduled' \in [Cores -> BOOLEAN]
  <2>1. PICK b \in BOOLEAN : should_be_rescheduled' = [should_be_rescheduled EXCEPT ![c] = b]
    BY Zenon DEF TimerTick
  <2> QED BY <2>1 DEF TypeInv, TypeOK, SchedulerTypeOK
<1>7. sleeping_tasks' \in [Cores -> [Cells -> Sleeper \cup {NoSleeper}]]
  <2>1. sleeping_tasks[c] \in [Cells -> Sleeper \cup {NoSleeper}]
    BY DEF TypeInv, TypeOK, SchedulerTypeOK
  <2>2. \A kept : SleepersAfterTick(c, kept) \in [Cells -> Sleeper \cup {NoSleeper}]
    BY <2>1 DEF SleepersAfterTick
  <2>3. PICK kept : sleeping_tasks' = [sleeping_tasks EXCEPT ![c] = SleepersAfterTick(c, kept)]
    BY Zenon DEF TimerTick
  <2> QED BY <2>2, <2>3 DEF TypeInv, TypeOK, SchedulerTypeOK
<1>8. state' \in [Slots -> TaskState] /\ fault' \in Faults
  BY Zenon DEF TimerTick, TypeInv, TypeOK, TaskSlotsTypeOK, SchedulerTypeOK, TaskState, Faults
<1>9. pc \in [Cores -> Steps] /\ Control(c)
  BY DEF TypeInv, TypeOK, SchedulerTypeOK
<1>10. Control(c)'
  <2>1. pc'[c] = step
    BY <1>2, <1>9
  <2>2. c = 0 => pc[c] \notin {"user", "halt"}
    BY <1>9 DEF Control, KernelCoreSteps, HoldsTarget
  <2>3. UNCHANGED <<picked, current_slot, target, caller>>
    BY <1>1 DEF callVars
  <2>4. CASE step = pc[c]
    BY <1>9, <2>1, <2>3, <2>4 DEF Control
  <2>5. CASE pc[c] = "user" /\ step = "exit_to_user"
    BY <1>9, <2>1, <2>2, <2>3, <2>5 DEF Control, HoldsTarget, OnTaskStack
  <2>6. CASE pc[c] = "halt" /\ step = "pick"
    BY <1>9, <2>1, <2>2, <2>3, <2>6 DEF Control, HoldsTarget, OnTaskStack, SyscallSteps
  <2> QED BY <1>2, <2>4, <2>5, <2>6
<1>11. pc' \in [Cores -> Steps] /\ \A d \in Cores : Control(d)'
  BY <1>1, <1>2, <1>3, <1>10, ControlFrame, Zenon DEF callVars
<1> QED BY <1>1, <1>2, <1>3, <1>4, <1>5, <1>6, <1>7, <1>8, <1>11, Zenon DEF TypeInv, TypeOK, TaskSlotsTypeOK, SchedulerTypeOK, WaitTypeOK, waitVars, procVars, taskVars, loopVars, queueVars, callVars

\* Both banks are empty.
LEMMA PickNothingType ==
    ASSUME TypeInv, NEW c \in Cores, PickNothing(c), UNCHANGED <<waitVars, procVars>>
    PROVE  TypeInv'
<1> USE Constants
<1>1. /\ pc[c] = "pick"
      /\ UNCHANGED <<taskVars, loopVars, should_be_rescheduled, queueVars, ipi, callVars, now, fault>>
  BY Zenon DEF PickNothing
<1>2. PICK step \in {"steal", "halt"} : pc' = [pc EXCEPT ![c] = step]
  BY Zenon DEF PickNothing, Goto
<1>3. pc \in [Cores -> Steps] /\ picked \in [Cores -> SlotIndex]
      /\ current_slot \in [Cores -> SlotIndex] /\ target \in [Cores -> TaskRef \cup {NoTask}]
      /\ caller \in [Cores -> Callers]
  BY DEF TypeInv, TypeOK, SchedulerTypeOK
<1>4. Control(c)'
  BY <1>1, <1>2, <1>3 DEF TypeInv, Control, waitVars, procVars, taskVars, loopVars, queueVars, callVars, HoldsTarget, KernelCoreSteps, OnTaskStack, SyscallSteps
<1>5. pc' \in [Cores -> Steps] /\ \A d \in Cores : Control(d)'
  BY <1>1, <1>2, <1>3, <1>4, ControlFrame, Zenon DEF waitVars, procVars, taskVars, loopVars, queueVars, callVars, Steps, SchedulerLoop, OnTaskStack, SyscallSteps
<1> QED BY <1>1, <1>2, <1>5, Zenon DEF TypeInv, TypeOK, TaskSlotsTypeOK, SchedulerTypeOK, WaitTypeOK, waitVars, procVars, taskVars, loopVars, queueVars, callVars

\* There is nothing to steal.
LEMMA StealNothingType ==
    ASSUME TypeInv, NEW c \in Cores, StealNothing(c), UNCHANGED <<waitVars, procVars>>
    PROVE  TypeInv'
<1> USE Constants
<1>1. /\ pc[c] = "steal" /\ pc' = [pc EXCEPT ![c] = "halt"]
      /\ UNCHANGED <<taskVars, loopVars, should_be_rescheduled, queueVars, ipi, callVars, now, fault>>
  BY DEF StealNothing, Goto
<1>2. pc \in [Cores -> Steps] /\ picked \in [Cores -> SlotIndex]
      /\ current_slot \in [Cores -> SlotIndex] /\ target \in [Cores -> TaskRef \cup {NoTask}]
      /\ caller \in [Cores -> Callers]
  BY DEF TypeInv, TypeOK, SchedulerTypeOK
<1>3. Control(c)'
  BY <1>1, <1>2 DEF TypeInv, Control, waitVars, procVars, taskVars, loopVars, queueVars, callVars, HoldsTarget, KernelCoreSteps, OnTaskStack, SyscallSteps
<1>4. pc' \in [Cores -> Steps] /\ \A d \in Cores : Control(d)'
  BY <1>1, <1>2, <1>3, ControlFrame, Zenon DEF waitVars, procVars, taskVars, loopVars, queueVars, callVars, Steps, SchedulerLoop, OnTaskStack, SyscallSteps
<1> QED BY <1>1, <1>4, Zenon DEF TypeInv, TypeOK, TaskSlotsTypeOK, SchedulerTypeOK, WaitTypeOK, waitVars, procVars, taskVars, loopVars, queueVars, callVars

\* The core has left the stack of its task.
LEMMA ReturnOnCpuType ==
    ASSUME TypeInv, NEW c \in Cores, ReturnOnCpu(c), UNCHANGED <<waitVars, procVars>>
    PROVE  TypeInv'
<1> USE Constants
<1>1. /\ pc[c] = "ret_on_cpu" /\ pc' = [pc EXCEPT ![c] = "ret_current"]
      /\ on_cpu' = [on_cpu EXCEPT ![picked[c]] = FALSE]
      /\ UNCHANGED <<pid, state, priority, home_core, kill_pending, saved_rsp, loopVars,
                     should_be_rescheduled, queueVars, ipi, callVars, now, fault>>
  BY DEF ReturnOnCpu, Goto
<1>2. pc \in [Cores -> Steps] /\ picked \in [Cores -> SlotIndex]
      /\ current_slot \in [Cores -> SlotIndex] /\ target \in [Cores -> TaskRef \cup {NoTask}]
      /\ caller \in [Cores -> Callers]
  BY DEF TypeInv, TypeOK, SchedulerTypeOK
<1>3. Control(c)'
  BY <1>1, <1>2 DEF TypeInv, Control, waitVars, procVars, taskVars, loopVars, queueVars, callVars, HoldsTarget, KernelCoreSteps, OnTaskStack, SyscallSteps
<1>4. pc' \in [Cores -> Steps] /\ \A d \in Cores : Control(d)'
  BY <1>1, <1>2, <1>3, ControlFrame, Zenon DEF waitVars, procVars, taskVars, loopVars, queueVars, callVars, Steps, SchedulerLoop, OnTaskStack, SyscallSteps
<1> QED BY <1>1, <1>4, Zenon DEF TypeInv, TypeOK, TaskSlotsTypeOK, SchedulerTypeOK, WaitTypeOK, waitVars, procVars, taskVars, loopVars, queueVars, callVars

\* The core has no current task.
LEMMA ReturnCurrentType ==
    ASSUME TypeInv, NEW c \in Cores, ReturnCurrent(c), UNCHANGED <<waitVars, procVars>>
    PROVE  TypeInv'
<1> USE Constants
<1>1. /\ pc[c] = "ret_current" /\ pc' = [pc EXCEPT ![c] = "ret_reap"]
      /\ current_slot' = [current_slot EXCEPT ![c] = INVALID_SLOT]
      /\ UNCHANGED <<taskVars, picked, slice_remaining, should_be_rescheduled, queueVars,
                     ipi, callVars, now, fault>>
  BY DEF ReturnCurrent, Goto
<1>2. pc \in [Cores -> Steps] /\ picked \in [Cores -> SlotIndex]
      /\ current_slot \in [Cores -> SlotIndex] /\ target \in [Cores -> TaskRef \cup {NoTask}]
      /\ caller \in [Cores -> Callers]
  BY DEF TypeInv, TypeOK, SchedulerTypeOK
<1>3. Control(c)'
  BY <1>1, <1>2 DEF TypeInv, Control, waitVars, procVars, taskVars, loopVars, queueVars, callVars, HoldsTarget, KernelCoreSteps, OnTaskStack, SyscallSteps
<1>4. pc' \in [Cores -> Steps] /\ \A d \in Cores : Control(d)'
  BY <1>1, <1>2, <1>3, ControlFrame, Zenon DEF waitVars, procVars, taskVars, loopVars, queueVars, callVars, Steps, SchedulerLoop, OnTaskStack, SyscallSteps
<1> QED BY <1>1, <1>4, Zenon DEF TypeInv, TypeOK, TaskSlotsTypeOK, SchedulerTypeOK, WaitTypeOK, waitVars, procVars, taskVars, loopVars, queueVars, callVars

\* A dead slot is released.
LEMMA ReturnReapType ==
    ASSUME TypeInv, NEW c \in Cores, ReturnReap(c), UNCHANGED <<waitVars, procVars>>
    PROVE  TypeInv'
<1> USE Constants
<1>1. /\ pc[c] = "ret_reap" /\ pc' = [pc EXCEPT ![c] = "pick"]
      /\ picked' = [picked EXCEPT ![c] = INVALID_SLOT]
      /\ UNCHANGED <<current_slot, slice_remaining, should_be_rescheduled, queueVars, ipi,
                     callVars, now>>
  BY DEF ReturnReap, Goto
<1>2. TaskSlotsTypeOK' /\ fault' \in Faults
  <2>1. ReleaseTaskSlot(picked[c]) \/ UNCHANGED taskVars
    BY DEF ReturnReap
  <2>2. TaskSlotsTypeOK'
    BY <2>1, Zenon DEF ReleaseTaskSlot, SetState, TypeInv, TypeOK, TaskSlotsTypeOK, TaskState, taskVars
  <2>3. fault' \in Faults
    BY Zenon DEF ReturnReap, TypeInv, TypeOK, SchedulerTypeOK, Faults
  <2> QED BY <2>2, <2>3
<1>3. pc \in [Cores -> Steps] /\ picked \in [Cores -> SlotIndex]
      /\ current_slot \in [Cores -> SlotIndex] /\ target \in [Cores -> TaskRef \cup {NoTask}]
      /\ caller \in [Cores -> Callers]
  BY DEF TypeInv, TypeOK, SchedulerTypeOK
<1>4. Control(c)'
  BY <1>1, <1>2, <1>3 DEF TypeInv, Control, waitVars, procVars, taskVars, loopVars, queueVars, callVars, HoldsTarget, KernelCoreSteps, OnTaskStack, SyscallSteps
<1>5. pc' \in [Cores -> Steps] /\ \A d \in Cores : Control(d)'
  BY <1>1, <1>2, <1>3, <1>4, ControlFrame, Zenon DEF waitVars, procVars, taskVars, loopVars, queueVars, callVars, Steps, SchedulerLoop, OnTaskStack, SyscallSteps
<1> QED BY <1>1, <1>2, <1>5, Zenon DEF TypeInv, TypeOK, TaskSlotsTypeOK, SchedulerTypeOK, WaitTypeOK, waitVars, procVars, taskVars, loopVars, queueVars, callVars

\* core_enqueue_ready_task queues the task.
LEMMA EnqueuePushType ==
    ASSUME TypeInv, NEW c \in Cores, EnqueuePush(c), UNCHANGED <<waitVars, procVars>>
    PROVE  TypeInv'
<1> USE Constants
<1>1. /\ pc[c] = "enq_push" /\ pc' = [pc EXCEPT ![c] = "enq_kick"]
      /\ UNCHANGED <<taskVars, loopVars, should_be_rescheduled, yielding_tasks,
                     sleeping_tasks, runnable_tasks_count, ipi, callVars, now, fault>>
  BY DEF EnqueuePush, Goto
<1>2. target[c].slot \in Slots /\ executing_tasks[enqueue_core[c]] \in Seq(Slots)
  BY <1>1 DEF TypeInv, TypeOK, SchedulerTypeOK, Control, HoldsTarget, TaskRef
<1>3. Append(executing_tasks[enqueue_core[c]], target[c].slot) \in Seq(Slots)
  BY <1>2, AppendRange, Zenon
<1>4. executing_tasks' \in [Cores -> Seq(Slots)]
  BY <1>3 DEF EnqueuePush, TypeInv, TypeOK, SchedulerTypeOK
<1>5. pc \in [Cores -> Steps] /\ picked \in [Cores -> SlotIndex]
      /\ current_slot \in [Cores -> SlotIndex] /\ target \in [Cores -> TaskRef \cup {NoTask}]
      /\ caller \in [Cores -> Callers]
  BY DEF TypeInv, TypeOK, SchedulerTypeOK
<1>6. Control(c)'
  BY <1>1, <1>2, <1>3, <1>4, <1>5, Zenon DEF TypeInv, Control, waitVars, procVars, taskVars, loopVars, queueVars, callVars, HoldsTarget, KernelCoreSteps, OnTaskStack, SyscallSteps
<1>7. pc' \in [Cores -> Steps] /\ \A d \in Cores : Control(d)'
  BY <1>1, <1>2, <1>3, <1>4, <1>5, <1>6, ControlFrame, Zenon DEF waitVars, procVars, taskVars, loopVars, queueVars, callVars, Steps, SchedulerLoop, OnTaskStack, SyscallSteps
<1> QED BY <1>1, <1>2, <1>3, <1>4, <1>7, Zenon DEF TypeInv, TypeOK, TaskSlotsTypeOK, SchedulerTypeOK, WaitTypeOK, waitVars, procVars, taskVars, loopVars, queueVars, callVars

\* wake_all copies and empties the waiter list.
LEMMA WakeAllType ==
    ASSUME TypeInv, NEW c \in Cores, WakeAll(c), UNCHANGED procVars
    PROVE  TypeInv'
<1> USE Constants
<1>1. /\ pc[c] = "wake_all" /\ pc' = [pc EXCEPT ![c] = "wake_next"]
      /\ woken' = [woken EXCEPT ![c] = waiters]
      /\ waiters' = [i \in Cells |-> NoTask]
      /\ caller' = [caller EXCEPT ![c] = "wake_all"]
      /\ UNCHANGED <<taskVars, loopVars, should_be_rescheduled, queueVars, ipi, target,
                     enqueue_core, enqueue_priority, now, fault, event, core_id, wake_time>>
  BY DEF WakeAll, Goto
<1>2. caller' \in [Cores -> Callers]
  BY <1>1 DEF TypeInv, TypeOK, SchedulerTypeOK, Callers
<1>3. pc \in [Cores -> Steps] /\ picked \in [Cores -> SlotIndex]
      /\ current_slot \in [Cores -> SlotIndex] /\ target \in [Cores -> TaskRef \cup {NoTask}]
      /\ caller \in [Cores -> Callers]
  BY DEF TypeInv, TypeOK, SchedulerTypeOK
<1>4. Control(c)'
  BY <1>1, <1>2, <1>3, Zenon DEF TypeInv, Control, waitVars, procVars, taskVars, loopVars, queueVars, callVars, HoldsTarget, KernelCoreSteps, OnTaskStack, SyscallSteps
<1>5. pc' \in [Cores -> Steps] /\ \A d \in Cores : Control(d)'
  BY <1>1, <1>2, <1>3, <1>4, ControlFrame, Zenon DEF waitVars, procVars, taskVars, loopVars, queueVars, callVars, Steps, SchedulerLoop, OnTaskStack, SyscallSteps
<1> QED BY <1>1, <1>2, <1>5, Zenon DEF TypeInv, TypeOK, TaskSlotsTypeOK, SchedulerTypeOK, WaitTypeOK, waitVars, procVars, taskVars, loopVars, queueVars, callVars

\* wake_all returns.
LEMMA WakeAllDoneType ==
    ASSUME TypeInv, NEW c \in Cores, WakeAllDone(c), UNCHANGED procVars
    PROVE  TypeInv'
<1> USE Constants
<1>1. /\ pc[c] = "wake_next" /\ pc' = [pc EXCEPT ![c] = ReturnStep(c)] /\ ForgetCall(c)
      /\ UNCHANGED <<taskVars, loopVars, should_be_rescheduled, queueVars, ipi, now, fault,
                     waitVars>>
  BY DEF WakeAllDone, Goto
<1>2. /\ target' = [target EXCEPT ![c] = NoTask] /\ caller' = [caller EXCEPT ![c] = "none"]
      /\ target' \in [Cores -> TaskRef \cup {NoTask}] /\ caller' \in [Cores -> Callers]
      /\ enqueue_core' \in [Cores -> Cores] /\ enqueue_priority' \in [Cores -> 0 .. 7]
  BY <1>1 DEF ForgetCall, TypeInv, TypeOK, SchedulerTypeOK, Callers
<1>3. (c = 0 => ReturnStep(c) = "kernel") /\ (c # 0 => ReturnStep(c) = "exit_to_user")
  BY DEF ReturnStep
<1>4. pc \in [Cores -> Steps] /\ picked \in [Cores -> SlotIndex]
      /\ current_slot \in [Cores -> SlotIndex] /\ target \in [Cores -> TaskRef \cup {NoTask}]
      /\ caller \in [Cores -> Callers]
  BY DEF TypeInv, TypeOK, SchedulerTypeOK
<1>5. Control(c)'
  BY <1>1, <1>2, <1>3, <1>4, Zenon DEF TypeInv, Control, waitVars, procVars, taskVars, loopVars, queueVars, callVars, HoldsTarget, KernelCoreSteps, OnTaskStack, SyscallSteps
<1>6. pc' \in [Cores -> Steps] /\ \A d \in Cores : Control(d)'
  BY <1>1, <1>2, <1>3, <1>4, <1>5, ControlFrame, Zenon DEF waitVars, procVars, taskVars, loopVars, queueVars, callVars, Steps, SchedulerLoop, OnTaskStack, SyscallSteps
<1> QED BY <1>1, <1>2, <1>3, <1>6, Zenon DEF TypeInv, TypeOK, TaskSlotsTypeOK, SchedulerTypeOK, WaitTypeOK, waitVars, procVars, taskVars, loopVars, queueVars, callVars

\* The created task becomes ready.
LEMMA CreateReadyType ==
    ASSUME TypeInv, NEW c \in Cores, CreateReady(c)
    PROVE  TypeInv'
<1> USE Constants
<1>1. /\ pc[c] = "create_ready" /\ pc' = [pc EXCEPT ![c] = "enq_count"]
      /\ processes' = [processes EXCEPT ![target[c].pid] = "Ready"]
      /\ UNCHANGED <<pid, priority, home_core, on_cpu, kill_pending, saved_rsp, loopVars,
                     should_be_rescheduled, queueVars, ipi, target, caller, now, fault,
                     waitVars, new_pid, requested>>
  BY DEF CreateReady, Goto
<1>2. target[c].slot \in Slots
  BY <1>1, Zenon DEF TypeInv, Control, HoldsTarget, TaskRef
<1>3. enqueue_core' \in [Cores -> Cores] /\ enqueue_priority' \in [Cores -> 0 .. 7]
  BY <1>2 DEF CreateReady, EnqueueArguments, TypeInv, TypeOK, SchedulerTypeOK, TaskSlotsTypeOK
<1>4. state' \in [Slots -> TaskState]
  BY Zenon DEF CreateReady, SetState, TypeInv, TypeOK, TaskSlotsTypeOK, TaskState
<1>5. pc \in [Cores -> Steps] /\ picked \in [Cores -> SlotIndex]
      /\ current_slot \in [Cores -> SlotIndex] /\ target \in [Cores -> TaskRef \cup {NoTask}]
      /\ caller \in [Cores -> Callers]
  BY DEF TypeInv, TypeOK, SchedulerTypeOK
<1>6. Control(c)'
  BY <1>1, <1>2, <1>3, <1>4, <1>5 DEF TypeInv, Control, waitVars, procVars, taskVars, loopVars, queueVars, callVars, HoldsTarget, KernelCoreSteps, OnTaskStack, SyscallSteps
<1>7. pc' \in [Cores -> Steps] /\ \A d \in Cores : Control(d)'
  BY <1>1, <1>2, <1>3, <1>4, <1>5, <1>6, ControlFrame, Zenon DEF waitVars, procVars, taskVars, loopVars, queueVars, callVars, Steps, SchedulerLoop, OnTaskStack, SyscallSteps
<1> QED BY <1>1, <1>2, <1>3, <1>4, <1>7, Zenon DEF TypeInv, TypeOK, TaskSlotsTypeOK, SchedulerTypeOK, WaitTypeOK, waitVars, procVars, taskVars, loopVars, queueVars, callVars

\* request_kill sets the flag.
LEMMA KillMarkType ==
    ASSUME TypeInv, NEW c \in Cores, KillMark(c)
    PROVE  TypeInv'
<1> USE Constants
<1>1. /\ pc[c] = "kill_mark"
      /\ kill_pending' = [kill_pending EXCEPT ![target[c].slot] = TRUE]
      /\ UNCHANGED <<pid, state, priority, home_core, on_cpu, saved_rsp, loopVars,
                     should_be_rescheduled, queueVars, ipi, callVars, now, fault, waitVars,
                     procVars>>
  BY Zenon DEF KillMark
<1>2. PICK step \in {"wake_cas", "kill_ipi"} : pc' = [pc EXCEPT ![c] = step]
  BY Zenon DEF KillMark, Goto
<1>3. pc \in [Cores -> Steps] /\ picked \in [Cores -> SlotIndex]
      /\ current_slot \in [Cores -> SlotIndex] /\ target \in [Cores -> TaskRef \cup {NoTask}]
      /\ caller \in [Cores -> Callers]
  BY DEF TypeInv, TypeOK, SchedulerTypeOK
<1>4. Control(c)'
  BY <1>1, <1>2, <1>3 DEF TypeInv, Control, waitVars, procVars, taskVars, loopVars, queueVars, callVars, HoldsTarget, KernelCoreSteps, OnTaskStack, SyscallSteps
<1>5. pc' \in [Cores -> Steps] /\ \A d \in Cores : Control(d)'
  BY <1>1, <1>2, <1>3, <1>4, ControlFrame, Zenon DEF waitVars, procVars, taskVars, loopVars, queueVars, callVars, Steps, SchedulerLoop, OnTaskStack, SyscallSteps
<1> QED BY <1>1, <1>2, <1>5, Zenon DEF TypeInv, TypeOK, TaskSlotsTypeOK, SchedulerTypeOK, WaitTypeOK, waitVars, procVars, taskVars, loopVars, queueVars, callVars

\* A task runs for the first time.
LEMMA TaskFirstEntryType ==
    ASSUME TypeInv, NEW c \in Cores, TaskFirstEntry(c)
    PROVE  TypeInv'
<1> USE Constants
<1>1. /\ pc[c] = "task_first_entry"
      /\ saved_rsp' = [saved_rsp EXCEPT ![picked[c]] = "exit_to_user"]
      /\ UNCHANGED <<pid, state, priority, home_core, on_cpu, kill_pending, loopVars,
                     should_be_rescheduled, queueVars, ipi, callVars, now, fault, waitVars,
                     procVars>>
  BY Zenon DEF TaskFirstEntry
<1>2. PICK step \in {"exit_killed", "user"} : pc' = [pc EXCEPT ![c] = step]
  BY Zenon DEF TaskFirstEntry, Goto
<1>3. saved_rsp' \in [Slots -> ResumePoint]
  BY <1>1, Zenon DEF TypeInv, TypeOK, TaskSlotsTypeOK, ResumePoint
<1>4. pc \in [Cores -> Steps] /\ picked \in [Cores -> SlotIndex]
      /\ current_slot \in [Cores -> SlotIndex] /\ target \in [Cores -> TaskRef \cup {NoTask}]
      /\ caller \in [Cores -> Callers]
  BY DEF TypeInv, TypeOK, SchedulerTypeOK
<1>5. Control(c)'
  BY <1>1, <1>2, <1>3, <1>4, Zenon DEF TypeInv, Control, waitVars, procVars, taskVars, loopVars, queueVars, callVars, HoldsTarget, KernelCoreSteps, OnTaskStack, SyscallSteps
<1>6. pc' \in [Cores -> Steps] /\ \A d \in Cores : Control(d)'
  BY <1>1, <1>2, <1>3, <1>4, <1>5, ControlFrame, Zenon DEF waitVars, procVars, taskVars, loopVars, queueVars, callVars, Steps, SchedulerLoop, OnTaskStack, SyscallSteps
<1> QED BY <1>1, <1>2, <1>3, <1>6, Zenon DEF TypeInv, TypeOK, TaskSlotsTypeOK, SchedulerTypeOK, WaitTypeOK, waitVars, procVars, taskVars, loopVars, queueVars, callVars

\* The process of an exiting task terminates.
LEMMA ExitTeardownType ==
    ASSUME TypeInv, NEW c \in Cores, ExitTeardown(c)
    PROVE  TypeInv'
<1> USE Constants
<1>1. /\ pc[c] \in {"exit", "exit_killed"} /\ pc' = [pc EXCEPT ![c] = "exit_dead"]
      /\ processes' = [processes EXCEPT ![pid[current_slot[c]]] = "Terminated"]
      /\ UNCHANGED <<taskVars, loopVars, should_be_rescheduled, queueVars, ipi, callVars,
                     now, fault, waitVars, new_pid, requested>>
  BY Zenon DEF ExitTeardown, Goto
<1>2. pc \in [Cores -> Steps] /\ picked \in [Cores -> SlotIndex]
      /\ current_slot \in [Cores -> SlotIndex] /\ target \in [Cores -> TaskRef \cup {NoTask}]
      /\ caller \in [Cores -> Callers]
  BY DEF TypeInv, TypeOK, SchedulerTypeOK
<1>3. Control(c)'
  BY <1>1, <1>2, Zenon DEF TypeInv, Control, waitVars, procVars, taskVars, loopVars, queueVars, callVars, HoldsTarget, KernelCoreSteps, OnTaskStack, SyscallSteps
<1>4. pc' \in [Cores -> Steps] /\ \A d \in Cores : Control(d)'
  BY <1>1, <1>2, <1>3, ControlFrame, Zenon DEF waitVars, procVars, taskVars, loopVars, queueVars, callVars, Steps, SchedulerLoop, OnTaskStack, SyscallSteps
<1> QED BY <1>1, <1>4, Zenon DEF TypeInv, TypeOK, TaskSlotsTypeOK, SchedulerTypeOK, WaitTypeOK, waitVars, procVars, taskVars, loopVars, queueVars, callVars

\* A reschedule interrupt arrives.
LEMMA RescheduleInterruptType ==
    ASSUME TypeInv, NEW c \in Cores, RescheduleInterrupt(c), UNCHANGED <<waitVars, procVars>>
    PROVE  TypeInv'
<1> USE Constants
<1>1. /\ pc[c] \in InterruptsEnabled
      /\ ipi' = [ipi EXCEPT ![c] = FALSE]
      /\ should_be_rescheduled' = [should_be_rescheduled EXCEPT ![c] = TRUE]
      /\ UNCHANGED <<taskVars, loopVars, queueVars, callVars, now, fault>>
  BY DEF RescheduleInterrupt
<1>2. PICK step \in Steps :
        /\ pc' = [pc EXCEPT ![c] = step]
        /\ step = pc[c] \/ (pc[c] = "user" /\ step = "exit_to_user") \/ (pc[c] = "halt" /\ step = "pick")
  <2>1. pc[c] \in Steps /\ "exit_to_user" \in Steps /\ "pick" \in Steps
    BY DEF TypeInv, TypeOK, SchedulerTypeOK, Steps, OnTaskStack, SchedulerLoop
  <2> QED BY <2>1, Zenon DEF RescheduleInterrupt, InterruptReturn, Goto
<1>3. pc \in [Cores -> Steps] /\ picked \in [Cores -> SlotIndex]
      /\ current_slot \in [Cores -> SlotIndex] /\ target \in [Cores -> TaskRef \cup {NoTask}]
      /\ caller \in [Cores -> Callers]
  BY DEF TypeInv, TypeOK, SchedulerTypeOK
<1>4. Control(c)'
  BY <1>1, <1>2, <1>3, Zenon DEF TypeInv, Control, waitVars, procVars, taskVars, loopVars, queueVars, callVars, HoldsTarget, KernelCoreSteps, OnTaskStack, SyscallSteps
<1>5. pc' \in [Cores -> Steps] /\ \A d \in Cores : Control(d)'
  BY <1>1, <1>2, <1>3, <1>4, ControlFrame, Zenon DEF waitVars, procVars, taskVars, loopVars, queueVars, callVars, Steps, SchedulerLoop, OnTaskStack, SyscallSteps
<1> QED BY <1>1, <1>2, <1>5, Zenon DEF TypeInv, TypeOK, TaskSlotsTypeOK, SchedulerTypeOK, WaitTypeOK, waitVars, procVars, taskVars, loopVars, queueVars, callVars

\* A creation that fails spends a pid.
LEMMA SysCreateFailsType ==
    ASSUME TypeInv, NEW c \in Cores, SysCreateFails(c)
    PROVE  TypeInv'
<1> USE Constants
<1>1. /\ pc' = [pc EXCEPT ![c] = ReturnStep(c)]
      /\ new_pid' = new_pid + 1 /\ new_pid <= MaxPid
      /\ UNCHANGED <<taskVars, loopVars, should_be_rescheduled, queueVars, ipi, callVars, now, fault, waitVars, processes, requested>>
  BY DEF SysCreateFails, Goto
<1>2. pc[c] \in {"kernel", "user"} /\ (c = 0 <=> pc[c] = "kernel")
  BY DEF SysCreateFails, MayCreate, TypeInv, Control
<1>3. new_pid' \in 1 .. MaxPid + 1
  BY <1>1, TaskSlotsAssumption DEF TypeInv, TypeOK
<1>4. (c = 0 => ReturnStep(c) = "kernel") /\ (c # 0 => ReturnStep(c) = "exit_to_user")
  BY DEF ReturnStep
<1>5. pc \in [Cores -> Steps] /\ picked \in [Cores -> SlotIndex]
      /\ current_slot \in [Cores -> SlotIndex] /\ target \in [Cores -> TaskRef \cup {NoTask}]
      /\ caller \in [Cores -> Callers]
  BY DEF TypeInv, TypeOK, SchedulerTypeOK
<1>6. Control(c)'
  BY <1>1, <1>2, <1>3, <1>4, <1>5, Zenon DEF TypeInv, Control, waitVars, procVars, taskVars, loopVars, queueVars, callVars, HoldsTarget, KernelCoreSteps, OnTaskStack, SyscallSteps
<1>7. pc' \in [Cores -> Steps] /\ \A d \in Cores : Control(d)'
  BY <1>1, <1>2, <1>3, <1>4, <1>5, <1>6, ControlFrame, Zenon DEF waitVars, procVars, taskVars, loopVars, queueVars, callVars, Steps, SchedulerLoop, OnTaskStack, SyscallSteps
<1> QED BY <1>1, <1>2, <1>3, <1>4, <1>7, Zenon DEF TypeInv, TypeOK, TaskSlotsTypeOK, SchedulerTypeOK, WaitTypeOK, waitVars, procVars, taskVars, loopVars, queueVars, callVars

\* A task yields.
LEMMA SysYieldType ==
    ASSUME TypeInv, NEW c \in Cores, SysYield(c)
    PROVE  TypeInv'
<1> USE Constants
<1>1. /\ pc[c] = "user"
      /\ UNCHANGED <<taskVars, loopVars, should_be_rescheduled, queueVars, ipi, callVars, now, fault, waitVars, procVars>>
  BY DEF SysYield
<1>2. PICK step \in {"exit_to_user", "switch_yield"} : pc' = [pc EXCEPT ![c] = step]
  BY Zenon DEF SysYield, Goto
<1>3. pc \in [Cores -> Steps] /\ picked \in [Cores -> SlotIndex]
      /\ current_slot \in [Cores -> SlotIndex] /\ target \in [Cores -> TaskRef \cup {NoTask}]
      /\ caller \in [Cores -> Callers]
  BY DEF TypeInv, TypeOK, SchedulerTypeOK
<1>4. Control(c)'
  BY <1>1, <1>2, <1>3 DEF TypeInv, Control, waitVars, procVars, taskVars, loopVars, queueVars, callVars, HoldsTarget, KernelCoreSteps, OnTaskStack, SyscallSteps
<1>5. pc' \in [Cores -> Steps] /\ \A d \in Cores : Control(d)'
  BY <1>1, <1>2, <1>3, <1>4, ControlFrame, Zenon DEF waitVars, procVars, taskVars, loopVars, queueVars, callVars, Steps, SchedulerLoop, OnTaskStack, SyscallSteps
<1> QED BY <1>1, <1>2, <1>5, Zenon DEF TypeInv, TypeOK, TaskSlotsTypeOK, SchedulerTypeOK, WaitTypeOK, waitVars, procVars, taskVars, loopVars, queueVars, callVars

\* A task exits.
LEMMA SysExitType ==
    ASSUME TypeInv, NEW c \in Cores, SysExit(c)
    PROVE  TypeInv'
<1> USE Constants
<1>1. /\ pc[c] = "user" /\ pc' = [pc EXCEPT ![c] = "exit"]
      /\ UNCHANGED <<taskVars, loopVars, should_be_rescheduled, queueVars, ipi, callVars, now, fault, waitVars, procVars>>
  BY DEF SysExit, Goto
<1>2. pc \in [Cores -> Steps] /\ picked \in [Cores -> SlotIndex]
      /\ current_slot \in [Cores -> SlotIndex] /\ target \in [Cores -> TaskRef \cup {NoTask}]
      /\ caller \in [Cores -> Callers]
  BY DEF TypeInv, TypeOK, SchedulerTypeOK
<1>3. Control(c)'
  BY <1>1, <1>2 DEF TypeInv, Control, waitVars, procVars, taskVars, loopVars, queueVars, callVars, HoldsTarget, KernelCoreSteps, OnTaskStack, SyscallSteps
<1>4. pc' \in [Cores -> Steps] /\ \A d \in Cores : Control(d)'
  BY <1>1, <1>2, <1>3, ControlFrame, Zenon DEF waitVars, procVars, taskVars, loopVars, queueVars, callVars, Steps, SchedulerLoop, OnTaskStack, SyscallSteps
<1> QED BY <1>1, <1>4, Zenon DEF TypeInv, TypeOK, TaskSlotsTypeOK, SchedulerTypeOK, WaitTypeOK, waitVars, procVars, taskVars, loopVars, queueVars, callVars

\* An event comes and its waiters are about to be woken.
LEMMA SignalEventType ==
    ASSUME TypeInv, NEW c \in Cores, SignalEvent(c)
    PROVE  TypeInv'
<1> USE Constants
<1>1. /\ pc' = [pc EXCEPT ![c] = "wake_all"]
      /\ UNCHANGED <<taskVars, loopVars, should_be_rescheduled, queueVars, ipi, callVars, now, fault, waiters, woken, core_id, wake_time, procVars>>
  BY Zenon DEF SignalEvent, Goto
<1>2. pc[c] \in {"kernel", "user"} /\ (c = 0 <=> pc[c] = "kernel")
  BY DEF SignalEvent, TypeInv, Control
<1>3. event' \in [Slots -> BOOLEAN]
  BY Zenon DEF SignalEvent, TypeInv, TypeOK, WaitTypeOK
<1>4. pc \in [Cores -> Steps] /\ picked \in [Cores -> SlotIndex]
      /\ current_slot \in [Cores -> SlotIndex] /\ target \in [Cores -> TaskRef \cup {NoTask}]
      /\ caller \in [Cores -> Callers]
  BY DEF TypeInv, TypeOK, SchedulerTypeOK
<1>5. Control(c)'
  BY <1>1, <1>2, <1>3, <1>4 DEF TypeInv, Control, waitVars, procVars, taskVars, loopVars, queueVars, callVars, HoldsTarget, KernelCoreSteps, OnTaskStack, SyscallSteps
<1>6. pc' \in [Cores -> Steps] /\ \A d \in Cores : Control(d)'
  BY <1>1, <1>2, <1>3, <1>4, <1>5, ControlFrame, Zenon DEF waitVars, procVars, taskVars, loopVars, queueVars, callVars, Steps, SchedulerLoop, OnTaskStack, SyscallSteps
<1> QED BY <1>1, <1>2, <1>3, <1>6, Zenon DEF TypeInv, TypeOK, TaskSlotsTypeOK, SchedulerTypeOK, WaitTypeOK, waitVars, procVars, taskVars, loopVars, queueVars, callVars

\* A task enters the wait loop.
LEMMA SysWaitType ==
    ASSUME TypeInv, NEW c \in Cores, SysWait(c), UNCHANGED procVars
    PROVE  TypeInv'
<1> USE Constants
<1>1. /\ pc[c] = "user" /\ pc' = [pc EXCEPT ![c] = "wait"]
      /\ core_id' = [core_id EXCEPT ![picked[c]] = c]
      /\ saved_rsp' = [saved_rsp EXCEPT ![picked[c]] = "wait"]
      /\ UNCHANGED <<pid, state, priority, home_core, on_cpu, kill_pending, loopVars,
                     should_be_rescheduled, queueVars, ipi, callVars, now, fault,
                     waiters, woken, event, wake_time>>
  BY DEF SysWait, Goto
<1>2. saved_rsp' \in [Slots -> ResumePoint]
  BY <1>1, Zenon DEF TypeInv, TypeOK, TaskSlotsTypeOK, ResumePoint
<1>3. pc \in [Cores -> Steps] /\ picked \in [Cores -> SlotIndex]
      /\ current_slot \in [Cores -> SlotIndex] /\ target \in [Cores -> TaskRef \cup {NoTask}]
      /\ caller \in [Cores -> Callers]
  BY DEF TypeInv, TypeOK, SchedulerTypeOK
<1>4. Control(c)'
  BY <1>1, <1>2, <1>3 DEF TypeInv, Control, waitVars, procVars, taskVars, loopVars, queueVars, callVars, HoldsTarget, KernelCoreSteps, OnTaskStack, SyscallSteps
<1>5. pc' \in [Cores -> Steps] /\ \A d \in Cores : Control(d)'
  BY <1>1, <1>2, <1>3, <1>4, ControlFrame, Zenon DEF waitVars, procVars, taskVars, loopVars, queueVars, callVars, Steps, SchedulerLoop, OnTaskStack, SyscallSteps
<1> QED BY <1>1, <1>2, <1>5, Zenon DEF TypeInv, TypeOK, TaskSlotsTypeOK, SchedulerTypeOK, WaitTypeOK, waitVars, procVars, taskVars, loopVars, queueVars, callVars

\* Every step keeps the types and the control.
LEMMA TypeStep == TypeInv /\ [Next]_vars => TypeInv'
<1> SUFFICES ASSUME TypeInv, [Next]_vars PROVE TypeInv'
  OBVIOUS
<1>1. ASSUME NEW c \in Cores, SchedulerLoopStep(c) PROVE TypeInv'
  BY <1>1, PickTaskType, PickNothingType, StealType, StealPushType, StealNothingType, RunTaskType,
     SwitchContextType, ReturnOnCpuType, ReturnCurrentType, ReturnReapType DEF SchedulerLoopStep
<1>2. ASSUME NEW c \in Cores, WakeStep(c) PROVE TypeInv'
  BY <1>2, WakeCasType, EnqueueCountType, EnqueuePushType, EnqueueKickType DEF WakeStep
<1>3. ASSUME NEW c \in Cores, WaitStep(c) PROVE TypeInv'
  BY <1>3, WaitConditionType, WaitBlockType, WaitCheckType, SleepConditionType, SleepBlockType,
     WakeAllType, WakeNextType, WakeAllDoneType DEF WaitStep
<1>4. ASSUME NEW c \in Cores, KernelStep(c) PROVE TypeInv'
  BY <1>4, CreateReadyType, KillMarkType, KillIpiType, TaskFirstEntryType, ExitToUserType,
     ExitTeardownType, ExitDeadType DEF KernelStep
<1>5. ASSUME NEW c \in TaskCores, InterruptStep(c) PROVE TypeInv'
  BY <1>5, Constants, TimerTickType, RescheduleInterruptType DEF InterruptStep
<1>6. ASSUME NEW c \in TaskCores, UserStep(c) PROVE TypeInv'
  BY <1>6, Constants, SysCreateType, SysCreateFailsType, SysYieldType, SysExitType,
     SignalEventType, SysWaitType, SysSleepType DEF UserStep
<1>7. ASSUME KernelCoreStep PROVE TypeInv'
  BY <1>7, Constants, SysCreateType, SysCreateFailsType, SignalEventType, CleanupDeadType,
     RequestKillType DEF KernelCoreStep
<1> QED BY <1>1, <1>2, <1>3, <1>4, <1>5, <1>6, <1>7, ClockType, StutterType
        DEF Next, CoreStep, Stopped

\* In every behaviour each variable stays in its type, core 0 executes only the
\* statements of its callers, and a core on a task's stack knows its slot:
\* current_slot and the scheduler's own slot_index agree while the task runs.
THEOREM TypeCorrect == Spec => [](TypeOK /\ TypeInv)
<1>1. TypeInv => TypeOK
  BY DEF TypeInv
<1> QED BY <1>1, InitType, TypeStep, PTL DEF Spec
====
