--------------------------- MODULE SchedulerProofs ---------------------------
(***************************************************************************)
(* Proofs about Scheduler, for every set of tasks and processes, every     *)
(* boot order and every queue size that satisfy its assumptions.           *)
(***************************************************************************)
EXTENDS Scheduler, TLAPS, WellFoundedInduction

----------------------------------------------------------------------------
(* The inductive invariant, by the part of the machine it speaks of. *)

\* The task that kmain() put into slot n.
SlotTask(n) == IF n = 0 THEN Daemon ELSE BootOrder[n]

\* The boot thread fills the queue before it enables the scheduler, and no
\* task runs, dies or is reaped before that.
BootInv ==
    /\ pc[Boot] \in BootPcs
    /\ scheduler_enabled <=> pc[Boot] = "spin"
    /\ scheduler_running => scheduler_enabled
    /\ pc[Boot] = "scheduler_init" => queue_length = 0
    /\ pc[Boot] # "scheduler_init" => queue_length \in 1..(Len(BootOrder) + 1)
    /\ pc[Boot] = "spin" => queue_length = Len(BootOrder) + 1
    /\ ~scheduler_running =>
          /\ ctx = Boot /\ rsp = KernelStack(Boot) /\ cr3 = BootSpace
          /\ current_idx = 0
          /\ destroyed = {}
          /\ \A t \in Tasks : state[t] = TASK_READY

\* A slot holds the task it was given, or nothing once that was reaped; the
\* daemon keeps slot 0.
QueueInv ==
    /\ \A n \in Slots : n >= queue_length => queue[n] = NULL
    /\ \A n \in Slots : queue[n] # NULL => queue[n] = SlotTask(n)
    /\ queue_length # 0 => queue[0] = Daemon
    /\ ~scheduler_running => \A n \in Slots : n < queue_length => queue[n] # NULL

\* Each thread stays in its own program; only user tasks die, and a dead
\* task that still has the CPU is about to give it up.
ProgramInv ==
    /\ \A t \in UserTasks : pc[t] \in {"user"} \cup SyscallPcs
    /\ pc[Daemon] \in DaemonPcs
    /\ \A t \in Tasks \ UserTasks : t # Daemon => pc[t] = "worker"
    /\ \A t \in Tasks : state[t] = TASK_DEAD => t \in UserTasks
    /\ ctx \in Tasks /\ state[ctx] = TASK_DEAD => pc[ctx] = "int48"

\* The CPU and the saved contexts.
ContextInv ==
    /\ scheduler_running =>
          /\ ctx \in Tasks
          /\ queue[current_idx] = ctx
          /\ rsp0 = ctx
          /\ cr3 = SpaceOf[ProcOf[ctx]]
          /\ pc[ctx] # "user" => rsp = KernelStack(ctx)
          /\ pc[ctx] = "user" => rsp.mode = "user"
          /\ stack_pointer[ctx] = ctx
          /\ state[ctx] # TASK_READY
          /\ \A t \in Tasks : state[t] = TASK_RUNNING => t = ctx
          /\ user_rsp_scratch # NULL => user_rsp_scratch.mode = "user"
    /\ ~scheduler_running => user_rsp_scratch = NULL
    /\ \A t \in UserTasks : pc[t] # "user" => user_rsp_scratch # NULL
    /\ SavedContextIntact

\* The daemon works on a slot that holds a dead task, and on the process
\* that task is the main task of.
ReaperInv ==
    /\ pc[Daemon] # "scan" => queue[i] # NULL /\ state[queue[i]] = TASK_DEAD
    /\ pc[Daemon] = "task_destroy" =>
          proc = IF MainOf[ProcOf[queue[i]]] = queue[i] THEN ProcOf[queue[i]] ELSE NULL
    /\ pc[Daemon] \in {"vmm_destroy", "proc_free"} =>
          /\ proc # NULL
          /\ MainOf[proc] = queue[i]
    /\ pc[Daemon] = "proc_free" => SpaceOf[proc] \in destroyed
    /\ pc[Daemon] = "clear" /\ MainOf[ProcOf[queue[i]]] = queue[i] =>
          SpaceOf[ProcOf[queue[i]]] \in destroyed

\* What was handed to kfree() is dead and out of the queue, but for the one
\* task the daemon is about to clear from its slot and its process.
ReleasedInv ==
    /\ \A t \in Tasks \cap released :
          /\ state[t] = TASK_DEAD
          /\ InQueue(t) => queue[i] = t /\ pc[Daemon] \in {"vmm_destroy", "proc_free", "clear"}
    /\ \A p \in Procs \cap released :
          /\ state[MainOf[p]] = TASK_DEAD
          /\ InQueue(MainOf[p]) => queue[i] = MainOf[p] /\ pc[Daemon] = "clear"

\* A destroyed space belonged to a user process whose main task is dead.
SpaceInv ==
    /\ \A s \in destroyed : \E p \in Procs :
          /\ s = SpaceOf[p]
          /\ MainOf[p] \in UserTasks
          /\ state[MainOf[p]] = TASK_DEAD
    /\ cr3 \notin destroyed

IInv ==
    /\ TypeOK
    /\ BootInv
    /\ QueueInv
    /\ ProgramInv
    /\ ContextInv
    /\ ReaperInv
    /\ MainDeathEndsGroup
    /\ SpaceInv
    /\ ReleasedInv

----------------------------------------------------------------------------
(* Lemmas about the run queue. *)

\* A nonempty set of naturals has a least element.
LEMMA LeastElement ==
    ASSUME NEW S, S \subseteq Nat, S # {}
    PROVE  \E m \in S : \A n \in S : m <= n
<1>1. PICK m \in S : \A n \in S : ~(<<n, m>> \in OpToRel(<, Nat))
    BY NatLessThanWellFounded, WFMin
<1>2. \A n \in S : ~(n < m)
    BY <1>1 DEF OpToRel
<1> QED
    BY <1>2

\* Different slots were given different tasks.
LEMMA SlotTasksDiffer ==
    ASSUME NEW m \in 0..Len(BootOrder), NEW n \in 0..Len(BootOrder), m # n
    PROVE  SlotTask(m) \in Tasks /\ SlotTask(m) # SlotTask(n)
<1>1. \A k \in 1..Len(BootOrder) : BootOrder[k] \in Tasks \ {Daemon}
    BY QueueAssumption
<1> QED
    BY <1>1, QueueAssumption, TasksAssumption DEF SlotTask

\* scheduler_get_next() finds a task: the daemon's, if no other.
LEMMA NextIsSchedulable ==
    ASSUME IInv, queue_length # 0
    PROVE  /\ NextExists
           /\ NextIdx \in 0..(queue_length - 1)
           /\ Schedulable(NextIdx)
<1> DEFINE D == {d \in 1..queue_length : Schedulable(Ahead(d))}
<1>1. current_idx \in 0..(queue_length - 1) /\ queue_length \in Nat
  <2>1. queue_length \in Nat /\ current_idx \in Slots /\ MAX_PROCESSES \in Nat
    BY QueueAssumption DEF IInv, TypeOK
  <2>2. CASE scheduler_running
    <3>1. queue[current_idx] # NULL
      BY <2>2, TasksAssumption DEF IInv, ContextInv
    <3> QED
      BY <2>1, <3>1 DEF IInv, QueueInv, Slots
  <2>3. CASE ~scheduler_running
    BY <2>1, <2>3 DEF IInv, BootInv
  <2> QED
    BY <2>2, <2>3
<1>2. Schedulable(0)
    BY TasksAssumption DEF IInv, QueueInv, ProgramInv, Schedulable, TypeOK, Slots
<1>3. queue_length - current_idx \in D
  <2>1. Ahead(queue_length - current_idx) = 0
    BY <1>1 DEF Ahead
  <2> QED
    BY <2>1, <1>1, <1>2
<1>4. \E m \in D : \A n \in D : m <= n
  <2>1. D \subseteq Nat /\ D # {}
    BY <1>3, <1>1
  <2> HIDE DEF D
  <2> QED
    BY <2>1, LeastElement
<1>5. NextDistance \in D
    BY <1>4 DEF NextDistance
<1>6. \A d \in 1..queue_length : Ahead(d) \in 0..(queue_length - 1)
    BY <1>1 DEF Ahead
<1> QED
    BY <1>5, <1>6 DEF NextIdx, NextExists

----------------------------------------------------------------------------
(* What a tick does to a machine that satisfies the invariant. *)

\* The stack an interrupt frame goes to is the executing thread's own.
LEMMA OwnStackInterrupted ==
    ASSUME IInv
    PROVE  /\ pc[ctx] = "user" => rsp0 = ctx
           /\ pc[ctx] # "user" => rsp.of = ctx
           /\ Current = IF scheduler_running THEN ctx ELSE Boot
           /\ Current = ctx
  BY TasksAssumption DEF IInv, BootInv, ContextInv, Current, KernelStack, BootPcs

\* The effect of scheduler_tick() and its stub on the executing thread and
\* the next one.
Switched ==
    /\ ctx' # ctx
    /\ state' = [state EXCEPT ![ctx] = IF @ = TASK_RUNNING THEN TASK_READY ELSE @,
                              ![ctx'] = TASK_RUNNING]
    /\ stack_pointer' = [stack_pointer EXCEPT ![ctx] = ctx]
    /\ kstack' = [kstack EXCEPT ![ctx] = [thread |-> ctx, rsp |-> rsp], ![ctx'] = NULL]
    /\ rsp' = kstack[ctx'].rsp
    /\ cr3' = SpaceOf[ProcOf[ctx']]
    /\ rsp0' = ctx'

LEMMA TickEffect ==
    ASSUME IInv, Tick(ctx)
    PROVE  /\ scheduler_enabled /\ scheduler_running'
           /\ UNCHANGED <<queue, queue_length, scheduler_enabled>>
           /\ current_idx' \in 0..(queue_length - 1)
           /\ ctx' = queue[current_idx'] /\ ctx' \in Tasks
           /\ state[ctx'] # TASK_DEAD
           /\ \/ Switched
              \/ scheduler_running /\ UNCHANGED <<state, switch>>
<1> DEFINE next == queue[NextIdx]
<1>1. /\ scheduler_enabled /\ scheduler_running'
      /\ UNCHANGED <<queue, queue_length, scheduler_enabled>>
      /\ current_idx' = NextIdx
      /\ queue_length # 0
    BY DEF Tick
<1>2. NextIdx \in 0..(queue_length - 1) /\ Schedulable(NextIdx)
    BY <1>1, NextIsSchedulable
<1>3. NextIdx \in Slots
    BY <1>2, QueueAssumption DEF IInv, TypeOK, Slots
<1>4. next \in Tasks /\ state[next] # TASK_DEAD
    BY <1>2, <1>3 DEF IInv, TypeOK, Schedulable
<1>5. CASE Current # next
  <2>1. next # ctx /\ stack_pointer[next] = next /\ kstack[next].thread = next
    BY <1>4, <1>5, OwnStackInterrupted DEF IInv, ContextInv, SavedContextIntact
  <2>2. SwitchTo(ctx, next, ctx)
    BY <1>5, OwnStackInterrupted DEF Tick
  <2>3. ctx' = next /\ rsp' = kstack[next].rsp
    BY <2>1, <2>2, <1>4 DEF SwitchTo, SwapStacks, IInv, TypeOK, Threads
  <2>4. kstack' = [kstack EXCEPT ![ctx] = [thread |-> ctx, rsp |-> rsp], ![next] = NULL]
    BY <2>1, <2>2 DEF SwitchTo, SwapStacks
  <2>5. Switched
    BY <2>1, <2>2, <2>3, <2>4 DEF SwitchTo, UpdateState, SwapStacks, SpaceToLoad, KernelStackToLoad, Switched
  <2> QED
    BY <1>1, <1>2, <1>4, <2>3, <2>5
<1>6. CASE Current = next
  <2>1. ctx = next /\ scheduler_running
    BY <1>4, <1>6, OwnStackInterrupted, TasksAssumption
  <2>2. UNCHANGED <<state, switch>>
    BY <1>6 DEF Tick, SwitchTo
  <2> QED
    BY <1>1, <1>2, <1>4, <2>1, <2>2 DEF switch
<1> QED
    BY <1>5, <1>6

----------------------------------------------------------------------------
(* Every action preserves the invariant. *)

\* A saved context is not the null pointer.
LEMMA FramesAreNotNull ==
    \A t, u \in Tasks :
        /\ [thread |-> t, rsp |-> UserStack(u)] # NULL
        /\ [thread |-> t, rsp |-> KernelStack(u)] # NULL
<1>1. \A t, u \in Tasks : /\ [thread |-> t, rsp |-> UserStack(u)] \in Frames
                           /\ [thread |-> t, rsp |-> KernelStack(u)] \in Frames
    BY DEF Frames, StackPointers, UserStack, KernelStack, Threads
<1> QED
    BY <1>1, NullAssumption

LEMMA InitEstablishes == Init => IInv
<1> SUFFICES ASSUME Init PROVE IInv
    OBVIOUS
<1> USE TasksAssumption, ProcessAssumption, QueueAssumption DEF Init, Threads
<1>0. /\ pc \in [Threads -> Pcs]
      /\ pc[Boot] = "scheduler_init"
      /\ pc[Daemon] = "scan"
      /\ \A t \in UserTasks : pc[t] = "user"
      /\ \A t \in Tasks \ UserTasks : t # Daemon => pc[t] = "worker"
  <2>1. \A t \in Threads : pc[t] = CASE t = Boot -> "scheduler_init"
                                   [] t = Daemon -> "scan"
                                   [] t \in UserTasks -> "user"
                                   [] OTHER -> "worker"
    OBVIOUS
  <2>2. \A t \in Threads : pc[t] \in {"scheduler_init", "scan", "user", "worker"}
    BY <2>1
  <2>3. pc \in [Threads -> Pcs]
    BY <2>2 DEF Pcs, BootPcs, DaemonPcs
  <2>4. Boot \in Threads /\ Daemon \in Threads /\ Tasks \subseteq Threads
    OBVIOUS
  <2>5. Boot # Daemon /\ \A t \in Tasks : t # Boot
    OBVIOUS
  <2>6. pc[Boot] = "scheduler_init" /\ pc[Daemon] = "scan"
    BY <2>1, <2>4, <2>5
  <2>7. \A t \in UserTasks : t # Boot /\ t # Daemon /\ t \in Threads
    OBVIOUS
  <2> QED
    BY <2>1, <2>3, <2>4, <2>5, <2>6, <2>7
<1>1. TypeOK
  <2>1. 0 \in Slots
    BY DEF Slots
  <2>2. /\ state \in [Threads -> TaskStates]
        /\ stack_pointer \in [Threads -> Threads]
        /\ queue \in [Slots -> Tasks \cup {NULL}]
    BY DEF TaskStates, TASK_READY
  <2>3. kstack \in [Threads -> Frames \cup {NULL}]
    BY DEF Frames, StackPointers, UserStack, KernelStack
  <2>4. rsp \in StackPointers
    BY DEF StackPointers, KernelStack
  <2>5. cr3 \in Spaces /\ ctx \in Threads /\ queue_length \in 0..MAX_PROCESSES
    OBVIOUS
  <2> QED
    BY <1>0, <2>1, <2>2, <2>3, <2>4, <2>5 DEF TypeOK
<1>2. BootInv
    BY <1>0 DEF BootInv, BootPcs
<1>3. QueueInv
    BY DEF QueueInv, Slots
<1>4. ProgramInv
    BY <1>0 DEF ProgramInv, DaemonPcs, TASK_READY, TASK_DEAD
<1>5. ContextInv
  <2>1. \A t \in Tasks : kstack[t] = [thread |-> t,
            rsp |-> IF t \in UserTasks THEN UserStack(t) ELSE KernelStack(t)]
    OBVIOUS
  <2>2. \A t \in Tasks : kstack[t] # NULL
    BY <2>1, FramesAreNotNull
  <2>3. SavedContextIntact
    BY <1>0, <2>1, <2>2 DEF SavedContextIntact, UserStack, KernelStack
  <2> QED
    BY <1>0, <2>3 DEF ContextInv
<1>6. ReaperInv
    BY <1>0 DEF ReaperInv
<1>7. MainDeathEndsGroup
    BY DEF MainDeathEndsGroup, TASK_READY, TASK_DEAD
<1>8. SpaceInv
    BY DEF SpaceInv
<1>9. ReleasedInv
    BY DEF ReleasedInv
<1> QED
    BY <1>1, <1>2, <1>3, <1>4, <1>5, <1>6, <1>7, <1>8, <1>9 DEF IInv

LEMMA BootPreserves ==
    IInv /\ (BootInit \/ BootAdd \/ BootEnable) => IInv'
<1> SUFFICES ASSUME IInv, BootInit \/ BootAdd \/ BootEnable PROVE IInv'
    OBVIOUS
<1> USE TasksAssumption, QueueAssumption DEF IInv
<1>0. /\ ctx = Boot /\ ~scheduler_running /\ pc[Boot] \in {"scheduler_init", "scheduler_add"}
      /\ UNCHANGED <<scheduler_running, state, switch, user_rsp_scratch, reaper>>
    BY DEF BootInit, BootAdd, BootEnable, ContextInv
<1>1. /\ \A t \in Tasks : pc'[t] = pc[t]
      /\ pc' \in [Threads -> Pcs] /\ pc'[Boot] \in BootPcs
    BY <1>0 DEF BootInit, BootAdd, BootEnable, TypeOK, Pcs, BootPcs, Threads
<1>2. /\ queue' \in [Slots -> Tasks \cup {NULL}]
      /\ queue_length' \in 0..MAX_PROCESSES /\ current_idx' \in Slots
      /\ scheduler_enabled' \in BOOLEAN
  <2>1. CASE BootInit
    <3>1. 0 \in Slots /\ 1 \in 0..MAX_PROCESSES
      BY DEF Slots
    <3> QED
      BY <2>1, <3>1 DEF BootInit, TypeOK
  <2>2. CASE BootAdd
    <3>1. queue_length \in 1..Len(BootOrder)
      BY <2>2 DEF BootAdd, BootInv
    <3>2. BootOrder[queue_length] \in Tasks
      BY <3>1
    <3> QED
      BY <2>2, <3>1, <3>2 DEF BootAdd, TypeOK, Slots
  <2>3. CASE BootEnable
    BY <2>3 DEF BootEnable, TypeOK
  <2> QED
    BY <2>1, <2>2, <2>3
<1>3. TypeOK'
    BY <1>0, <1>1, <1>2 DEF TypeOK, switch, reaper
<1>4. BootInv'
  <2>1. CASE BootInit
    BY <2>1, <1>0 DEF BootInit, BootInv, BootPcs, TypeOK, Threads, switch, reaper
  <2>2. CASE BootAdd
    BY <2>2, <1>0 DEF BootAdd, BootInv, BootPcs, TypeOK, Threads, switch, reaper
  <2>3. CASE BootEnable
    BY <2>3, <1>0 DEF BootEnable, BootInv, BootPcs, TypeOK, Threads, switch, reaper
  <2> QED
    BY <2>1, <2>2, <2>3
<1>5. QueueInv'
  <2>1. CASE BootInit
    BY <2>1, <1>0 DEF BootInit, QueueInv, BootInv, TypeOK, Slots, SlotTask
  <2>2. CASE BootAdd
    <3>1. queue_length \in 1..Len(BootOrder) /\ BootOrder[queue_length] \in Tasks
      BY <2>2 DEF BootAdd, BootInv
    <3> QED
      BY <2>2, <1>0, <3>1 DEF BootAdd, QueueInv, BootInv, TypeOK, Slots, SlotTask
  <2>3. CASE BootEnable
    BY <2>3, <1>0 DEF BootEnable, QueueInv
  <2> QED
    BY <2>1, <2>2, <2>3
<1>6. ProgramInv'
    BY <1>0, <1>1 DEF ProgramInv, switch
<1>7. ContextInv'
    BY <1>0, <1>1 DEF ContextInv, SavedContextIntact, switch
<1>8. \A t \in Tasks : state[t] # TASK_DEAD
    BY <1>0 DEF BootInv, TASK_READY, TASK_DEAD
<1>9. pc[Daemon] = "scan"
    BY <1>0, <1>8 DEF ReaperInv, TypeOK, Slots
<1>10. ReaperInv' /\ MainDeathEndsGroup' /\ SpaceInv' /\ ReleasedInv'
    BY <1>0, <1>1, <1>8, <1>9, ProcessAssumption
    DEF ReaperInv, MainDeathEndsGroup, SpaceInv, ReleasedInv, switch, reaper
<1> QED
    BY <1>3, <1>4, <1>5, <1>6, <1>7, <1>10

\* A tick preserves the invariant, whether the timer raised it or the yield
\* of a task that may be dead.
LEMMA TickPreserves ==
    ASSUME IInv, Tick(ctx),
           UNCHANGED <<user_rsp_scratch, reaper>>,
           \/ UNCHANGED pc /\ pc[ctx] # "int48"
           \/ pc' = [pc EXCEPT ![ctx] = "sysret"] /\ pc[ctx] = "int48"
    PROVE  IInv'
<1> USE TasksAssumption, QueueAssumption, ProcessAssumption
<1>0. IInv
    OBVIOUS
<1>1. /\ scheduler_enabled /\ scheduler_running'
      /\ UNCHANGED <<queue, queue_length, scheduler_enabled>>
      /\ current_idx' \in 0..(queue_length - 1)
      /\ ctx' = queue[current_idx'] /\ ctx' \in Tasks
      /\ state[ctx'] # TASK_DEAD
      /\ Switched \/ (scheduler_running /\ UNCHANGED <<state, switch>>)
    BY TickEffect
<1>2. TypeOK /\ ctx \in Threads
    BY <1>0 DEF IInv, TypeOK
<1>3. /\ pc' \in [Threads -> Pcs]
      /\ \A t \in Threads : t # ctx \/ pc[t] # "int48" => pc'[t] = pc[t]
      /\ pc[ctx] = "int48" => pc'[ctx] = "sysret"
    BY <1>2 DEF TypeOK, Pcs, SyscallPcs
<1>4. \A t \in Threads : pc[t] \notin SyscallPcs => pc'[t] = pc[t]
    BY <1>3 DEF SyscallPcs
<1>5. \A t \in Tasks : (state'[t] = TASK_DEAD) = (state[t] = TASK_DEAD)
  <2>1. CASE Switched
    BY <2>1, <1>1, <1>2 DEF Switched, TypeOK, Threads, TASK_RUNNING, TASK_READY, TASK_DEAD
  <2>2. CASE UNCHANGED state
    BY <2>2
  <2> QED
    BY <1>1, <2>1, <2>2
<1>6. TypeOK'
  <2>1. current_idx' \in Slots
    BY <1>1, <1>2 DEF TypeOK, Slots
  <2>2. CASE Switched
    <3>1. state' \in [Threads -> TaskStates]
      BY <2>2, <1>1, <1>2 DEF Switched, TypeOK, TaskStates, Threads
    <3>2. stack_pointer' \in [Threads -> Threads] /\ rsp0' \in Tasks /\ cr3' \in Spaces
      BY <2>2, <1>1, <1>2 DEF Switched, TypeOK
    <3>3. kstack[ctx'] \in Frames
      BY <2>2, <1>0, <1>1, <1>2 DEF Switched, TypeOK, IInv, ContextInv, SavedContextIntact, Threads
    <3>4. rsp' \in StackPointers
      BY <2>2, <3>3 DEF Switched, Frames
    <3>5. kstack' \in [Threads -> Frames \cup {NULL}]
      BY <2>2, <1>1, <1>2 DEF Switched, TypeOK, Frames, Threads
    <3> QED
      BY <1>1, <1>2, <1>3, <2>1, <3>1, <3>2, <3>4, <3>5 DEF TypeOK, Threads, reaper
  <2>3. CASE UNCHANGED <<state, switch>>
    BY <1>1, <1>2, <1>3, <2>1, <2>3 DEF TypeOK, reaper, switch
  <2> QED
    BY <1>1, <2>2, <2>3
<1>7. BootInv'
    BY <1>0, <1>1, <1>4 DEF IInv, BootInv, BootPcs, SyscallPcs, Threads
<1>8. QueueInv'
    BY <1>0, <1>1 DEF IInv, QueueInv
<1>9. ProgramInv'
  <2>1. ctx' \in Tasks => state'[ctx'] # TASK_DEAD
    BY <1>1, <1>5
  <2>2. /\ \A t \in UserTasks : pc'[t] \in {"user"} \cup SyscallPcs
        /\ pc'[Daemon] \in DaemonPcs
        /\ \A t \in Tasks \ UserTasks : t # Daemon => pc'[t] = "worker"
    BY <1>0, <1>3 DEF IInv, ProgramInv, SyscallPcs, DaemonPcs, Threads
  <2> QED
    BY <2>1, <2>2, <1>0, <1>5 DEF IInv, ProgramInv
<1>10. ContextInv'
  <2>1. CASE Switched
    <3>1. \A t \in Tasks \ {ctx'} : stack_pointer'[t] = t
      BY <2>1, <1>0, <1>2 DEF Switched, IInv, ContextInv, SavedContextIntact, TypeOK, Threads
    <3>2. \A t \in Tasks \ {ctx', ctx} : kstack'[t] = kstack[t] /\ pc'[t] = pc[t]
      BY <2>1, <1>2, <1>3 DEF Switched, TypeOK, Threads
    <3>3. ctx \in Tasks => kstack'[ctx] = [thread |-> ctx, rsp |-> rsp]
      BY <2>1, <1>2 DEF Switched, TypeOK, Threads
    <3>4. ctx \in Tasks => kstack'[ctx] # NULL
      BY <3>3, <1>2, NullAssumption DEF TypeOK, Frames
    <3>5. ctx \in Tasks => IF pc'[ctx] = "user" THEN rsp.mode = "user" ELSE rsp = KernelStack(ctx)
      BY <1>0, <1>2, <1>3 DEF IInv, ContextInv, BootInv
    <3>6. SavedContextIntact'
      BY <3>1, <3>2, <3>3, <3>4, <3>5, <1>0 DEF IInv, ContextInv, SavedContextIntact
    <3>7. pc'[ctx'] = pc[ctx'] /\ stack_pointer'[ctx'] = ctx'
      BY <2>1, <1>0, <1>1, <1>2, <1>3 DEF Switched, IInv, ContextInv, SavedContextIntact, TypeOK, Threads
    <3>8. IF pc[ctx'] = "user" THEN rsp'.mode = "user" ELSE rsp' = KernelStack(ctx')
      BY <2>1, <1>0, <1>1 DEF Switched, IInv, ContextInv, SavedContextIntact
    <3>9. \A t \in Tasks : state'[t] = TASK_RUNNING <=> t = ctx'
      BY <2>1, <1>0, <1>1, <1>2
      DEF Switched, IInv, ContextInv, BootInv, TypeOK, Threads, TASK_RUNNING, TASK_READY
    <3>10. \A t \in UserTasks : pc'[t] # "user" => pc[t] # "user"
      BY <1>3 DEF Threads
    <3>11. user_rsp_scratch # NULL => user_rsp_scratch.mode = "user"
      BY <1>0 DEF IInv, ContextInv
    <3>12. state'[ctx'] = TASK_RUNNING
      BY <3>9, <1>1
    <3> QED
      BY <2>1, <1>0, <1>1, <3>6, <3>7, <3>8, <3>9, <3>10, <3>11, <3>12
      DEF Switched, IInv, ContextInv, TASK_RUNNING, TASK_READY
  <2>2. CASE scheduler_running /\ UNCHANGED <<state, switch>>
    BY <2>2, <1>0, <1>1, <1>3 DEF IInv, ContextInv, SavedContextIntact, switch, Threads
  <2> QED
    BY <1>1, <2>1, <2>2
<1>11. ReaperInv'
  <2>1. /\ pc'[Daemon] = pc[Daemon] /\ i' = i /\ proc' = proc /\ queue' = queue
        /\ destroyed' = destroyed
    BY <1>0, <1>1, <1>4 DEF IInv, ProgramInv, DaemonPcs, SyscallPcs, Threads, reaper
  <2>2. queue[i] # NULL => queue[i] \in Tasks
    BY <1>2 DEF TypeOK
  <2> QED
    BY <2>1, <2>2, <1>0, <1>5 DEF IInv, ReaperInv
<1>12. MainDeathEndsGroup'
    BY <1>0, <1>1, <1>5 DEF IInv, MainDeathEndsGroup, InQueue
<1>13. SpaceInv'
  <2>1. \A s \in destroyed' : \E p \in Procs :
            s = SpaceOf[p] /\ MainOf[p] \in UserTasks /\ state'[MainOf[p]] = TASK_DEAD
    BY <1>0, <1>5 DEF IInv, SpaceInv, reaper
  <2>2. CASE Switched
    <3>1. SUFFICES ASSUME NEW p \in Procs, SpaceOf[ProcOf[ctx']] = SpaceOf[p],
                          MainOf[p] \in UserTasks, state[MainOf[p]] = TASK_DEAD
                   PROVE FALSE
      BY <2>1, <2>2, <1>0 DEF Switched, IInv, SpaceInv, reaper
    <3>2. ProcOf[ctx'] = p
      BY <3>1, <1>1
    <3>3. InQueue(ctx')
      BY <1>1 DEF InQueue
    <3> QED
      BY <3>1, <3>2, <3>3, <1>0, <1>1 DEF IInv, MainDeathEndsGroup
  <2>3. CASE UNCHANGED <<state, switch>>
    BY <2>3, <1>0 DEF IInv, SpaceInv, switch, reaper
  <2> QED
    BY <1>1, <2>1, <2>2, <2>3 DEF SpaceInv
<1>14. ReleasedInv'
  <2>1. pc'[Daemon] = pc[Daemon] /\ i' = i /\ released' = released
    BY <1>0, <1>1, <1>4 DEF IInv, ProgramInv, DaemonPcs, SyscallPcs, Threads, reaper
  <2> QED
    BY <2>1, <1>0, <1>1, <1>5 DEF IInv, ReleasedInv, InQueue
<1> QED
    BY <1>6, <1>7, <1>8, <1>9, <1>10, <1>11, <1>12, <1>13, <1>14 DEF IInv

\* A thread in user mode or in a system call is a live user task that the
\* scheduler takes for the current one.
LEMMA SyscallCaller ==
    ASSUME IInv, pc[ctx] \in {"user"} \cup SyscallPcs
    PROVE  /\ scheduler_running
           /\ ctx \in UserTasks /\ ctx # Daemon
           /\ CurrentTask = ctx
           /\ InQueue(ctx)
           /\ pc[ctx] # "int48" => state[ctx] # TASK_DEAD
<1> USE TasksAssumption
<1>1. ctx \in Threads
    BY DEF IInv, TypeOK
<1>2. ctx # Boot
    BY DEF IInv, BootInv, BootPcs, SyscallPcs
<1>3. scheduler_running
    BY <1>2 DEF IInv, BootInv
<1>4. ctx \in UserTasks /\ ctx # Daemon
    BY <1>1, <1>2 DEF IInv, ProgramInv, SyscallPcs, DaemonPcs, Threads
<1>5. CurrentTask = ctx
    BY <1>3 DEF IInv, ContextInv, CurrentTask
<1>6. current_idx \in 0..(queue_length - 1)
    BY <1>1, <1>2, <1>5, QueueAssumption DEF IInv, TypeOK, QueueInv, CurrentTask, Slots, Threads
<1>7. InQueue(ctx)
    BY <1>5, <1>6 DEF InQueue, CurrentTask
<1>8. pc[ctx] # "int48" => state[ctx] # TASK_DEAD
    BY <1>4 DEF IInv, ProgramInv
<1> QED
    BY <1>3, <1>4, <1>5, <1>7, <1>8

\* The steps of a system call but the tick: the caller moves to label l, it
\* and some of its group may die, and rsp follows the mode.
SyscallMove(l) ==
    /\ pc[ctx] \in {"user"} \cup SyscallPcs
    /\ pc' = [pc EXCEPT ![ctx] = l]
    /\ UNCHANGED <<sched, stack_pointer, kstack, rsp0, cr3, ctx, reaper>>
    /\ user_rsp_scratch' \in StackPointers /\ user_rsp_scratch'.mode = "user"
    /\ rsp' \in StackPointers
    /\ IF l = "user" THEN rsp'.mode = "user" ELSE rsp' = KernelStack(ctx)
    /\ \/ UNCHANGED state /\ pc[ctx] # "int48"
       \/ /\ l = "int48"
          /\ \E S \in SUBSET TasksOf(ProcOf[ctx]) :
                /\ Remove(S)
                /\ MainOf[ProcOf[ctx]] \in S => S = TasksOf(ProcOf[ctx])

LEMMA SyscallMovePreserves ==
    ASSUME IInv, NEW l \in {"user"} \cup SyscallPcs, SyscallMove(l)
    PROVE  IInv'
<1> USE TasksAssumption, QueueAssumption, ProcessAssumption
<1>0. IInv
    OBVIOUS
<1>1. /\ scheduler_running
      /\ ctx \in UserTasks /\ ctx # Daemon
      /\ CurrentTask = ctx
      /\ InQueue(ctx)
      /\ pc[ctx] # "int48" => state[ctx] # TASK_DEAD
    BY SyscallCaller DEF SyscallMove
<1>2. /\ UNCHANGED <<queue, queue_length, current_idx, scheduler_running, scheduler_enabled,
                     stack_pointer, kstack, rsp0, cr3, ctx, i, proc, destroyed, released>>
      /\ TypeOK
    BY DEF SyscallMove, sched, reaper, IInv
<1>3. pc' \in [Threads -> Pcs] /\ pc'[ctx] = l /\ \A t \in Threads : t # ctx => pc'[t] = pc[t]
    BY <1>2 DEF SyscallMove, TypeOK, Pcs
<1>4. /\ state' \in [Threads -> TaskStates]
      /\ \A t \in Threads : state'[t] = state[t] \/ state'[t] = TASK_DEAD
      /\ \A t \in Tasks : state'[t] # state[t] => t \in UserTasks /\ l = "int48"
      /\ \A t \in Tasks : state'[t] = TASK_DEAD => state[t] = TASK_DEAD \/ l = "int48"
      /\ \A t \in Tasks : InQueue(t) /\ state'[MainOf[ProcOf[t]]] = TASK_DEAD => state'[t] = TASK_DEAD
  <2>1. CASE UNCHANGED state /\ pc[ctx] # "int48"
    BY <2>1, <1>0, <1>2 DEF TypeOK, IInv, MainDeathEndsGroup
  <2>2. ASSUME NEW S \in SUBSET TasksOf(ProcOf[ctx]), l = "int48", Remove(S),
               MainOf[ProcOf[ctx]] \in S => S = TasksOf(ProcOf[ctx])
        PROVE  <1>4
    <3>1. S \subseteq UserTasks
      BY <2>2, <1>1 DEF TasksOf
    <3>2. /\ state' \in [Threads -> TaskStates]
          /\ \A t \in Threads : state'[t] = state[t] \/ state'[t] = TASK_DEAD
          /\ \A t \in Tasks : state'[t] # state[t] => t \in UserTasks
      BY <2>2, <3>1, <1>2 DEF Remove, TypeOK, TaskStates, Threads
    <3>3. ASSUME NEW t \in Tasks, InQueue(t), state'[MainOf[ProcOf[t]]] = TASK_DEAD
          PROVE  state'[t] = TASK_DEAD
      <4>1. CASE state[MainOf[ProcOf[t]]] = TASK_DEAD
        BY <4>1, <3>2, <3>3, <1>0 DEF IInv, MainDeathEndsGroup, Threads
      <4>2. CASE state[MainOf[ProcOf[t]]] # TASK_DEAD
        <5>1. MainOf[ProcOf[t]] \in S
          BY <4>2, <3>3, <2>2 DEF Remove, Threads
        <5>2. ProcOf[t] = ProcOf[ctx]
          BY <5>1 DEF TasksOf
        <5>3. t \in S
          BY <5>1, <5>2, <2>2 DEF TasksOf
        <5> QED
          BY <5>3, <3>3, <2>2 DEF Remove, Threads
      <4> QED
        BY <4>1, <4>2
    <3> QED
      BY <2>2, <3>2, <3>3
  <2> QED
    BY <2>1, <2>2 DEF SyscallMove
<1>5. TypeOK'
    BY <1>2, <1>3, <1>4 DEF TypeOK, SyscallMove
<1>6. BootInv'
    BY <1>0, <1>1, <1>2, <1>3 DEF IInv, BootInv, Threads
<1>7. QueueInv'
    BY <1>0, <1>2 DEF IInv, QueueInv
<1>8. ProgramInv'
    BY <1>0, <1>1, <1>2, <1>3, <1>4 DEF IInv, ProgramInv, Threads, SyscallMove
<1>9. ContextInv'
  <2>1. \A t \in Tasks : state'[t] = TASK_RUNNING => state[t] = TASK_RUNNING
    BY <1>4 DEF Threads, TASK_RUNNING, TASK_DEAD
  <2>2. state'[ctx] # TASK_READY
    BY <1>0, <1>1, <1>4 DEF IInv, ContextInv, Threads, TASK_READY, TASK_DEAD
  <2>3. user_rsp_scratch' # NULL
    BY NullAssumption DEF SyscallMove
  <2>4. SavedContextIntact'
    BY <1>0, <1>2, <1>3 DEF IInv, ContextInv, SavedContextIntact, Threads
  <2> QED
    BY <1>0, <1>1, <1>2, <1>3, <2>1, <2>2, <2>3, <2>4 DEF IInv, ContextInv, SyscallMove
<1>10. ReaperInv'
  <2>1. pc'[Daemon] = pc[Daemon]
    BY <1>1, <1>3 DEF Threads
  <2>2. queue[i] # NULL => queue[i] \in Tasks
    BY <1>2 DEF TypeOK
  <2> QED
    BY <2>1, <2>2, <1>0, <1>2, <1>4 DEF IInv, ReaperInv, Threads
<1>11. MainDeathEndsGroup'
    BY <1>2, <1>4 DEF MainDeathEndsGroup, InQueue
<1>12. SpaceInv'
    BY <1>0, <1>2, <1>4 DEF IInv, SpaceInv, Threads
<1>13. ReleasedInv'
  <2>1. pc'[Daemon] = pc[Daemon]
    BY <1>1, <1>3 DEF Threads
  <2> QED
    BY <2>1, <1>0, <1>2, <1>4 DEF IInv, ReleasedInv, InQueue, Threads
<1> QED
    BY <1>5, <1>6, <1>7, <1>8, <1>9, <1>10, <1>11, <1>12, <1>13 DEF IInv

LEMMA SyscallPreserves ==
    IInv /\ (\/ \E nr \in {"yield", "exit", "exit_group", "other"} : SysEnter(nr)
             \/ SysOther \/ SysYield \/ SysExit \/ SysExitGroup \/ SysReturn)
    => IInv'
<1> SUFFICES ASSUME IInv,
                    \/ \E nr \in {"yield", "exit", "exit_group", "other"} : SysEnter(nr)
                    \/ SysOther \/ SysYield \/ SysExit \/ SysExitGroup \/ SysReturn
             PROVE  IInv'
    OBVIOUS
<1>1. pc[ctx] \in {"user"} \cup SyscallPcs
    BY DEF SysEnter, SysOther, SysYield, SysExit, SysExitGroup, SysReturn, SyscallPcs
<1>2. /\ scheduler_running
      /\ ctx \in UserTasks /\ ctx # Daemon
      /\ CurrentTask = ctx
      /\ pc[ctx] # "int48" => state[ctx] # TASK_DEAD
    BY <1>1, SyscallCaller
<1>3. /\ pc[ctx] = "user" => rsp.mode = "user" /\ rsp0 = ctx
      /\ pc[ctx] # "user" => rsp = KernelStack(ctx)
                             /\ user_rsp_scratch # NULL /\ user_rsp_scratch.mode = "user"
      /\ rsp \in StackPointers /\ user_rsp_scratch \in StackPointers \cup {NULL}
    BY <1>2 DEF IInv, ContextInv, TypeOK
<1>4. KernelStack(ctx) \in StackPointers
    BY <1>2, TasksAssumption DEF KernelStack, StackPointers, Threads
<1>5. ASSUME NEW nr \in {"yield", "exit", "exit_group", "other"}, SysEnter(nr)
      PROVE  IInv'
  <2>1. SyscallMove(nr)
    BY <1>1, <1>3, <1>4, <1>5 DEF SysEnter, Goto, SyscallMove
  <2> QED
    BY <2>1, SyscallMovePreserves DEF SyscallPcs
<1>6. CASE SysOther
  <2>1. SyscallMove("sysret")
    BY <1>1, <1>3, <1>6 DEF SysOther, Goto, SyscallMove, switch
  <2> QED
    BY <2>1, SyscallMovePreserves DEF SyscallPcs
<1>7. CASE SysYield
  <2>1. SyscallMove("int48")
    BY <1>1, <1>3, <1>7 DEF SysYield, Goto, SyscallMove, switch
  <2> QED
    BY <2>1, SyscallMovePreserves DEF SyscallPcs
<1>8. CASE SysExit
  <2>1. CASE MainOf[ProcOf[CurrentTask]] = CurrentTask
    <3>1. SyscallMove("exit_group")
      BY <1>1, <1>3, <1>8, <2>1 DEF SysExit, Goto, SyscallMove, switch
    <3> QED
      BY <3>1, SyscallMovePreserves DEF SyscallPcs
  <2>2. CASE MainOf[ProcOf[CurrentTask]] # CurrentTask
    <3>1. {ctx} \in SUBSET TasksOf(ProcOf[ctx])
      BY <1>2, TasksAssumption DEF TasksOf
    <3>2. SyscallMove("int48")
      BY <1>1, <1>2, <1>3, <1>8, <2>2, <3>1 DEF SysExit, Goto, SyscallMove, switch
    <3> QED
      BY <3>2, SyscallMovePreserves DEF SyscallPcs
  <2> QED
    BY <2>1, <2>2
<1>9. CASE SysExitGroup
  <2>1. SyscallMove("int48")
    BY <1>1, <1>2, <1>3, <1>9 DEF SysExitGroup, Goto, SyscallMove, switch
  <2> QED
    BY <2>1, SyscallMovePreserves DEF SyscallPcs
<1>10. CASE SysReturn
  <2>1. SyscallMove("user")
    BY <1>1, <1>3, <1>10 DEF SysReturn, Goto, SyscallMove
  <2> QED
    BY <2>1, SyscallMovePreserves
<1> QED
    BY <1>5, <1>6, <1>7, <1>8, <1>9, <1>10

LEMMA DaemonPreserves == IInv /\ DaemonStep => IInv'
<1> SUFFICES ASSUME IInv, DaemonStep PROVE IInv'
    OBVIOUS
<1> USE TasksAssumption, QueueAssumption, ProcessAssumption DEF DaemonAt
<1>0. /\ IInv /\ TypeOK
      /\ ctx = Daemon /\ Daemon \in Threads
      /\ UNCHANGED <<queue_length, current_idx, scheduler_running, scheduler_enabled,
                     state, switch, user_rsp_scratch>>
    BY DEF IInv, DaemonStep, DaemonScan, DaemonIsMain, DaemonTaskDestroy, DaemonVmmDestroy,
           DaemonProcFree, DaemonClear, sched, Threads
<1>1. /\ scheduler_running /\ queue[current_idx] = Daemon /\ queue[0] = Daemon
      /\ queue_length # 0 /\ queue_length \in 0..MAX_PROCESSES
      /\ state[Daemon] # TASK_DEAD /\ Daemon \in Tasks
  <2>1. scheduler_running
    BY <1>0 DEF IInv, BootInv
  <2> QED
    BY <1>0, <2>1 DEF IInv, BootInv, QueueInv, ContextInv, ProgramInv, TypeOK
<1>2. /\ pc' \in [Threads -> Pcs] /\ pc'[Daemon] \in DaemonPcs
      /\ \A t \in Threads : t # Daemon => pc'[t] = pc[t]
  <2>1. \E l \in DaemonPcs : pc' = [pc EXCEPT ![Daemon] = l]
    BY DEF DaemonStep, DaemonScan, DaemonIsMain, DaemonTaskDestroy,
           DaemonVmmDestroy, DaemonProcFree, DaemonClear, ScanNext, DaemonPcs
  <2> QED
    BY <2>1, <1>0 DEF TypeOK, Pcs
<1>3. pc[Daemon] # "scan" =>
          queue[i] \in UserTasks /\ state[queue[i]] = TASK_DEAD /\ i # current_idx /\ i # 0
    BY <1>0, <1>1 DEF IInv, TypeOK, ReaperInv, ProgramInv
<1>4. /\ queue' \in [Slots -> Tasks \cup {NULL}]
      /\ \A n \in Slots : queue'[n] = queue[n] \/ (queue'[n] = NULL /\ n # 0 /\ n # current_idx)
  <2>1. CASE DaemonClear
    BY <2>1, <1>0, <1>3 DEF DaemonClear, TypeOK
  <2>2. CASE ~DaemonClear
    BY <2>2, <1>0 DEF TypeOK, DaemonStep, DaemonScan, DaemonIsMain, DaemonTaskDestroy,
                      DaemonVmmDestroy, DaemonProcFree, sched
  <2> QED
    BY <2>1, <2>2
<1>5. i' \in Slots
  <2>1. i \in Nat /\ MAX_PROCESSES \in Nat /\ 0 \in Slots
    BY <1>0, <1>1 DEF TypeOK, Slots
  <2>2. (IF i + 1 < queue_length THEN i + 1 ELSE 0) \in Slots
    BY <2>1, <1>1 DEF Slots
  <2> QED
    BY <1>0, <2>2 DEF TypeOK, DaemonStep, DaemonScan, DaemonIsMain, DaemonTaskDestroy,
                      DaemonVmmDestroy, DaemonProcFree, DaemonClear, ScanNext
<1>6. proc' \in Procs \cup {NULL} /\ destroyed' \subseteq Spaces
      /\ released' \subseteq Tasks \cup Procs
    BY <1>0, <1>3 DEF TypeOK, DaemonStep, DaemonScan, DaemonIsMain, DaemonTaskDestroy,
       DaemonVmmDestroy, DaemonProcFree, DaemonClear, IInv, ReaperInv
<1>7. TypeOK'
    BY <1>0, <1>2, <1>4, <1>5, <1>6 DEF TypeOK, switch
<1>8. BootInv'
    BY <1>0, <1>1, <1>2 DEF IInv, BootInv, switch, Threads
<1>9. QueueInv'
    BY <1>0, <1>1, <1>4 DEF IInv, QueueInv, Slots, TypeOK
<1>10. ProgramInv'
    BY <1>0, <1>1, <1>2 DEF IInv, ProgramInv, switch, Threads
<1>11. ContextInv'
  <2>1. queue'[current_idx] = Daemon
    BY <1>0, <1>1, <1>4 DEF TypeOK
  <2>2. pc[Daemon] # "user" /\ pc'[Daemon] # "user"
    BY <1>0, <1>2 DEF IInv, ProgramInv, DaemonPcs
  <2>3. SavedContextIntact'
    BY <1>0, <1>2 DEF IInv, ContextInv, SavedContextIntact, switch, Threads
  <2> QED
    BY <2>1, <2>2, <2>3, <1>0, <1>1, <1>2 DEF IInv, ContextInv, switch, Threads
<1>12. ReaperInv'
    BY <1>0, <1>3 DEF IInv, ReaperInv, TypeOK, switch, sched, DaemonStep, DaemonScan, DaemonIsMain,
       DaemonTaskDestroy, DaemonVmmDestroy, DaemonProcFree, DaemonClear, ScanNext
<1>13. MainDeathEndsGroup'
  <2>1. \A t \in Tasks : InQueue(t)' => InQueue(t)
    BY <1>0, <1>1, <1>4 DEF InQueue, Slots
  <2> QED
    BY <2>1, <1>0 DEF IInv, MainDeathEndsGroup
<1>14. SpaceInv'
  <2>1. CASE DaemonVmmDestroy
    <3>1. proc \in Procs /\ MainOf[proc] \in UserTasks /\ state[MainOf[proc]] = TASK_DEAD
          /\ destroyed' = destroyed \cup {SpaceOf[proc]}
      BY <2>1, <1>0, <1>3 DEF DaemonVmmDestroy, IInv, ReaperInv, TypeOK
    <3>2. cr3 = SpaceOf[ProcOf[Daemon]]
      BY <1>0, <1>1 DEF IInv, ContextInv
    <3>3. SpaceOf[proc] # SpaceOf[ProcOf[Daemon]]
      BY <3>1
    <3> QED
      BY <3>1, <3>2, <3>3, <1>0 DEF IInv, SpaceInv, switch
  <2>2. CASE ~DaemonVmmDestroy
    BY <2>2, <1>0 DEF IInv, SpaceInv, DaemonStep, DaemonScan, DaemonIsMain, DaemonTaskDestroy,
       DaemonProcFree, DaemonClear, switch
  <2> QED
    BY <2>1, <2>2
<1>15. \A t \in Tasks : InQueue(t)' => InQueue(t)
    BY <1>0, <1>1, <1>4 DEF InQueue, Slots
<1>16. pc[Daemon] # "scan" => InQueue(queue[i])
    BY <1>0, <1>1, <1>3 DEF IInv, QueueInv, TypeOK, InQueue, Slots
<1>17. ReleasedInv'
  <2>1. CASE DaemonTaskDestroy
    BY <2>1, <1>0, <1>3, <1>15, <1>16 DEF DaemonTaskDestroy, IInv, ReleasedInv, ReaperInv, TypeOK, sched, InQueue
  <2>2. CASE DaemonVmmDestroy
    BY <2>2, <1>0, <1>3, <1>15 DEF DaemonVmmDestroy, IInv, ReleasedInv, TypeOK, sched, InQueue
  <2>3. CASE DaemonProcFree
    BY <2>3, <1>0, <1>3, <1>15 DEF DaemonProcFree, IInv, ReleasedInv, ReaperInv, TypeOK, sched, InQueue
  <2>4. CASE DaemonClear
    <3>1. \A n \in 0..(queue_length - 1) : queue'[n] # queue[i]
      <4>1. ASSUME NEW n \in 0..(queue_length - 1), queue'[n] = queue[i]
            PROVE  FALSE
        <5>1. n \in Slots /\ n \in 0..Len(BootOrder) /\ i \in Slots
          BY <1>0, <1>1 DEF IInv, BootInv, TypeOK, Slots
        <5>2. queue[i] # NULL /\ queue[n] = queue[i] /\ n # i
          BY <2>4, <4>1, <5>1, <1>0, <1>3 DEF DaemonClear, TypeOK
        <5>3. i \in 0..Len(BootOrder)
          BY <5>1, <5>2, <1>0, <1>1 DEF IInv, BootInv, QueueInv, TypeOK, Slots
        <5> QED
          BY <5>1, <5>2, <5>3, <1>0, SlotTasksDiffer DEF IInv, QueueInv
      <4> QED
        BY <4>1
    <3>2. \A t \in Tasks : InQueue(t)' => t # queue[i]
      BY <3>1, <1>0 DEF InQueue
    <3>3. released' = released /\ state' = state
      BY <2>4, <1>0 DEF DaemonClear
    <3> QED
      BY <3>2, <3>3, <1>0, <1>15, ProcessAssumption DEF IInv, ReleasedInv
  <2>5. CASE DaemonScan \/ DaemonIsMain
    <3>1. released' = released /\ state' = state /\ pc[Daemon] \in {"scan", "is_main"}
      BY <2>5, <1>0 DEF DaemonScan, DaemonIsMain
    <3> QED
      BY <3>1, <1>0, <1>15 DEF IInv, ReleasedInv
  <2> QED
    BY <2>1, <2>2, <2>3, <2>4, <2>5 DEF DaemonStep
<1> QED
    BY <1>7, <1>8, <1>9, <1>10, <1>11, <1>12, <1>13, <1>14, <1>17 DEF IInv

LEMMA StutteringPreserves == IInv /\ UNCHANGED vars => IInv'
<1> SUFFICES ASSUME IInv, UNCHANGED vars PROVE IInv'
    OBVIOUS
<1>1. UNCHANGED <<queue, queue_length, current_idx, scheduler_running, scheduler_enabled, state,
                  stack_pointer, kstack, rsp0, cr3, ctx, rsp, user_rsp_scratch, pc,
                  i, proc, destroyed, released>>
    BY DEF vars, sched, switch, reaper
<1> QED
    BY <1>1 DEF IInv, TypeOK, BootInv, QueueInv, ProgramInv, ContextInv, SavedContextIntact,
       ReaperInv, MainDeathEndsGroup, SpaceInv, ReleasedInv, InQueue

\* The two actions that tick do so on the executing thread's own stack.
LEMMA TicksOnOwnStack ==
    IInv => /\ TimerTick => Tick(ctx) /\ UNCHANGED pc /\ pc[ctx] # "int48"
            /\ YieldInterrupt => /\ Tick(ctx) /\ pc[ctx] = "int48"
                                 /\ pc' = [pc EXCEPT ![ctx] = "sysret"]
  BY OwnStackInterrupted DEF TimerTick, YieldInterrupt, Goto, SyscallPcs

LEMMA NextPreserves == IInv /\ [Next]_vars => IInv'
<1> SUFFICES ASSUME IInv, [Next]_vars PROVE IInv'
    OBVIOUS
<1>1. CASE BootInit \/ BootAdd \/ BootEnable
    BY <1>1, BootPreserves
<1>2. CASE TimerTick
    BY <1>2, TicksOnOwnStack, TickPreserves DEF TimerTick
<1>3. CASE YieldInterrupt
    BY <1>3, TicksOnOwnStack, TickPreserves DEF YieldInterrupt
<1>4. CASE \/ \E nr \in {"yield", "exit", "exit_group", "other"} : SysEnter(nr)
           \/ SysOther \/ SysYield \/ SysExit \/ SysExitGroup \/ SysReturn
    BY <1>4, SyscallPreserves
<1>5. CASE DaemonStep
    BY <1>5, DaemonPreserves
<1>6. CASE UNCHANGED vars
    BY <1>6, StutteringPreserves
<1> QED
    BY <1>1, <1>2, <1>3, <1>4, <1>5, <1>6 DEF Next, Syscall

----------------------------------------------------------------------------
(* The safety properties. *)

\* IInv holds in every reachable state of the scheduler.
THEOREM InductiveInvariant == Spec => []IInv
<1>1. Init => IInv
    BY InitEstablishes
<1>2. IInv /\ [Next]_vars => IInv'
    BY NextPreserves
<1> QED
    BY <1>1, <1>2, PTL DEF Spec

\* No index leaves the queue and no variable its type, in particular
\* queue_length never passes MAX_PROCESSES: scheduler_add() does not test it,
\* but kmain() adds no more than QueueAssumption allows.
THEOREM TypeCorrect == Spec => []TypeOK
<1>1. IInv => TypeOK
    BY DEF IInv
<1> QED
    BY <1>1, InductiveInvariant, PTL

\* The task scheduler_get_current() names is the one that executes, and the
\* CPU uses that task's kernel stack and address space.
THEOREM CurrentTaskIsExecuting == Spec => []CpuBelongsToTask
<1>1. IInv => CpuBelongsToTask
    BY DEF IInv, ContextInv, CpuBelongsToTask, CurrentTask
<1> QED
    BY <1>1, InductiveInvariant, PTL

\* Every task that does not execute can be resumed from its own stack.
THEOREM ContextsSurvive == Spec => []SavedContextIntact
<1>1. IInv => SavedContextIntact
    BY DEF IInv, ContextInv
<1> QED
    BY <1>1, InductiveInvariant, PTL

\* The death of a main task is the death of its group.
THEOREM GroupsDieTogether == Spec => []MainDeathEndsGroup
<1>1. IInv => MainDeathEndsGroup
    BY DEF IInv
<1> QED
    BY <1>1, InductiveInvariant, PTL

\* vmm_destroy() never takes a space from under a task that may run.
THEOREM DestroyedSpacesUnused == Spec => []NoUseOfDestroyedSpace
<1>1. IInv => NoUseOfDestroyedSpace
  <2> SUFFICES ASSUME IInv PROVE NoUseOfDestroyedSpace
    OBVIOUS
  <2>1. cr3 \notin destroyed
    BY DEF IInv, SpaceInv
  <2>2. ASSUME NEW t \in Tasks, InQueue(t), SpaceOf[ProcOf[t]] \in destroyed
        PROVE  state[t] = TASK_DEAD
    <3>1. PICK p \in Procs : /\ SpaceOf[ProcOf[t]] = SpaceOf[p]
                             /\ MainOf[p] \in UserTasks
                             /\ state[MainOf[p]] = TASK_DEAD
      BY <2>2 DEF IInv, SpaceInv
    <3>2. ProcOf[t] = p
      BY <3>1, ProcessAssumption
    <3> QED
      BY <2>2, <3>1, <3>2 DEF IInv, MainDeathEndsGroup
  <2> QED
    BY <2>1, <2>2 DEF NoUseOfDestroyedSpace
<1> QED
    BY <1>1, InductiveInvariant, PTL

\* scheduler_tick() always has a task to switch to.
THEOREM NextTaskAlwaysExists == Spec => []NextTaskExists
<1>1. IInv => NextTaskExists
    BY NextIsSchedulable, QueueAssumption DEF IInv, BootInv, NextTaskExists, BootPcs
<1> QED
    BY <1>1, InductiveInvariant, PTL

\* Death is final, on the CPU too.
THEOREM DeathIsFinal == Spec => DeadStaysDead
<1> DEFINE Final(t) == state[t] = TASK_DEAD =>
                          /\ state'[t] = TASK_DEAD
                          /\ ctx' = t => ctx = t
                          /\ pc[t] # "user" => pc'[t] # "user"
<1>1. IInv /\ [Next]_vars => [\A t \in Tasks : Final(t)]_vars
  <2> SUFFICES ASSUME IInv, Next, NEW t \in Tasks, state[t] = TASK_DEAD
               PROVE  Final(t)
    OBVIOUS
  <2>0. /\ t \in Threads /\ t # Boot /\ TypeOK
        /\ pc[ctx] \in {"user"} \cup SyscallPcs /\ pc[ctx] # "int48" => t # ctx
    BY TasksAssumption, SyscallCaller DEF IInv, Threads
  <2>1. CASE BootInit \/ BootAdd \/ BootEnable
    BY <2>0, <2>1 DEF BootInit, BootAdd, BootEnable, switch, TypeOK
  <2>2. CASE TimerTick \/ YieldInterrupt
    <3>1. Tick(ctx)
      BY <2>2, TicksOnOwnStack
    <3>2. state[ctx'] # TASK_DEAD /\ (Switched \/ UNCHANGED <<state, switch>>)
      BY <3>1, TickEffect
    <3>3. state'[t] = TASK_DEAD /\ ctx' # t
      BY <2>0, <3>1, <3>2, TickEffect
      DEF Switched, TypeOK, TASK_DEAD, TASK_RUNNING, TASK_READY
    <3>4. pc[t] # "user" => pc'[t] # "user"
      BY <2>0, <2>2 DEF TimerTick, YieldInterrupt, Goto, TypeOK
    <3> QED
      BY <3>3, <3>4
  <2>3. CASE \/ \E nr \in {"yield", "exit", "exit_group", "other"} : SysEnter(nr)
             \/ SysOther \/ SysYield \/ SysExit \/ SysExitGroup \/ SysReturn
    <3>1. /\ pc[ctx] \in {"user"} \cup SyscallPcs /\ pc[ctx] # "int48"
          /\ ctx' = ctx
          /\ state' = state \/ \E S : Remove(S)
          /\ \E l : pc' = [pc EXCEPT ![ctx] = l]
      BY <2>3 DEF SysEnter, SysOther, SysYield, SysExit, SysExitGroup, SysReturn, Goto,
                  SyscallPcs, switch
    <3>2. state'[t] = TASK_DEAD
      BY <2>0, <3>1 DEF Remove
    <3>3. pc'[t] = pc[t]
      BY <2>0, <3>1 DEF TypeOK
    <3> QED
      BY <3>1, <3>2, <3>3
  <2>4. CASE DaemonStep
    <3>1. t # Daemon
      BY TasksAssumption DEF IInv, ProgramInv
    <3>2. state' = state /\ ctx' = ctx /\ \E l : pc' = [pc EXCEPT ![Daemon] = l]
      BY <2>4 DEF DaemonStep, DaemonScan, DaemonIsMain, DaemonTaskDestroy, DaemonVmmDestroy,
                  DaemonProcFree, DaemonClear, ScanNext, switch
    <3> QED
      BY <2>0, <3>1, <3>2 DEF TypeOK
  <2> QED
    BY <2>1, <2>2, <2>3, <2>4 DEF Next, Syscall
<1> QED
    BY <1>1, InductiveInvariant, PTL DEF Spec, DeadStaysDead

\* kmain()'s final loop is never resumed.
THEOREM BootThreadIsGone == Spec => BootNeverResumes
<1>1. IInv /\ [Next]_vars => [scheduler_running => ctx' # Boot]_vars
  <2> SUFFICES ASSUME IInv, Next, scheduler_running PROVE ctx' # Boot
    OBVIOUS
  <2>1. ctx \in Tasks /\ ctx # Boot
    BY TasksAssumption DEF IInv, ContextInv
  <2>2. CASE TimerTick \/ YieldInterrupt
    BY <2>2, TicksOnOwnStack, TickEffect, TasksAssumption
  <2>3. CASE ~(TimerTick \/ YieldInterrupt)
    <3>1. ctx' = ctx
      BY <2>3 DEF Next, BootInit, BootAdd, BootEnable, Syscall, SysEnter, SysOther, SysYield,
         SysExit, SysExitGroup, SysReturn, DaemonStep, DaemonScan, DaemonIsMain,
         DaemonTaskDestroy, DaemonVmmDestroy, DaemonProcFree, DaemonClear, switch
    <3> QED
      BY <2>1, <3>1
  <2> QED
    BY <2>2, <2>3
<1> QED
    BY <1>1, InductiveInvariant, PTL DEF Spec, BootNeverResumes

\* The daemon's slot is in use while it works on it.
LEMMA ReapedSlotInQueue ==
    ASSUME IInv, pc[Daemon] # "scan"
    PROVE  /\ queue[i] \in UserTasks /\ state[queue[i]] = TASK_DEAD
           /\ InQueue(queue[i])
<1>1. queue[i] \in UserTasks /\ state[queue[i]] = TASK_DEAD /\ i \in Slots
    BY DEF IInv, TypeOK, ReaperInv, ProgramInv
<1>2. i \in 0..(queue_length - 1)
    BY <1>1, TasksAssumption, QueueAssumption DEF IInv, TypeOK, QueueInv, Slots
<1> QED
    BY <1>1, <1>2 DEF InQueue

\* Nothing is freed twice, and nothing alive is freed.
THEOREM FreedOnce == Spec => ReleasedOnceWhenDead
<1> DEFINE
        Once == /\ DaemonTaskDestroy => /\ queue[i] \notin released
                                        /\ state[queue[i]] = TASK_DEAD /\ queue[i] # ctx
                /\ DaemonProcFree => /\ proc \notin released
                                     /\ \A t \in TasksOf(proc) : InQueue(t) => state[t] = TASK_DEAD
<1>1. IInv => Once
  <2> SUFFICES ASSUME IInv PROVE Once
    OBVIOUS
  <2>1. ASSUME DaemonTaskDestroy
        PROVE  queue[i] \notin released /\ state[queue[i]] = TASK_DEAD /\ queue[i] # ctx
    <3>1. pc[Daemon] = "task_destroy" /\ ctx = Daemon
      BY <2>1 DEF DaemonTaskDestroy, DaemonAt
    <3>2. queue[i] \in UserTasks /\ state[queue[i]] = TASK_DEAD /\ InQueue(queue[i])
      BY <3>1, ReapedSlotInQueue
    <3> QED
      BY <3>1, <3>2, TasksAssumption DEF IInv, ReleasedInv
  <2>2. ASSUME DaemonProcFree
        PROVE  /\ proc \notin released
               /\ \A t \in TasksOf(proc) : InQueue(t) => state[t] = TASK_DEAD
    <3>1. pc[Daemon] = "proc_free"
      BY <2>2 DEF DaemonProcFree, DaemonAt
    <3>2. proc \in Procs /\ MainOf[proc] = queue[i]
      BY <3>1 DEF IInv, ReaperInv, TypeOK
    <3>3. state[queue[i]] = TASK_DEAD /\ InQueue(queue[i])
      BY <3>1, ReapedSlotInQueue
    <3>4. proc \notin released
      BY <3>1, <3>2, <3>3 DEF IInv, ReleasedInv
    <3>5. \A t \in TasksOf(proc) : InQueue(t) => state[t] = TASK_DEAD
      BY <3>2, <3>3 DEF IInv, MainDeathEndsGroup, TasksOf
    <3> QED
      BY <3>4, <3>5
  <2> QED
    BY <2>1, <2>2
<1>2. IInv /\ [Next]_vars => [Once]_vars
    BY <1>1
<1> QED
    BY <1>2, InductiveInvariant, PTL DEF Spec, ReleasedOnceWhenDead

----------------------------------------------------------------------------
(* The scheduler implements TaskLife. *)

GoneMap == {p \in Procs : SpaceOf[p] \in destroyed}

LEMMA InitRefines == Init => Life!Init
<1> SUFFICES ASSUME Init PROVE Life!Init
    OBVIOUS
<1>1. \A t \in Tasks : state[t] = TASK_READY /\ ~InQueue(t)
    BY TasksAssumption, QueueAssumption DEF Init, InQueue, Slots, Threads
<1>2. \A t \in Tasks : LifeOf(t) = "new"
    BY <1>1 DEF LifeOf, TASK_READY, TASK_DEAD, TASK_RUNNING
<1> QED
    BY <1>2 DEF Init, Life!Init

\* Adding a task to the queue admits it.
LEMMA BootRefines == IInv /\ (BootInit \/ BootAdd \/ BootEnable) => [Life!Next]_Life!vars
<1> SUFFICES ASSUME IInv, BootInit \/ BootAdd \/ BootEnable PROVE [Life!Next]_Life!vars
    OBVIOUS
<1>1. /\ ctx = Boot /\ ctx' = ctx /\ GoneMap' = GoneMap
      /\ state' = state /\ ~scheduler_running
    BY TasksAssumption DEF BootInit, BootAdd, BootEnable, IInv, ContextInv, switch, reaper, GoneMap
<1>2. \A t \in Tasks : state[t] = TASK_READY
    BY <1>1 DEF IInv, BootInv
<1>3. \A t \in Tasks : /\ LifeOf(t) = IF InQueue(t) THEN "ready" ELSE "new"
                       /\ LifeOf(t)' = IF InQueue(t)' THEN "ready" ELSE "new"
    BY <1>1, <1>2 DEF LifeOf, TASK_READY, TASK_DEAD, TASK_RUNNING
<1>4. ASSUME NEW u \in Tasks, ~InQueue(u), InQueue(u)',
             \A t \in Tasks \ {u} : InQueue(t)' <=> InQueue(t)
      PROVE  Life!Admit(u)
    BY <1>1, <1>3, <1>4 DEF Life!Admit, GoneMap
<1>5. CASE BootInit
  <2>1. queue_length = 0 /\ queue_length' = 1 /\ queue'[0] = Daemon
    BY <1>5, QueueAssumption DEF BootInit, IInv, BootInv, TypeOK, Slots
  <2>2. \A t \in Tasks : ~InQueue(t) /\ (InQueue(t)' <=> t = Daemon)
    BY <2>1 DEF InQueue
  <2> QED
    BY <1>4, <2>2, TasksAssumption DEF Life!Next
<1>6. CASE BootAdd
  <2> DEFINE u == BootOrder[queue_length]
  <2>1. /\ queue_length \in 1..Len(BootOrder) /\ queue_length \in Slots
        /\ queue_length' = queue_length + 1
        /\ queue' = [queue EXCEPT ![queue_length] = u]
        /\ u = SlotTask(queue_length)
    BY <1>6, QueueAssumption DEF BootAdd, IInv, BootInv, Slots, SlotTask
  <2>2. u \in Tasks
    BY <2>1, SlotTasksDiffer, QueueAssumption
  <2>3. \A n \in 0..(queue_length - 1) : queue[n] = SlotTask(n) /\ queue'[n] = queue[n]
    <3>1. \A n \in 0..(queue_length - 1) : n \in Slots /\ n < queue_length /\ n # queue_length
      BY <2>1, QueueAssumption DEF Slots
    <3>2. \A n \in Slots : n < queue_length => queue[n] = SlotTask(n)
      BY <1>1 DEF IInv, QueueInv
    <3>3. \A n \in Slots : n # queue_length => queue'[n] = queue[n]
      BY <2>1 DEF IInv, TypeOK
    <3> QED
      BY <3>1, <3>2, <3>3
  <2>4. queue'[queue_length] = u
    BY <2>1 DEF IInv, TypeOK
  <2>5. ~InQueue(u)
    BY <2>1, <2>3, SlotTasksDiffer, QueueAssumption DEF InQueue
  <2>6. \A t \in Tasks : InQueue(t)' <=> InQueue(t) \/ t = u
    BY <2>1, <2>3, <2>4 DEF InQueue
  <2> QED
    BY <1>4, <2>2, <2>5, <2>6 DEF Life!Next
<1>7. CASE BootEnable
  <2>1. \A t \in Tasks : InQueue(t)' <=> InQueue(t)
    BY <1>7 DEF BootEnable, InQueue
  <2> QED
    BY <1>1, <1>3, <2>1 DEF Life!vars, GoneMap
<1> QED
    BY <1>5, <1>6, <1>7

\* A switch dispatches the next task.
LEMMA TickRefines ==
    IInv /\ Tick(ctx) /\ UNCHANGED destroyed => [Life!Next]_Life!vars
<1> SUFFICES ASSUME IInv, Tick(ctx), UNCHANGED destroyed PROVE [Life!Next]_Life!vars
    OBVIOUS
<1>1. /\ UNCHANGED <<queue, queue_length>>
      /\ current_idx' \in 0..(queue_length - 1)
      /\ ctx' = queue[current_idx'] /\ ctx' \in Tasks
      /\ state[ctx'] # TASK_DEAD
      /\ Switched \/ (scheduler_running /\ UNCHANGED <<state, switch>>)
    BY TickEffect
<1>2. \A t \in Tasks : InQueue(t)' <=> InQueue(t)
    BY <1>1 DEF InQueue
<1>3. GoneMap' = GoneMap
    BY DEF GoneMap
<1>4. CASE Switched
  <2>1. /\ ctx' # ctx
        /\ state' \in [Threads -> TaskStates] /\ state \in [Threads -> TaskStates]
        /\ \A t \in Tasks : state'[t] = IF t = ctx' THEN TASK_RUNNING
                                        ELSE IF t = ctx /\ state[t] = TASK_RUNNING THEN TASK_READY
                                        ELSE state[t]
    BY <1>1, <1>4 DEF Switched, IInv, TypeOK, Threads, TaskStates
  <2>2. state[ctx'] = TASK_READY
    BY <1>1, <2>1 DEF IInv, BootInv, ContextInv, TaskStates, Threads
  <2>3. InQueue(ctx')
    BY <1>1 DEF InQueue
  <2>4. LifeOf(ctx') = "ready"
    BY <2>2, <2>3 DEF LifeOf, TASK_READY, TASK_DEAD, TASK_RUNNING
  <2>5. ctx \in Tasks => InQueue(ctx)
    <3>1. ctx \in Tasks => scheduler_running /\ queue[current_idx] = ctx
      BY TasksAssumption DEF IInv, BootInv, ContextInv
    <3> QED
      BY <3>1, TasksAssumption, QueueAssumption DEF InQueue, IInv, TypeOK, QueueInv, Slots
  <2>6. ASSUME NEW u \in Tasks
        PROVE  LifeOf(u)' = CASE u = ctx' -> "running"
                              [] u = ctx /\ LifeOf(u) = "running" -> "ready"
                              [] OTHER -> LifeOf(u)
    <3>1. CASE u = ctx'
      BY <3>1, <2>1 DEF LifeOf, TASK_READY, TASK_DEAD, TASK_RUNNING
    <3>2. CASE u # ctx' /\ u = ctx
      BY <3>2, <1>2, <2>1, <2>5 DEF LifeOf, TASK_READY, TASK_DEAD, TASK_RUNNING
    <3>3. CASE u # ctx' /\ u # ctx
      BY <3>3, <1>2, <2>1 DEF LifeOf, TASK_READY, TASK_DEAD, TASK_RUNNING
    <3> QED
      BY <3>1, <3>2, <3>3
  <2>7. Life!Dispatch(ctx')
    BY <1>1, <1>3, <2>4, <2>6 DEF Life!Dispatch, GoneMap
  <2> QED
    BY <1>1, <2>7 DEF Life!Next
<1>5. CASE UNCHANGED <<state, switch>>
  <2>1. \A t \in Tasks : LifeOf(t)' = LifeOf(t)
    BY <1>2, <1>5 DEF LifeOf
  <2> QED
    BY <2>1, <1>3, <1>5 DEF Life!vars, GoneMap, switch
<1> QED
    BY <1>1, <1>4, <1>5

\* In a system call the caller, or its group, exits, or nothing shows.
LEMMA SyscallRefines ==
    IInv /\ (\/ \E nr \in {"yield", "exit", "exit_group", "other"} : SysEnter(nr)
             \/ SysOther \/ SysYield \/ SysExit \/ SysExitGroup \/ SysReturn)
    => [Life!Next]_Life!vars
<1> SUFFICES ASSUME IInv,
                    \/ \E nr \in {"yield", "exit", "exit_group", "other"} : SysEnter(nr)
                    \/ SysOther \/ SysYield \/ SysExit \/ SysExitGroup \/ SysReturn
             PROVE  [Life!Next]_Life!vars
    OBVIOUS
<1>1. /\ UNCHANGED <<queue, queue_length, ctx, destroyed>>
      /\ pc[ctx] \in {"user"} \cup SyscallPcs /\ pc[ctx] # "int48"
    BY DEF SysEnter, SysOther, SysYield, SysExit, SysExitGroup, SysReturn, SyscallPcs,
           sched, switch, reaper
<1>2. /\ scheduler_running /\ ctx \in UserTasks /\ CurrentTask = ctx
      /\ InQueue(ctx) /\ state[ctx] # TASK_DEAD
    BY <1>1, SyscallCaller
<1>3. \A t \in Tasks : InQueue(t)' <=> InQueue(t)
    BY <1>1 DEF InQueue
<1>4. GoneMap' = GoneMap
    BY <1>1 DEF GoneMap
<1>5. CASE UNCHANGED state
  <2>1. \A t \in Tasks : LifeOf(t)' = LifeOf(t)
    BY <1>3, <1>5 DEF LifeOf
  <2> QED
    BY <2>1, <1>1, <1>4 DEF Life!vars, GoneMap
<1>6. ASSUME NEW S \in {{ctx}, TasksOf(ProcOf[ctx])}, Remove(S),
             MainOf[ProcOf[ctx]] \in S => S = TasksOf(ProcOf[ctx])
      PROVE  Life!Exit
  <2>1. S \subseteq Tasks /\ ctx \in S
    BY <1>2, TasksAssumption DEF TasksOf
  <2>2. state \in [Threads -> TaskStates] /\ ctx \in Tasks
    BY <1>2, TasksAssumption DEF IInv, TypeOK
  <2>3. state[ctx] = TASK_RUNNING
    BY <1>2, <2>2 DEF IInv, ContextInv, TaskStates, Threads
  <2>4. LifeOf(ctx) = "running"
    BY <2>3 DEF LifeOf, TASK_RUNNING, TASK_DEAD
  <2>5. \A t \in Tasks : state[t] = TASK_RUNNING => InQueue(t)
    BY <1>2 DEF IInv, ContextInv
  <2>6. ASSUME NEW t \in Tasks
        PROVE  LifeOf(t)' = IF t \in S /\ LifeOf(t) \in {"ready", "running"}
                            THEN "dead" ELSE LifeOf(t)
    <3>1. state'[t] = IF t \in S /\ InQueue(t) THEN TASK_DEAD ELSE state[t]
      BY <1>6 DEF Remove, Threads
    <3> QED
      BY <3>1, <1>3, <2>2, <2>5 DEF LifeOf, TaskStates, TASK_RUNNING, TASK_DEAD, TASK_READY
  <2>7. S \in {{ctx}, Life!Group(ProcOf[ctx])}
        /\ (MainOf[ProcOf[ctx]] \in S => S = Life!Group(ProcOf[ctx]))
    BY <1>6 DEF TasksOf, Life!Group
  <2> QED
    BY <1>1, <1>2, <1>4, <2>2, <2>4, <2>6, <2>7 DEF Life!Exit, GoneMap
<1>7. CASE SysExit
  <2>1. UNCHANGED state \/ (MainOf[ProcOf[ctx]] # ctx /\ Remove({ctx}))
    BY <1>7, <1>2 DEF SysExit
  <2> QED
    BY <2>1, <1>5, <1>6 DEF Life!Next
<1>8. CASE SysExitGroup
  <2>1. Remove(TasksOf(ProcOf[ctx]))
    BY <1>8, <1>2 DEF SysExitGroup
  <2> QED
    BY <2>1, <1>6 DEF Life!Next
<1>9. CASE ~(SysExit \/ SysExitGroup)
  <2>1. UNCHANGED state
    BY <1>9 DEF SysEnter, SysOther, SysYield, SysReturn
  <2> QED
    BY <2>1, <1>5
<1> QED
    BY <1>7, <1>8, <1>9

\* The daemon tears a process down with vmm_destroy() and reaps a task by
\* clearing its slot.
LEMMA DaemonRefines == IInv /\ DaemonStep => [Life!Next]_Life!vars
<1> SUFFICES ASSUME IInv, DaemonStep PROVE [Life!Next]_Life!vars
    OBVIOUS
<1>1. /\ ctx = Daemon /\ UNCHANGED <<queue_length, state, ctx>>
      /\ scheduler_running
    BY TasksAssumption DEF DaemonStep, DaemonScan, DaemonIsMain, DaemonTaskDestroy,
       DaemonVmmDestroy, DaemonProcFree, DaemonClear, DaemonAt, sched, switch, IInv, BootInv
<1>2. CASE DaemonVmmDestroy
  <2>1. /\ pc[Daemon] = "vmm_destroy"
        /\ proc \in Procs /\ MainOf[proc] = queue[i]
        /\ queue' = queue /\ destroyed' = destroyed \cup {SpaceOf[proc]}
    BY <1>2 DEF DaemonVmmDestroy, DaemonAt, IInv, ReaperInv, TypeOK, sched
  <2>2. /\ MainOf[proc] \in UserTasks /\ state[MainOf[proc]] = TASK_DEAD
        /\ InQueue(MainOf[proc])
    BY <2>1, ReapedSlotInQueue
  <2>3. \A t \in Tasks : LifeOf(t)' = LifeOf(t)
    BY <1>1, <2>1 DEF LifeOf, InQueue
  <2>4. \A p \in Procs : SpaceOf[p] = SpaceOf[proc] => p = proc
    BY <2>1, <2>2, ProcessAssumption
  <2>5. GoneMap' = GoneMap \cup {proc}
    BY <2>1, <2>4 DEF GoneMap
  <2>6. CASE proc \in GoneMap
    BY <1>1, <2>3, <2>5, <2>6 DEF Life!vars, GoneMap
  <2>7. CASE proc \notin GoneMap
    <3>1. LifeOf(MainOf[proc]) = "dead"
      BY <2>2 DEF LifeOf, TASK_RUNNING, TASK_DEAD, TASK_READY
    <3>2. ASSUME NEW t \in Tasks, ProcOf[t] = proc
          PROVE  LifeOf(t) \notin {"ready", "running"}
      <4>1. InQueue(t) => state[t] = TASK_DEAD
        BY <2>2, <3>2 DEF IInv, MainDeathEndsGroup
      <4>2. t \in UserTasks /\ t # ctx
        BY <1>1, <2>1, <2>2, <3>2, ProcessAssumption, TasksAssumption
      <4>3. state[t] # TASK_RUNNING
        BY <1>1, <4>2 DEF IInv, ContextInv
      <4> QED
        BY <4>1, <4>3 DEF LifeOf, TASK_RUNNING, TASK_DEAD, TASK_READY
    <3>3. \A p \in Procs : p = proc => Life!Teardown(p)
      BY <1>1, <2>3, <2>5, <2>7, <3>1, <3>2, ProcessAssumption, <2>1
      DEF Life!Teardown, Life!Group, GoneMap
    <3>4. \E p \in Procs : Life!Teardown(p)
      BY <2>1, <3>3
    <3> QED
      BY <3>4 DEF Life!Next
  <2> QED
    BY <2>6, <2>7
<1>3. CASE DaemonClear
  <2> DEFINE u == queue[i]
  <2>1. /\ pc[Daemon] = "clear" /\ queue' = [queue EXCEPT ![i] = NULL]
        /\ destroyed' = destroyed /\ GoneMap' = GoneMap
    BY <1>3 DEF DaemonClear, DaemonAt, GoneMap
  <2>2. u \in Tasks /\ state[u] = TASK_DEAD /\ InQueue(u)
    BY <2>1, ReapedSlotInQueue, TasksAssumption
  <2>3. /\ i \in Slots /\ queue \in [Slots -> Tasks \cup {NULL}]
        /\ \A n \in 0..(queue_length - 1) : n \in Slots /\ n \in 0..Len(BootOrder)
    BY <1>1, QueueAssumption DEF IInv, TypeOK, BootInv, Slots
  <2>4. i \in 0..(queue_length - 1)
    BY <2>2, <2>3, TasksAssumption, QueueAssumption DEF IInv, TypeOK, QueueInv, Slots
  <2>5. \A n \in 0..(queue_length - 1) : n # i => queue[n] # u
    <3>1. ASSUME NEW n \in 0..(queue_length - 1), n # i, queue[n] = u PROVE FALSE
      <4>1. u = SlotTask(n) /\ u = SlotTask(i)
        BY <2>2, <2>3, <3>1, TasksAssumption DEF IInv, QueueInv
      <4> QED
        BY <4>1, <2>3, <2>4, <3>1, SlotTasksDiffer
    <3> QED
      BY <3>1
  <2>6. \A t \in Tasks : InQueue(t)' <=> InQueue(t) /\ t # u
    BY <1>1, <2>1, <2>3, <2>5, TasksAssumption DEF InQueue
  <2>7. \A t \in Tasks : LifeOf(t)' = IF t = u THEN "reaped" ELSE LifeOf(t)
    BY <1>1, <2>2, <2>6 DEF LifeOf, TASK_RUNNING, TASK_DEAD, TASK_READY
  <2>8. LifeOf(u) = "dead"
    BY <2>2 DEF LifeOf, TASK_RUNNING, TASK_DEAD, TASK_READY
  <2>9. MainOf[ProcOf[u]] = u => ProcOf[u] \in GoneMap
    BY <2>1, <2>2, ProcessAssumption DEF IInv, ReaperInv, GoneMap
  <2>10. Life!Reap(u)
    BY <1>1, <2>1, <2>2, <2>7, <2>8, <2>9 DEF Life!Reap, GoneMap
  <2> QED
    BY <2>2, <2>10 DEF Life!Next
<1>4. CASE DaemonScan \/ DaemonIsMain \/ DaemonTaskDestroy \/ DaemonProcFree
  <2>1. queue' = queue /\ destroyed' = destroyed
    BY <1>4 DEF DaemonScan, DaemonIsMain, DaemonTaskDestroy, DaemonProcFree, sched
  <2>2. \A t \in Tasks : LifeOf(t)' = LifeOf(t)
    BY <1>1, <2>1 DEF LifeOf, InQueue
  <2> QED
    BY <1>1, <2>1, <2>2 DEF Life!vars
<1> QED
    BY <1>2, <1>3, <1>4 DEF DaemonStep

\* Every behaviour of the scheduler is one of TaskLife.
THEOREM SchedulerImplementsTaskLife == Spec => ImplementsTaskLife
<1>1. Init => Life!Init
    BY InitRefines
<1>2. IInv /\ [Next]_vars => [Life!Next]_Life!vars
  <2> SUFFICES ASSUME IInv, [Next]_vars PROVE [Life!Next]_Life!vars
    OBVIOUS
  <2>1. CASE BootInit \/ BootAdd \/ BootEnable
    BY <2>1, BootRefines
  <2>2. CASE TimerTick
    BY <2>2, TicksOnOwnStack, TickRefines DEF TimerTick, reaper
  <2>3. CASE YieldInterrupt
    BY <2>3, TicksOnOwnStack, TickRefines DEF YieldInterrupt, reaper
  <2>4. CASE \/ \E nr \in {"yield", "exit", "exit_group", "other"} : SysEnter(nr)
             \/ SysOther \/ SysYield \/ SysExit \/ SysExitGroup \/ SysReturn
    BY <2>4, SyscallRefines
  <2>5. CASE DaemonStep
    BY <2>5, DaemonRefines
  <2>6. CASE UNCHANGED vars
    BY <2>6 DEF vars, sched, switch, reaper, Life!vars, LifeOf, InQueue
  <2> QED
    BY <2>1, <2>2, <2>3, <2>4, <2>5, <2>6 DEF Next, Syscall
<1> QED
    BY <1>1, <1>2, InductiveInvariant, PTL DEF Spec, ImplementsTaskLife, Life!Spec
=============================================================================
