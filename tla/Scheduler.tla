----------------------------- MODULE Scheduler -----------------------------
(***************************************************************************)
(* The round-robin scheduler of the Luciano kernel and everything that     *)
(* enters it: the boot thread that fills its queue, the timer interrupt,   *)
(* the yield software interrupt, the system calls of user tasks and the    *)
(* clean-up daemon that reaps dead tasks.                                  *)
(*                                                                         *)
(* The machine has one CPU.  A step of the specification is a stretch of   *)
(* code that no interrupt can split: all IDT gates are interrupt gates and *)
(* SYSCALL masks IF, so a timer tick, a software interrupt and each step   *)
(* of a system call are atomic, while the daemon, which runs with          *)
(* interrupts on, may lose the CPU between any two of its steps.           *)
(*                                                                         *)
(* Registers are abstracted to what the switch code moves: which thread    *)
(* the CPU executes, whose stack rsp points into, cr3 and the rsp0 field   *)
(* of the TSS.  A saved context is the pair a switch restores with IRETQ.  *)
(***************************************************************************)
EXTENDS Naturals, Sequences

CONSTANTS
    Tasks,          \* task_t objects created during boot
    Procs,          \* process_t objects created during boot
    Spaces,         \* PML4s: the boot space and one for each vmm_create()
    Boot,           \* the thread that runs kmain(), task "sentinal_task"
    NULL,           \* the null pointer
    Daemon,         \* the task that runs scheduler_task_cleanupd()
    UserTasks,      \* tasks of PRIVILEGE_USER processes
    ProcOf,         \* task->process
    MainOf,         \* process->tasks[0]
    SpaceOf,        \* process->address_space
    BootSpace,      \* the address space vmm_init() switched to
    BootOrder,      \* the scheduler_add() calls of kmain(), in order
    MAX_PROCESSES   \* length of the array queue[]

ASSUME TasksAssumption ==
    /\ Boot \notin Tasks
    /\ NULL \notin Tasks
    /\ NULL # Boot
    /\ NULL \notin Procs
    /\ Tasks \cap Procs = {}
    /\ Daemon \in Tasks \ UserTasks
    /\ UserTasks \subseteq Tasks

\* Only a user process owns its address space: kernel processes share one.
ASSUME ProcessAssumption ==
    /\ ProcOf \in [Tasks -> Procs]
    /\ MainOf \in [Procs -> Tasks]
    /\ \A p \in Procs : ProcOf[MainOf[p]] = p
    /\ \A t, u \in Tasks : ProcOf[t] = ProcOf[u] => (t \in UserTasks <=> u \in UserTasks)
    /\ SpaceOf \in [Procs -> Spaces]
    /\ BootSpace \in Spaces
    /\ \A t \in UserTasks, u \in Tasks :
          /\ SpaceOf[ProcOf[t]] # BootSpace
          /\ SpaceOf[ProcOf[t]] = SpaceOf[ProcOf[u]] => ProcOf[t] = ProcOf[u]

\* scheduler_add() tests no bound: kmain() adds fewer tasks than the array
\* holds, and adds none of them twice.
ASSUME QueueAssumption ==
    /\ MAX_PROCESSES \in Nat
    /\ BootOrder \in Seq(Tasks \ {Daemon})
    /\ Len(BootOrder) < MAX_PROCESSES
    /\ \A m, n \in 1..Len(BootOrder) : BootOrder[m] = BootOrder[n] => m = n

Threads == Tasks \cup {Boot}
Slots == 0..(MAX_PROCESSES - 1)
Queued == {Daemon} \cup {BootOrder[n] : n \in 1..Len(BootOrder)}

TASK_RUNNING == "TASK_RUNNING"
TASK_READY == "TASK_READY"
TASK_DEAD == "TASK_DEAD"
TaskStates == {TASK_RUNNING, TASK_READY, TASK_DEAD}

KernelStack(t) == [mode |-> "kernel", of |-> t]
UserStack(t) == [mode |-> "user", of |-> t]
StackPointers == [mode : {"kernel", "user"}, of : Threads]
Frames == [thread : Threads, rsp : StackPointers]

\* The null pointer is none of the values that may stand in its place.
ASSUME NullAssumption == NULL \notin Frames /\ NULL \notin StackPointers

BootPcs == {"scheduler_init", "scheduler_add", "spin"}
SyscallPcs == {"yield", "exit", "exit_group", "other", "int48", "sysret"}
DaemonPcs == {"scan", "is_main", "task_destroy", "vmm_destroy", "proc_free", "clear"}
Pcs == BootPcs \cup {"worker", "user"} \cup SyscallPcs \cup DaemonPcs

VARIABLES
    queue, queue_length, current_idx,       \* scheduler.c
    scheduler_running, scheduler_enabled,
    state,              \* task->state (of the sentinel too)
    stack_pointer,      \* task->stack_pointer: whose kernel stack it is in
    kstack,             \* the context saved on top of each kernel stack
    rsp0,               \* tss.rsp0: whose kernel stack, NULL before a switch
    cr3,                \* the address space the CPU translates with
    user_rsp_scratch,   \* the one global SYSCALL saves the user's rsp in
    ctx, rsp,           \* the thread the CPU executes and its stack pointer
    pc,                 \* where each thread is in its program
    i, proc,            \* locals of scheduler_task_cleanupd()
    destroyed,          \* spaces whose frames vmm_destroy() gave back
    released            \* tasks and processes handed to kfree()

sched == <<queue, queue_length, current_idx, scheduler_running, scheduler_enabled>>
switch == <<stack_pointer, kstack, rsp0, cr3, ctx, rsp>>
reaper == <<i, proc, destroyed, released>>
vars == <<sched, state, switch, user_rsp_scratch, pc, reaper>>

----------------------------------------------------------------------------
(* The run queue. *)

Current == IF scheduler_running THEN queue[current_idx] ELSE Boot

Schedulable(n) == queue[n] # NULL /\ state[queue[n]] # TASK_DEAD

InQueue(t) == \E n \in 0..(queue_length - 1) : queue[n] = t

\* Mutant: the search starts at the head of the queue every time.
AheadOfHead(d) == d % queue_length

\* Mutant: the search does not wrap around.
AheadUnwrapped(d) == IF current_idx + d < queue_length THEN current_idx + d ELSE queue_length - 1

\* scheduler_get_next() tests the slots at distance 1, 2, ..., queue_length
\* from the current one and takes the first it can run.
Ahead(d) == (current_idx + d) % queue_length

NextDistance ==
    CHOOSE d \in 1..queue_length :
        /\ Schedulable(Ahead(d))
        /\ \A e \in 1..queue_length : Schedulable(Ahead(e)) => d <= e

NextIdx == Ahead(NextDistance)

\* When it finds none, scheduler_get_next() returns NULL, which
\* scheduler_aux_update_state() would dereference.
NextExists == \E d \in 1..queue_length : Schedulable(Ahead(d))

\* scheduler_remove() on each task of S, in the queue or not.
Remove(S) ==
    state' = [t \in Threads |->
                IF t \in S /\ InQueue(t) THEN TASK_DEAD ELSE state[t]]

----------------------------------------------------------------------------
(* The interrupt stubs: scheduler_tick() and the switch around it. *)

\* Mutant: the outgoing task becomes ready even when it is dead.
ReadyEvenDead(current, next) ==
    state' = [state EXCEPT ![current] = TASK_READY, ![next] = TASK_RUNNING]

\* scheduler_aux_update_state(): a dead task stays dead.
UpdateState(current, next) ==
    state' = [state EXCEPT ![current] = IF @ = TASK_RUNNING THEN TASK_READY ELSE @,
                           ![next] = TASK_RUNNING]

\* Mutant: the two task pointers are swapped when rsp is saved.
SwapStacksSavingInNext(current, next, s) ==
    LET saved == [kstack EXCEPT ![s] = [thread |-> ctx, rsp |-> rsp]]
        top == stack_pointer[next]
    IN  /\ stack_pointer' = [stack_pointer EXCEPT ![next] = s]
        /\ ctx' = saved[top].thread
        /\ rsp' = saved[top].rsp
        /\ kstack' = [saved EXCEPT ![top] = NULL]

\* Save the interrupted context on kernel stack s, which the outgoing task
\* notes, and take up the one on top of the incoming task's stack.
SwapStacks(current, next, s) ==
    LET saved == [kstack EXCEPT ![s] = [thread |-> ctx, rsp |-> rsp]]
        top == stack_pointer[next]
    IN  /\ stack_pointer' = [stack_pointer EXCEPT ![current] = s]
        /\ ctx' = saved[top].thread
        /\ rsp' = saved[top].rsp
        /\ kstack' = [saved EXCEPT ![top] = NULL]

\* vmm_switch() and tss_update(); the mutant leaves the latter out.
SpaceToLoad(next) == SpaceOf[ProcOf[next]]

NoKernelStackToLoad(next) == IF rsp0 = NULL THEN next ELSE rsp0
KernelStackToLoad(next) == next

SwitchTo(current, next, s) ==
    /\ UpdateState(current, next)
    /\ SwapStacks(current, next, s)
    /\ cr3' = SpaceToLoad(next)
    /\ rsp0' = KernelStackToLoad(next)

\* scheduler_tick() and the stub that acts on its answer; s is the kernel
\* stack the CPU pushed the interrupt frame on.
Tick(s) ==
    /\ scheduler_enabled
    /\ queue_length # 0
    /\ scheduler_running' = TRUE
    /\ current_idx' = NextIdx
    /\ UNCHANGED <<queue, queue_length, scheduler_enabled>>
    /\ \/ /\ Current # queue[NextIdx]
          /\ SwitchTo(Current, queue[NextIdx], s)
       \/ /\ Current = queue[NextIdx]
          /\ UNCHANGED <<state, switch>>

\* The timer interrupts whatever runs with IF set.  From ring 3 the CPU
\* takes the stack from the TSS, in ring 0 it stays on the current one.
\* Before scheduler_enable() the tick returns at once: a stuttering step.
TimerTick ==
    /\ pc[ctx] \notin SyscallPcs
    /\ Tick(IF pc[ctx] = "user" THEN rsp0 ELSE rsp.of)
    /\ UNCHANGED <<user_rsp_scratch, pc, reaper>>

----------------------------------------------------------------------------
(* kmain(): the boot thread, up to its final loop. *)

BootInit ==
    /\ ctx = Boot /\ pc[Boot] = "scheduler_init"
    /\ scheduler_enabled' = FALSE
    /\ current_idx' = 0
    /\ queue' = [queue EXCEPT ![0] = Daemon]
    /\ queue_length' = 1
    /\ pc' = [pc EXCEPT ![Boot] = "scheduler_add"]
    /\ UNCHANGED <<scheduler_running, state, switch, user_rsp_scratch, reaper>>

BootAdd ==
    /\ ctx = Boot /\ pc[Boot] = "scheduler_add"
    /\ queue_length <= Len(BootOrder)
    /\ queue' = [queue EXCEPT ![queue_length] = BootOrder[queue_length]]
    /\ queue_length' = queue_length + 1
    /\ UNCHANGED <<current_idx, scheduler_running, scheduler_enabled,
                   state, switch, user_rsp_scratch, pc, reaper>>

BootEnable ==
    /\ ctx = Boot /\ pc[Boot] = "scheduler_add"
    /\ queue_length > Len(BootOrder)
    /\ scheduler_enabled' = TRUE
    /\ pc' = [pc EXCEPT ![Boot] = "spin"]
    /\ UNCHANGED <<queue, queue_length, current_idx, scheduler_running,
                   state, switch, user_rsp_scratch, reaper>>

----------------------------------------------------------------------------
(* System calls.  IF is clear from SYSCALL to SYSRET. *)

Goto(l) == pc' = [pc EXCEPT ![ctx] = l]

SysEnter(nr) ==
    /\ pc[ctx] = "user"
    /\ user_rsp_scratch' = rsp
    /\ rsp' = KernelStack(rsp0)
    /\ Goto(nr)
    /\ UNCHANGED <<sched, state, stack_pointer, kstack, rsp0, cr3, ctx, reaper>>

\* getpid, gettid, the open stub and unknown numbers: nothing changes.
SysOther ==
    /\ pc[ctx] = "other"
    /\ Goto("sysret")
    /\ UNCHANGED <<sched, state, switch, user_rsp_scratch, reaper>>

SysYield ==
    /\ pc[ctx] = "yield"
    /\ Goto("int48")
    /\ UNCHANGED <<sched, state, switch, user_rsp_scratch, reaper>>

\* scheduler_get_current(), which sys_exit() and sys_exit_group() act on.
CurrentTask == queue[current_idx]

TasksOf(p) == {t \in Tasks : ProcOf[t] = p}

\* Mutant: the main task exits like any other.
SysExitAlone ==
    /\ pc[ctx] = "exit"
    /\ Remove({CurrentTask})
    /\ Goto("int48")
    /\ UNCHANGED <<sched, switch, user_rsp_scratch, reaper>>

SysExit ==
    /\ pc[ctx] = "exit"
    /\ \/ /\ MainOf[ProcOf[CurrentTask]] = CurrentTask
          /\ Goto("exit_group")
          /\ UNCHANGED state
       \/ /\ MainOf[ProcOf[CurrentTask]] # CurrentTask
          /\ Remove({CurrentTask})
          /\ Goto("int48")
    /\ UNCHANGED <<sched, switch, user_rsp_scratch, reaper>>

\* Mutant: the caller's siblings are forgotten.
SysExitGroupOfOne ==
    /\ pc[ctx] = "exit_group"
    /\ Remove({CurrentTask})
    /\ Goto("int48")
    /\ UNCHANGED <<sched, switch, user_rsp_scratch, reaper>>

SysExitGroup ==
    /\ pc[ctx] = "exit_group"
    /\ Remove(TasksOf(ProcOf[CurrentTask]))
    /\ Goto("int48")
    /\ UNCHANGED <<sched, switch, user_rsp_scratch, reaper>>

\* Mutant: the saved rip is that of the INT instruction itself.
YieldInterruptAgain ==
    /\ pc[ctx] = "int48"
    /\ Tick(rsp.of)
    /\ UNCHANGED <<user_rsp_scratch, pc, reaper>>

\* scheduler_yield(): int 0x30, taken on the kernel stack in use.
YieldInterrupt ==
    /\ pc[ctx] = "int48"
    /\ Goto("sysret")
    /\ Tick(rsp.of)
    /\ UNCHANGED <<user_rsp_scratch, reaper>>

SysReturn ==
    /\ pc[ctx] = "sysret"
    /\ rsp' = user_rsp_scratch
    /\ Goto("user")
    /\ UNCHANGED <<sched, state, stack_pointer, kstack, rsp0, cr3, ctx,
                   user_rsp_scratch, reaper>>

Syscall ==
    \/ SysOther \/ SysYield \/ SysExit \/ SysExitGroup \/ YieldInterrupt \/ SysReturn

----------------------------------------------------------------------------
(* scheduler_task_cleanupd(): one step for each access to shared state. *)

DaemonAt(l) == ctx = Daemon /\ pc[Daemon] = l

\* Mutants: a scan that does not stop at the end, and one that stops before.
ScanPastEnd ==
    /\ i' = i + 1
    /\ pc' = [pc EXCEPT ![Daemon] = "scan"]

ScanShort ==
    /\ i' = IF i + 2 < queue_length THEN i + 1 ELSE 0
    /\ pc' = [pc EXCEPT ![Daemon] = "scan"]

ScanNext ==
    /\ i' = IF i + 1 < queue_length THEN i + 1 ELSE 0
    /\ pc' = [pc EXCEPT ![Daemon] = "scan"]

DaemonScan ==
    /\ DaemonAt("scan")
    /\ \/ /\ queue[i] # NULL /\ state[queue[i]] = TASK_DEAD
          /\ pc' = [pc EXCEPT ![Daemon] = "is_main"]
          /\ UNCHANGED i
       \/ /\ ~(queue[i] # NULL /\ state[queue[i]] = TASK_DEAD)
          /\ ScanNext
    /\ UNCHANGED <<sched, state, switch, user_rsp_scratch, proc, destroyed, released>>

\* Mutant: the process goes with whichever of its tasks dies first.
DaemonIsAnyTask ==
    /\ DaemonAt("is_main")
    /\ proc' = ProcOf[queue[i]]
    /\ pc' = [pc EXCEPT ![Daemon] = "task_destroy"]
    /\ UNCHANGED <<sched, state, switch, user_rsp_scratch, i, destroyed, released>>

DaemonIsMain ==
    /\ DaemonAt("is_main")
    /\ proc' = IF MainOf[ProcOf[queue[i]]] = queue[i] THEN ProcOf[queue[i]] ELSE NULL
    /\ pc' = [pc EXCEPT ![Daemon] = "task_destroy"]
    /\ UNCHANGED <<sched, state, switch, user_rsp_scratch, i, destroyed, released>>

DaemonTaskDestroy ==
    /\ DaemonAt("task_destroy")
    /\ released' = released \cup {queue[i]}
    /\ pc' = [pc EXCEPT ![Daemon] = IF proc # NULL THEN "vmm_destroy" ELSE "clear"]
    /\ UNCHANGED <<sched, state, switch, user_rsp_scratch, i, proc, destroyed>>

\* The space counts as destroyed from the first frame vmm_destroy() frees.
DaemonVmmDestroy ==
    /\ DaemonAt("vmm_destroy")
    /\ destroyed' = destroyed \cup {SpaceOf[proc]}
    /\ pc' = [pc EXCEPT ![Daemon] = "proc_free"]
    /\ UNCHANGED <<sched, state, switch, user_rsp_scratch, i, proc, released>>

\* process_table[pid] is cleared in a copy of the table nobody else reads.
DaemonProcFree ==
    /\ DaemonAt("proc_free")
    /\ released' = released \cup {proc}
    /\ pc' = [pc EXCEPT ![Daemon] = "clear"]
    /\ UNCHANGED <<sched, state, switch, user_rsp_scratch, i, proc, destroyed>>

\* Mutant: the slot is left as it is.
DaemonLeaveSlot ==
    /\ DaemonAt("clear")
    /\ ScanNext
    /\ UNCHANGED <<sched, state, switch, user_rsp_scratch, proc, destroyed, released>>

DaemonClear ==
    /\ DaemonAt("clear")
    /\ queue' = [queue EXCEPT ![i] = NULL]
    /\ ScanNext
    /\ UNCHANGED <<queue_length, current_idx, scheduler_running, scheduler_enabled,
                   state, switch, user_rsp_scratch, proc, destroyed, released>>

DaemonStep ==
    \/ DaemonScan \/ DaemonIsMain \/ DaemonTaskDestroy
    \/ DaemonVmmDestroy \/ DaemonProcFree \/ DaemonClear

----------------------------------------------------------------------------
\* task_create(): ready, with a fabricated frame on its own kernel stack.
\* The sentinel's state is never initialised: any value.  TASK_BLOCKED is
\* left out: no code sets it and only RUNNING and DEAD are tested.
Init ==
    /\ queue = [n \in Slots |-> NULL]
    /\ queue_length = 0 /\ current_idx = 0
    /\ scheduler_running = FALSE /\ scheduler_enabled = FALSE
    /\ \E s \in TaskStates : state = [t \in Threads |-> IF t = Boot THEN s ELSE TASK_READY]
    /\ stack_pointer = [t \in Threads |-> t]
    /\ kstack = [t \in Threads |->
                    IF t = Boot THEN NULL
                    ELSE [thread |-> t,
                          rsp |-> IF t \in UserTasks THEN UserStack(t) ELSE KernelStack(t)]]
    /\ rsp0 = NULL /\ cr3 = BootSpace /\ user_rsp_scratch = NULL
    /\ ctx = Boot /\ rsp = KernelStack(Boot)
    /\ pc = [t \in Threads |->
                CASE t = Boot -> "scheduler_init"
                  [] t = Daemon -> "scan"
                  [] t \in UserTasks -> "user"
                  [] OTHER -> "worker"]
    /\ i = 0 /\ proc = NULL /\ destroyed = {} /\ released = {}

Next ==
    \/ BootInit \/ BootAdd \/ BootEnable
    \/ TimerTick
    \/ \E nr \in {"yield", "exit", "exit_group", "other"} : SysEnter(nr)
    \/ Syscall
    \/ DaemonStep

Spec == Init /\ [][Next]_vars

\* The boot thread and a thread inside a system call cannot be interrupted
\* for ever: only they can move.  A timer interrupt stays pending in the
\* PIC until a thread with IF set runs, and a slice of the timer is longer
\* than one of the daemon's steps: both are strongly fair.  User tasks owe
\* nothing: they may spin or make system calls for ever.
Fairness ==
    /\ WF_vars(BootInit \/ BootAdd \/ BootEnable)
    /\ WF_vars(Syscall)
    /\ SF_vars(TimerTick)
    /\ SF_vars(DaemonStep)

FairSpec == Spec /\ Fairness

----------------------------------------------------------------------------
(* Safety. *)

\* Every variable holds a value of its C type, indices stay in the queue.
TypeOK ==
    /\ queue \in [Slots -> Tasks \cup {NULL}]
    /\ queue_length \in 0..MAX_PROCESSES /\ current_idx \in Slots
    /\ scheduler_running \in BOOLEAN /\ scheduler_enabled \in BOOLEAN
    /\ state \in [Threads -> TaskStates]
    /\ stack_pointer \in [Threads -> Threads]
    /\ kstack \in [Threads -> Frames \cup {NULL}]
    /\ rsp0 \in Tasks \cup {NULL} /\ cr3 \in Spaces
    /\ user_rsp_scratch \in StackPointers \cup {NULL}
    /\ ctx \in Threads /\ rsp \in StackPointers
    /\ pc \in [Threads -> Pcs]
    /\ i \in Slots /\ proc \in Procs \cup {NULL}
    /\ destroyed \subseteq Spaces /\ released \subseteq Tasks \cup Procs

\* The code's idea of who runs is the machine's: scheduler_get_current(), by
\* which a system call finds its caller even when it was resumed after a
\* switch, answers the executing task, alone in TASK_RUNNING; rsp0 is its
\* kernel stack, cr3 its process's space and, in the kernel, rsp points into
\* its own kernel stack.  (Not so in user mode, see UserStackRestored.)
CpuBelongsToTask ==
    scheduler_running =>
        /\ CurrentTask = ctx
        /\ \A t \in Tasks : state[t] = TASK_RUNNING => t = ctx
        /\ rsp0 = ctx
        /\ cr3 = SpaceOf[ProcOf[ctx]]
        /\ pc[ctx] # "user" => rsp = KernelStack(ctx)

\* A task that is switched out keeps its context: the top of the kernel
\* stack its stack_pointer names holds a frame that resumes this task, in
\* kernel mode on its own stack or in user mode.
SavedContextIntact ==
    \A t \in Tasks \ {ctx} :
        /\ stack_pointer[t] = t
        /\ kstack[t] # NULL
        /\ kstack[t].thread = t
        /\ IF pc[t] = "user" THEN kstack[t].rsp.mode = "user"
                             ELSE kstack[t].rsp = KernelStack(t)

\* vmm_destroy() gives back only spaces nothing will run in: not the one
\* the CPU uses, nor that of any task the scheduler may still pick.
NoUseOfDestroyedSpace ==
    /\ cr3 \notin destroyed
    /\ \A t \in Tasks :
          InQueue(t) /\ state[t] # TASK_DEAD => SpaceOf[ProcOf[t]] \notin destroyed

\* Once the main task of a process is dead no other task of it is left to
\* run: sys_exit() on the main task ends the group (syscall_proc.c).
MainDeathEndsGroup ==
    \A t \in Tasks :
        InQueue(t) /\ state[MainOf[ProcOf[t]]] = TASK_DEAD => state[t] = TASK_DEAD

\* scheduler_get_next() never answers NULL, which scheduler_tick() would
\* hand to scheduler_aux_update_state() to dereference.
NextTaskExists == scheduler_enabled => NextExists

\* TASK_DEAD is final, and a dead task that lost the CPU never gets it
\* again: sys_exit() does not return to user mode.
DeadStaysDead ==
    [][\A t \in Tasks : state[t] = TASK_DEAD =>
          /\ state'[t] = TASK_DEAD
          /\ ctx' = t => ctx = t
          /\ pc[t] # "user" => pc'[t] # "user"]_vars

\* Once a task has been dispatched the boot thread never runs again.
BootNeverResumes == [][scheduler_running => ctx' # Boot]_vars

\* kfree() sees a task or a process once, and only when it is dead: a task
\* no longer executing, a process none of whose queued tasks can run.
ReleasedOnceWhenDead ==
    [][/\ DaemonTaskDestroy => /\ queue[i] \notin released
                               /\ state[queue[i]] = TASK_DEAD /\ queue[i] # ctx
       /\ DaemonProcFree => /\ proc \notin released
                            /\ \A t \in TasksOf(proc) : InQueue(t) => state[t] = TASK_DEAD]_vars

\* syscall_handler.asm:50 restores the stack pointer of the user task that
\* made the system call.
UserStackRestored == pc[ctx] = "user" => rsp = UserStack(ctx)

----------------------------------------------------------------------------
(* Liveness, under FairSpec. *)

\* Round robin starves nobody: a queued task runs again and again or dies.
EveryTaskRuns == \A t \in Queued : []<>(ctx = t \/ state[t] = TASK_DEAD)

\* The daemon reaps every dead task: it is released, its slot is emptied,
\* and with a main task goes the address space of the process.
DeadIsReaped ==
    \A t \in UserTasks \cap Queued :
        state[t] = TASK_DEAD ~>
            /\ t \in released /\ ~InQueue(t)
            /\ MainOf[ProcOf[t]] = t =>
                  SpaceOf[ProcOf[t]] \in destroyed /\ ProcOf[t] \in released

\* A system call comes back to user mode unless its caller dies.
SyscallReturns ==
    \A t \in UserTasks \cap Queued :
        pc[t] \in SyscallPcs ~> (pc[t] = "user" \/ state[t] = TASK_DEAD)

----------------------------------------------------------------------------
(* What the scheduler promises: the life cycle of TaskLife. *)

LifeOf(t) ==
    CASE state[t] = TASK_DEAD -> IF InQueue(t) THEN "dead" ELSE "reaped"
      [] state[t] = TASK_RUNNING -> "running"
      [] OTHER -> IF InQueue(t) THEN "ready" ELSE "new"

Life == INSTANCE TaskLife WITH
            life <- [t \in Tasks |-> LifeOf(t)],
            cpu <- ctx,
            gone <- {p \in Procs : SpaceOf[p] \in destroyed}

\* The scheduler, its interrupts and the daemon implement TaskLife.
ImplementsTaskLife == Life!Spec
=============================================================================
