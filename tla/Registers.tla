----------------------------- MODULE Registers -----------------------------
(***************************************************************************)
(* The register file and the kernel stacks under the three assembly        *)
(* entries of the kernel: the timer interrupt, the yield interrupt and     *)
(* SYSCALL.  Module Scheduler decides who runs; this one checks that what  *)
(* the entries push, shuffle, lose to C code and pop brings every task its *)
(* own registers back.                                                     *)
(*                                                                         *)
(* Values are symbols: what task t last computed in register r.  Tasks     *)
(* that exit are left to Scheduler: they never come back.  rsp is left to  *)
(* it too (UserStackRestored): here a stack is the sequence of values      *)
(* pushed on it since its top.                                             *)
(***************************************************************************)
EXTENDS Integers, Sequences, FiniteSets, SequencesExt

CONSTANTS
    Tasks,      \* user tasks in the queue
    First,      \* the task dispatched first
    Rounds      \* values a register takes in turn: 0..Rounds - 1

ASSUME RegistersAssumption ==
    /\ First \in Tasks
    /\ Rounds \in Nat \ {0}

\* Caller-saved registers in the order the interrupt stubs push them, and
\* callee-saved ones in the order of a switch.
Scratch == <<"rax", "rcx", "rdx", "rsi", "rdi", "r8", "r9", "r10", "r11">>
Callee == <<"rbp", "rbx", "r12", "r13", "r14", "r15">>
SyscallSaved == <<"rdi", "rsi", "rcx", "rdx", "r8", "r9", "r10", "r11">>

\* What the CPU itself pushes for an interrupt and pops with IRETQ.
Frame == <<"rflags", "rip">>

Regs == Range(Scratch) \cup Range(Callee) \cup Range(Frame)

\* A value that is not of a task's making.
Kernel(name) == <<"kernel", name, 0>>

SYS_YIELD == Kernel("SYS_YIELD")
SYS_OPEN == Kernel("SYS_OPEN")
SYS_GETPID == Kernel("SYS_GETPID")
Numbers == {SYS_YIELD, SYS_OPEN, SYS_GETPID}
Junk == Kernel("junk")                    \* left behind by C code
Zero == Kernel("zero")
InYield == Kernel("in scheduler_yield")   \* the rip after int 0x30

VARIABLES
    reg,        \* the CPU's registers
    kstack,     \* kernel stack of each task, the last value pushed at the end
    current,    \* the task whose context the CPU has
    mode,       \* "user", or where in the kernel current is
    user,       \* what each task's program takes its registers to be
    args,       \* the arguments syscall_dispatch() got: number, arg1, arg2, arg3
    round       \* turn of the values the next computation yields

vars == <<reg, kstack, current, mode, user, args, round>>

Pushed(stack, regs, names) == stack \o [k \in 1..Len(names) |-> regs[names[k]]]

\* Pops into the names, the last pushed first.
Popped(stack, regs, names) ==
    [r \in Regs |->
        IF r \in Range(names)
        THEN stack[Len(stack) - Len(names) + (CHOOSE k \in DOMAIN names : names[k] = r)]
        ELSE regs[r]]

Below(stack, names) == SubSeq(stack, 1, Len(stack) - Len(names))

\* A C function returns answer in rax and owes nothing of the other scratch
\* registers.
AfterCall(regs, answer) ==
    [r \in Regs |-> IF r = "rax" THEN answer
                    ELSE IF r \in Range(Scratch) THEN Junk ELSE regs[r]]

EntryPoint(t) == <<t, "entry", 0>>
InitialFlags == Kernel("0x202")

\* The stack that task_create() fabricates: frame, 9 scratch, 6 callee-saved.
CreatedStack(t) == <<InitialFlags, EntryPoint(t)>> \o [k \in 1..9 + 6 |-> Zero]

StartRegs(t) == [r \in Regs |-> CASE r = "rip" -> EntryPoint(t)
                                  [] r = "rflags" -> InitialFlags
                                  [] OTHER -> Zero]

\* The first task has just been dispatched, the others wait for their first
\* turn.
Init ==
    /\ current = First
    /\ reg = StartRegs(First)
    /\ kstack = [t \in Tasks |-> IF t = First THEN <<>> ELSE CreatedStack(t)]
    /\ mode = "user"
    /\ user = [t \in Tasks |-> StartRegs(t)]
    /\ args = <<>>
    /\ round = 0
-----------------------------------------------------------------------------
(* User mode *)

\* The program computes: every register gets a new value, rax possibly the
\* number of a system call.
Compute(nr) ==
    /\ mode = "user"
    /\ reg' = [r \in Regs |-> IF r = "rax" THEN nr ELSE <<current, r, round>>]
    /\ user' = [user EXCEPT ![current] = reg']
    /\ round' = (round + 1) % Rounds
    /\ UNCHANGED <<kstack, current, mode, args>>
-----------------------------------------------------------------------------
(* Interrupt stubs *)

\* r14 and r15 popped in the order they were pushed.
PopAllSwapped(stack, names) ==
    LET regs1 == Popped(stack, reg, <<"rbp", "rbx", "r12", "r13", "r15", "r14">>)
        stack1 == Below(stack, Callee)
        regs2 == Popped(stack1, regs1, Scratch)
        stack2 == Below(stack1, Scratch)
    IN  [reg |-> Popped(stack2, regs2, Frame), stack |-> Below(stack2, Frame)]

\* What the program or kernel code of the task that is current next finds in
\* the registers: the stub's pops and IRETQ.
PopAll(stack, names) ==
    LET regs1 == Popped(stack, reg, names)
        stack1 == Below(stack, names)
        regs2 == Popped(stack1, regs1, Scratch)
        stack2 == Below(stack1, Scratch)
    IN  [reg |-> Popped(stack2, regs2, Frame), stack |-> Below(stack2, Frame)]

\* Everything up to the pops, for an interrupt that finds regs and uses the
\* stack from base on: the frame and the scratch registers are pushed,
\* scheduler_tick() picks next, and on a switch the callee-saved registers
\* are pushed and next's stack is taken.  Without a switch the callee-saved
\* registers stay in the CPU, which C code preserves.
SaveAndSwitch(base, regs, next) ==
    LET entry == Pushed(Pushed(base, regs, Frame), regs, Scratch)
        saved == Pushed(entry, AfterCall(regs, Junk), Callee)
    IN  IF next = current
        THEN [k |-> kstack, full |-> Pushed(entry, regs, Callee)]
        ELSE [k |-> [kstack EXCEPT ![current] = saved], full |-> kstack[next]]

\* The stub as a whole.
Interrupt(base, regs, next) ==
    LET sw == SaveAndSwitch(base, regs, next)
        back == PopAll(sw.full, Callee)
    IN  /\ reg' = back.reg
        /\ kstack' = [sw.k EXCEPT ![next] = back.stack]
        /\ current' = next
        /\ mode' = IF back.reg["rip"] = InYield THEN "return" ELSE "user"

\* IRQ 0 in user mode: the CPU starts on an empty kernel stack (tss.rsp0).
Timer(next) ==
    /\ mode = "user"
    /\ Interrupt(<<>>, reg, next)
    /\ UNCHANGED <<user, args, round>>
-----------------------------------------------------------------------------
(* SYSCALL *)

\* The CPU leaves rip in rcx and rflags in r11.
Entered == [reg EXCEPT !["rcx"] = reg["rip"], !["r11"] = reg["rflags"]]

\* rdi overwritten before it is moved to rsi.
ShuffledLate(regs) ==
    LET step1 == [regs EXCEPT !["rdi"] = regs["rax"]]
    IN  [step1 EXCEPT !["rsi"] = step1["rdi"], !["rdx"] = regs["rsi"]]

\* The moves that turn the user's registers into C arguments; rcx, the fourth
\* one, is left alone.
Shuffled(regs) ==
    [regs EXCEPT !["r8"] = regs["r9"], !["r9"] = regs["r10"], !["r10"] = regs["rdx"],
                 !["rdx"] = regs["rsi"], !["rsi"] = regs["rdi"], !["rdi"] = regs["rax"]]

SysEnter ==
    /\ mode = "user"
    /\ reg["rax"] \in Numbers
    /\ kstack' = [kstack EXCEPT ![current] = Pushed(<<>>, Entered, SyscallSaved)]
    /\ reg' = Shuffled(Entered)
    /\ args' = <<reg'["rdi"], reg'["rsi"], reg'["rdx"], reg'["rcx"]>>
    /\ mode' = "dispatch"
    /\ UNCHANGED <<current, user, round>>

Result(nr) == IF nr = SYS_GETPID THEN Kernel("pid") ELSE Zero

\* A call that returns at once.
SysCompute ==
    /\ mode = "dispatch"
    /\ args[1] # SYS_YIELD
    /\ reg' = AfterCall(reg, Result(args[1]))
    /\ mode' = "leave"
    /\ UNCHANGED <<kstack, current, user, args, round>>

\* sys_yield(): int 0x30 on the kernel stack of the call.
SysYield(next) ==
    /\ mode = "dispatch"
    /\ args[1] = SYS_YIELD
    /\ Interrupt(kstack[current], [AfterCall(reg, Junk) EXCEPT !["rip"] = InYield], next)
    /\ UNCHANGED <<user, args, round>>

\* Back in sys_yield(), whose dispatcher answers 0.
YieldReturns ==
    /\ mode = "return"
    /\ reg' = AfterCall(reg, Zero)
    /\ mode' = "leave"
    /\ UNCHANGED <<kstack, current, user, args, round>>

Sysret(regs) == [regs EXCEPT !["rip"] = regs["rcx"], !["rflags"] = regs["r11"]]

PopsOfSyscall(stack, regs) == Popped(stack, regs, SyscallSaved)

\* One pop too few.
LeftoverOfPops(stack) == Below(stack, Tail(SyscallSaved))
RestOfStack(stack) == Below(stack, SyscallSaved)

\* The pops and SYSRET.  The program expects the answer in rax and, as SYSCALL
\* defines it, rip in rcx and rflags in r11.
SysLeave ==
    /\ mode = "leave"
    /\ reg' = Sysret(PopsOfSyscall(kstack[current], reg))
    /\ kstack' = [kstack EXCEPT ![current] = RestOfStack(@)]
    /\ mode' = "user"
    /\ LET u == user[current]
       IN  user' = [user EXCEPT ![current] =
                       [u EXCEPT !["rax"] = Result(u["rax"]), !["rcx"] = u["rip"],
                                 !["r11"] = u["rflags"]]]
    /\ UNCHANGED <<current, args, round>>
-----------------------------------------------------------------------------
Next ==
    \/ \E nr \in Numbers : Compute(nr)
    \/ SysEnter \/ SysCompute \/ YieldReturns \/ SysLeave
    \/ \E next \in Tasks : Timer(next) \/ SysYield(next)

Spec == Init /\ [][Next]_vars
-----------------------------------------------------------------------------
(* Properties *)

Depths == {Len(Frame) + Len(Scratch) + Len(Callee),
           Len(SyscallSaved) + Len(Frame) + Len(Scratch) + Len(Callee)}

\* A task in user mode finds every register as its program left it, but for
\* what a system call is meant to change, however often it was interrupted,
\* yielded and switched.
UserRegistersIntact == mode = "user" => reg = user[current]

\* Back in user mode nothing is left on the kernel stack, so the next entry
\* may start at its top; inside a call exactly the saved registers are.  The
\* stack of a task that waits holds one whole context, above a call or not.
StackUnwinds ==
    /\ Len(kstack[current]) = IF mode = "user" THEN 0 ELSE Len(SyscallSaved)
    /\ \A t \in Tasks \ {current} : Len(kstack[t]) \in Depths

\* syscall_dispatch() gets the number, arg1 and arg2 that the program of the
\* caller put in rax, rdi and rsi.
ArgumentsArrive ==
    mode = "dispatch" =>
        SubSeq(args, 1, 3) = <<user[current]["rax"], user[current]["rdi"], user[current]["rsi"]>>

\* "arg3 = mode": the third argument of a program is the fourth parameter of
\* the dispatcher.
ThirdArgumentArrives == mode = "dispatch" => args[4] = user[current]["rdx"]
=============================================================================
