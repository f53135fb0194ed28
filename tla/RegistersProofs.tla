-------------------------- MODULE RegistersProofs --------------------------
(***************************************************************************)
(* Proofs about Registers, for every set of tasks and every order in which *)
(* they compute, call, yield and are interrupted.                          *)
(***************************************************************************)
EXTENDS Registers, SequenceTheorems, TLAPS

\* The values registers and stacks hold.
Names == Regs \cup {"entry", "SYS_YIELD", "SYS_OPEN", "SYS_GETPID", "junk", "zero",
                    "in scheduler_yield", "pid", "0x202"}
Values == (Tasks \cup {"kernel"}) \X Names \X Nat

RegFile == [Regs -> Values]

(* The lists of registers *)

LEMMA Lists ==
    /\ Len(Scratch) = 9 /\ Len(Callee) = 6 /\ Len(Frame) = 2 /\ Len(SyscallSaved) = 8
    /\ Range(Scratch) = {"rax", "rcx", "rdx", "rsi", "rdi", "r8", "r9", "r10", "r11"}
    /\ Range(Callee) = {"rbp", "rbx", "r12", "r13", "r14", "r15"}
    /\ Range(Frame) = {"rflags", "rip"}
    /\ Range(SyscallSaved) = {"rdi", "rsi", "rcx", "rdx", "r8", "r9", "r10", "r11"}
<1>1. Len(Scratch) = 9 /\ Len(Callee) = 6 /\ Len(Frame) = 2 /\ Len(SyscallSaved) = 8
    BY DEF Scratch, Callee, Frame, SyscallSaved
<1>2. Range(Scratch) = {"rax", "rcx", "rdx", "rsi", "rdi", "r8", "r9", "r10", "r11"}
    <2>1. DOMAIN Scratch = {1, 2, 3, 4, 5, 6, 7, 8, 9}
        BY DEF Scratch
    <2> QED
        BY <2>1 DEF Range, Scratch
<1>3. Range(Callee) = {"rbp", "rbx", "r12", "r13", "r14", "r15"}
    <2>1. DOMAIN Callee = {1, 2, 3, 4, 5, 6}
        BY DEF Callee
    <2> QED
        BY <2>1 DEF Range, Callee
<1>4. Range(Frame) = {"rflags", "rip"}
    <2>1. DOMAIN Frame = {1, 2}
        BY DEF Frame
    <2> QED
        BY <2>1 DEF Range, Frame
<1>5. Range(SyscallSaved) = {"rdi", "rsi", "rcx", "rdx", "r8", "r9", "r10", "r11"}
    <2>1. DOMAIN SyscallSaved = {1, 2, 3, 4, 5, 6, 7, 8}
        BY DEF SyscallSaved
    <2> QED
        BY <2>1 DEF Range, SyscallSaved
<1> QED
    BY <1>1, <1>2, <1>3, <1>4, <1>5

\* Lists of registers are sequences of distinct registers.
LEMMA ListsAreSequences ==
    /\ Scratch \in Seq(Regs) /\ Callee \in Seq(Regs) /\ Frame \in Seq(Regs)
    /\ SyscallSaved \in Seq(Regs)
<1>1. \A r \in {"rax", "rcx", "rdx", "rsi", "rdi", "r8", "r9", "r10", "r11",
                "rbp", "rbx", "r12", "r13", "r14", "r15", "rflags", "rip"} : r \in Regs
    BY Lists DEF Regs
<1>2. Scratch \in Seq(Regs)
    BY <1>1 DEF Scratch
<1>3. Callee \in Seq(Regs)
    BY <1>1 DEF Callee
<1>4. Frame \in Seq(Regs)
    BY <1>1 DEF Frame
<1>5. SyscallSaved \in Seq(Regs)
    BY <1>1 DEF SyscallSaved
<1> QED
    BY <1>2, <1>3, <1>4, <1>5

-----------------------------------------------------------------------------
(* Pushes and pops *)

LEMMA PushFacts ==
    ASSUME NEW s \in Seq(Values), NEW u \in RegFile, NEW names \in Seq(Regs)
    PROVE  /\ Pushed(s, u, names) \in Seq(Values)
           /\ Len(Pushed(s, u, names)) = Len(s) + Len(names)
           /\ \A k \in 1..Len(s) : Pushed(s, u, names)[k] = s[k]
           /\ \A k \in 1..Len(names) : Pushed(s, u, names)[Len(s) + k] = u[names[k]]
<1> DEFINE n == Len(names)
           top == [k \in 1..n |-> u[names[k]]]
<1>1. n \in Nat /\ \A k \in 1..n : names[k] \in Regs
    BY LenProperties
<1>2. top \in [1..n -> Values]
    BY <1>1 DEF RegFile
<1> HIDE DEF n
<1>3. top \in Seq(Values) /\ Len(top) = n
    <2>1. top \in Seq(Values)
        BY <1>1, <1>2, SeqDef
    <2> QED
        BY <1>1, <2>1, LenProperties
<1>4. \A k \in 1..n : top[k] = u[names[k]]
    OBVIOUS
<1> HIDE DEF top
<1>5. /\ s \o top \in Seq(Values) /\ Len(s \o top) = Len(s) + n
      /\ \A k \in 1..Len(s) : (s \o top)[k] = s[k]
      /\ \A k \in 1..n : (s \o top)[Len(s) + k] = top[k]
    <2>1. s \o top \in Seq(Values) /\ Len(s \o top) = Len(s) + n
        BY <1>3, ConcatProperties
    <2>2. Len(s) \in Nat
        BY LenProperties
    <2> QED
        BY <1>1, <1>3, <2>1, <2>2, ConcatProperties
<1>6. Pushed(s, u, names) = s \o top
    BY DEF Pushed, top, n
<1> QED
    BY <1>4, <1>5, <1>6 DEF n

LEMMA PushType ==
    ASSUME NEW s \in Seq(Values), NEW u \in RegFile, NEW names \in Seq(Regs)
    PROVE  Pushed(s, u, names) \in Seq(Values) /\ Len(Pushed(s, u, names)) = Len(s) + Len(names)
BY PushFacts

\* What was pushed last is popped, and what lay below is left.
LEMMA PopPush ==
    ASSUME NEW s \in Seq(Values), NEW u \in RegFile, NEW v \in RegFile, NEW names \in Seq(Regs)
    PROVE  /\ Popped(Pushed(s, u, names), v, names)
                 = [r \in Regs |-> IF r \in Range(names) THEN u[r] ELSE v[r]]
           /\ Below(Pushed(s, u, names), names) = s
<1> DEFINE p == Pushed(s, u, names)
           n == Len(names)
<1>1. /\ n \in Nat /\ Len(s) \in Nat /\ DOMAIN names = 1..n
      /\ \A k \in 1..n : names[k] \in Regs
    BY LenProperties
<1>2. /\ p \in Seq(Values) /\ Len(p) = Len(s) + n
      /\ \A k \in 1..Len(s) : p[k] = s[k]
      /\ \A k \in 1..n : p[Len(s) + k] = u[names[k]]
    BY PushFacts
<1>3. Len(p) - n = Len(s)
    BY <1>1, <1>2
<1>4. ASSUME NEW r \in Range(names)
      PROVE  p[Len(p) - n + (CHOOSE k \in DOMAIN names : names[k] = r)] = u[r]
    <2>1. \E k \in DOMAIN names : names[k] = r
        BY DEF Range
    <2> DEFINE j == CHOOSE k \in DOMAIN names : names[k] = r
    <2>2. j \in 1..n /\ names[j] = r
        BY <1>1, <2>1
    <2> HIDE DEF j, p
    <2>3. p[Len(s) + j] = u[r]
        BY <1>2, <2>2
    <2> QED
        BY <1>3, <2>3 DEF j
<1>5. Below(p, names) = s
    <2>1. Below(p, names) = SubSeq(p, 1, Len(s))
        BY <1>3 DEF Below
    <2> HIDE DEF p, n
    <2>2. /\ SubSeq(p, 1, Len(s)) \in Seq(Values)
          /\ Len(SubSeq(p, 1, Len(s))) = Len(s)
          /\ \A k \in 1..Len(s) : SubSeq(p, 1, Len(s))[k] = p[k]
        BY <1>1, <1>2
    <2>3. SubSeq(p, 1, Len(s)) = s
        BY <1>2, <2>2, SeqEqual
    <2> QED
        BY <2>1, <2>3
<1>6. Popped(p, v, names) = [r \in Regs |-> IF r \in Range(names) THEN u[r] ELSE v[r]]
    <2> HIDE DEF p
    <2>1. Popped(p, v, names)
             = [r \in Regs |->
                   IF r \in Range(names)
                   THEN p[Len(p) - n + (CHOOSE k \in DOMAIN names : names[k] = r)]
                   ELSE v[r]]
        BY DEF Popped
    <2> DEFINE at(r) == p[Len(p) - n + (CHOOSE k \in DOMAIN names : names[k] = r)]
    <2>2. \A r \in Range(names) : at(r) = u[r]
        BY <1>4
    <2>3. Popped(p, v, names) = [r \in Regs |-> IF r \in Range(names) THEN at(r) ELSE v[r]]
        BY <2>1
    <2> HIDE DEF at
    <2> QED
        BY <2>2, <2>3
<1> QED
    BY <1>5, <1>6

-----------------------------------------------------------------------------
(* Contexts *)

\* The context that an interrupt leaves above base when it finds u in the
\* registers and C code w.
Context(base, u, w) == Pushed(Pushed(Pushed(base, u, Frame), u, Scratch), w, Callee)

\* The registers that come back from it.
Resumed(u, w) == [r \in Regs |-> IF r \in Range(Callee) THEN w[r] ELSE u[r]]

LEMMA ContextType ==
    ASSUME NEW base \in Seq(Values), NEW u \in RegFile, NEW w \in RegFile
    PROVE  /\ Context(base, u, w) \in Seq(Values)
           /\ Len(Context(base, u, w)) = Len(base) + 17
           /\ Resumed(u, w) \in RegFile
<1>0. Len(Scratch) = 9 /\ Len(Callee) = 6 /\ Len(Frame) = 2
    BY Lists
<1> DEFINE s1 == Pushed(base, u, Frame)
           s2 == Pushed(s1, u, Scratch)
           s3 == Pushed(s2, w, Callee)
<1>1. s1 \in Seq(Values) /\ Len(s1) = Len(base) + Len(Frame)
    BY PushType, ListsAreSequences
<1> HIDE DEF s1
<1>2. s2 \in Seq(Values) /\ Len(s2) = Len(s1) + Len(Scratch)
    BY <1>1, PushType, ListsAreSequences
<1> HIDE DEF s2
<1>3. s3 \in Seq(Values) /\ Len(s3) = Len(s2) + Len(Callee)
    BY <1>2, PushType, ListsAreSequences
<1> HIDE DEF s3
<1>4. Len(base) \in Nat
    BY LenProperties
<1>5. Resumed(u, w) \in RegFile
    BY DEF Resumed, RegFile
<1> QED
    BY <1>0, <1>1, <1>2, <1>3, <1>4, <1>5 DEF Context, s1, s2, s3

\* The stub's pops and IRETQ take a whole context off the stack.
LEMMA PopAllOfContext ==
    ASSUME NEW base \in Seq(Values), NEW u \in RegFile, NEW w \in RegFile, reg \in RegFile
    PROVE  PopAll(Context(base, u, w), Callee) = [reg |-> Resumed(u, w), stack |-> base]
<1> DEFINE s1 == Pushed(base, u, Frame)
           s2 == Pushed(s1, u, Scratch)
           s3 == Pushed(s2, w, Callee)
           r1 == Popped(s3, reg, Callee)
           r2 == Popped(s2, r1, Scratch)
           r3 == Popped(s1, r2, Frame)
<1>1. s1 \in Seq(Values)
    BY PushFacts, ListsAreSequences
<1>2. s2 \in Seq(Values)
    <2> HIDE DEF s1
    <2> QED
        BY <1>1, PushFacts, ListsAreSequences
<1>3. r1 = [r \in Regs |-> IF r \in Range(Callee) THEN w[r] ELSE reg[r]] /\ Below(s3, Callee) = s2
    <2> HIDE DEF s2
    <2> QED
        BY <1>2, PopPush, ListsAreSequences
<1>4. r1 \in RegFile
    BY <1>3 DEF RegFile
<1>5. r2 = [r \in Regs |-> IF r \in Range(Scratch) THEN u[r] ELSE r1[r]] /\ Below(s2, Scratch) = s1
    <2> HIDE DEF s1, r1
    <2> QED
        BY <1>1, <1>4, PopPush, ListsAreSequences
<1>6. r2 \in RegFile
    BY <1>4, <1>5 DEF RegFile
<1>7. r3 = [r \in Regs |-> IF r \in Range(Frame) THEN u[r] ELSE r2[r]] /\ Below(s1, Frame) = base
    <2> HIDE DEF r2
    <2> QED
        BY <1>6, PopPush, ListsAreSequences
<1>8. PopAll(s3, Callee) = [reg |-> r3, stack |-> base]
    <2> HIDE DEF s1, s2, s3
    <2>1. Below(s3, Callee) = s2 /\ Below(s2, Scratch) = s1 /\ Below(s1, Frame) = base
        BY <1>3, <1>5, <1>7 DEF s1, s2, s3
    <2> QED
        BY <2>1 DEF PopAll
<1> HIDE DEF s1, s2, s3, r1, r2, r3
<1>9. r3 = Resumed(u, w)
    <2>1. \A r \in Regs : r3[r] = IF r \in Range(Callee) THEN w[r] ELSE u[r]
        BY <1>3, <1>5, <1>7, Lists DEF Regs
    <2>2. r3 = [r \in Regs |-> r3[r]]
        BY <1>7
    <2> QED
        BY <2>1, <2>2 DEF Resumed
<1> QED
    BY <1>8, <1>9 DEF Context, s1, s2, s3

-----------------------------------------------------------------------------
(* The invariant *)

\* What SYSCALL and the entry stub leave on the stack of a program with
\* registers u.
EnteredFrom(u) == [u EXCEPT !["rcx"] = u["rip"], !["r11"] = u["rflags"]]
CallFrame(u) == Pushed(<<>>, EnteredFrom(u), SyscallSaved)

SameCallee(w, u) == \A r \in Range(Callee) : w[r] = u[r]

\* The registers u and w above base are those of task t: interrupted in its
\* program, or in sys_yield() on top of a call.
Resumable(t, base, u, w) ==
    /\ SameCallee(w, user[t])
    /\ \/ base = <<>> /\ u = user[t]
       \/ base = CallFrame(user[t]) /\ u["rip"] = InYield /\ user[t]["rax"] = SYS_YIELD

Types ==
    /\ current \in Tasks
    /\ reg \in RegFile
    /\ kstack \in [Tasks -> Seq(Values)]
    /\ user \in [Tasks -> RegFile]
    /\ mode \in {"user", "dispatch", "return", "leave"}
    /\ round \in Nat

\* No program is at the instruction that only sys_yield() is at.
ProgramsOutside == \A t \in Tasks : user[t]["rip"] # InYield

\* The task that has the CPU.
Running ==
    /\ mode = "user" => reg = user[current] /\ kstack[current] = <<>>
    /\ mode # "user" =>
          SameCallee(reg, user[current]) /\ kstack[current] = CallFrame(user[current])
    /\ mode = "dispatch" =>
          /\ args[1] = user[current]["rax"]
          /\ SubSeq(args, 1, 3) = <<user[current]["rax"], user[current]["rdi"], user[current]["rsi"]>>
    /\ mode = "return" => user[current]["rax"] = SYS_YIELD
    /\ mode = "leave" => reg["rax"] = Result(user[current]["rax"])

\* A task that waits has its context on its stack, and nothing above.
Waiting(t) ==
    \E base \in Seq(Values), u \in RegFile, w \in RegFile :
        Resumable(t, base, u, w) /\ kstack[t] = Context(base, u, w)

IInv ==
    /\ Types /\ ProgramsOutside /\ Running
    /\ \A t \in Tasks \ {current} : Waiting(t)

-----------------------------------------------------------------------------
(* Values *)

LEMMA KernelValues ==
    /\ SYS_YIELD \in Values /\ SYS_OPEN \in Values /\ SYS_GETPID \in Values
    /\ Junk \in Values /\ Zero \in Values /\ InYield \in Values /\ Kernel("pid") \in Values
    /\ InitialFlags \in Values /\ \A t \in Tasks : EntryPoint(t) \in Values
<1>1. \A a \in Tasks \cup {"kernel"}, b \in Names, c \in Nat : <<a, b, c>> \in Values
    BY DEF Values
<1>2. "kernel" \in Tasks \cup {"kernel"} /\ 0 \in Nat
    OBVIOUS
<1>3. \A b \in Names : Kernel(b) \in Values
    BY <1>1, <1>2 DEF Kernel
<1>8. \A b \in {"SYS_YIELD", "SYS_OPEN", "SYS_GETPID", "junk", "zero", "in scheduler_yield",
                "pid", "0x202"} : b \in Names
    BY DEF Names
<1>4. \A t \in Tasks : EntryPoint(t) \in Values
    <2>1. "entry" \in Names
        BY DEF Names
    <2> QED
        BY <1>1, <1>2, <2>1 DEF EntryPoint
<1>5. SYS_YIELD \in Values /\ SYS_OPEN \in Values /\ SYS_GETPID \in Values
    BY <1>3, <1>8 DEF SYS_YIELD, SYS_OPEN, SYS_GETPID
<1>6. Junk \in Values /\ Zero \in Values /\ InYield \in Values
    BY <1>3, <1>8 DEF Junk, Zero, InYield
<1>7. Kernel("pid") \in Values /\ InitialFlags \in Values
    BY <1>3, <1>8 DEF InitialFlags
<1> QED
    BY <1>4, <1>5, <1>6, <1>7

LEMMA SomeRegs ==
    /\ \A r \in {"rax", "rcx", "rdx", "rsi", "rdi", "r8", "r9", "r10", "r11", "rflags", "rip"} :
          r \in Regs /\ r \notin Range(Callee)
    /\ Range(Callee) \subseteq Regs
BY Lists DEF Regs

\* What C code returns: other scratch registers, the same callee-saved ones.
LEMMA AfterCallKeeps ==
    ASSUME NEW u \in RegFile, NEW answer \in Values
    PROVE  /\ AfterCall(u, answer) \in RegFile /\ SameCallee(AfterCall(u, answer), u)
           /\ AfterCall(u, answer)["rax"] = answer
<1>1. \A r \in Regs : AfterCall(u, answer)[r] =
          IF r = "rax" THEN answer ELSE IF r \in Range(Scratch) THEN Junk ELSE u[r]
    BY DEF AfterCall
<1>2. AfterCall(u, answer) \in RegFile
    BY KernelValues DEF AfterCall, RegFile
<1>3. \A r \in Range(Callee) : r \in Regs /\ r # "rax" /\ r \notin Range(Scratch)
    BY Lists, SomeRegs
<1>4. SameCallee(AfterCall(u, answer), u)
    BY <1>1, <1>3 DEF SameCallee
<1> QED
    BY <1>1, <1>2, <1>4, SomeRegs

LEMMA EnteredType ==
    ASSUME NEW u \in RegFile
    PROVE  EnteredFrom(u) \in RegFile /\ CallFrame(u) \in Seq(Values) /\ Len(CallFrame(u)) = 8
<1>1. EnteredFrom(u) \in RegFile
    BY SomeRegs DEF EnteredFrom, RegFile
<1>2. <<>> \in Seq(Values) /\ Len(<<>>) = 0
    BY EmptySeq
<1>3. /\ Pushed(<<>>, EnteredFrom(u), SyscallSaved) \in Seq(Values)
      /\ Len(Pushed(<<>>, EnteredFrom(u), SyscallSaved)) = Len(<<>>) + Len(SyscallSaved)
    BY <1>1, <1>2, PushType, ListsAreSequences
<1>4. Len(SyscallSaved) = 8
    BY Lists
<1> QED
    BY <1>1, <1>2, <1>3, <1>4 DEF CallFrame

-----------------------------------------------------------------------------
(* The initial state *)

\* The stack that task_create() makes up looks like that of an interrupted
\* program at its entry.
LEMMA CreatedIsContext ==
    ASSUME NEW t \in Tasks
    PROVE  /\ StartRegs(t) \in RegFile
           /\ CreatedStack(t) = Context(<<>>, StartRegs(t), StartRegs(t))
<1> DEFINE u == StartRegs(t)
           s1 == Pushed(<<>>, u, Frame)
           s2 == Pushed(s1, u, Scratch)
           s3 == Pushed(s2, u, Callee)
           zeros == [k \in 1..9 + 6 |-> Zero]
           start == <<InitialFlags, EntryPoint(t)>>
<1>1. u \in RegFile
    BY KernelValues DEF StartRegs, RegFile
<1>2. /\ u["rflags"] = InitialFlags /\ u["rip"] = EntryPoint(t)
      /\ \A r \in Range(Scratch) \cup Range(Callee) : u[r] = Zero
    BY Lists DEF StartRegs, Regs
<1>3. /\ Len(Scratch) = 9 /\ Len(Callee) = 6 /\ Len(Frame) = 2
      /\ Frame[1] = "rflags" /\ Frame[2] = "rip"
      /\ \A k \in 1..9 : Scratch[k] \in Range(Scratch)
      /\ \A k \in 1..6 : Callee[k] \in Range(Callee)
    <2>1. Len(Scratch) = 9 /\ Len(Callee) = 6 /\ Len(Frame) = 2
        BY Lists
    <2>2. Frame[1] = "rflags" /\ Frame[2] = "rip"
        BY DEF Frame
    <2>3. DOMAIN Scratch = 1..9 /\ DOMAIN Callee = 1..6
        BY <2>1, ListsAreSequences, LenProperties
    <2> QED
        BY <2>1, <2>2, <2>3 DEF Range
<1>4. <<>> \in Seq(Values) /\ Len(<<>>) = 0
    BY EmptySeq
<1> HIDE DEF u
<1>5. s1 \in Seq(Values) /\ Len(s1) = 2 /\ s1[1] = InitialFlags /\ s1[2] = EntryPoint(t)
    <2>1. /\ s1 \in Seq(Values) /\ Len(s1) = Len(<<>>) + Len(Frame)
          /\ \A k \in 1..Len(Frame) : s1[Len(<<>>) + k] = u[Frame[k]]
        BY <1>1, <1>4, PushFacts, ListsAreSequences
    <2> HIDE DEF s1
    <2>2. 1 \in 1..Len(Frame) /\ 2 \in 1..Len(Frame)
        BY <1>3
    <2> QED
        BY <1>2, <1>3, <1>4, <2>1, <2>2
<1> HIDE DEF s1
<1>6. /\ s2 \in Seq(Values) /\ Len(s2) = 11 /\ s2[1] = InitialFlags /\ s2[2] = EntryPoint(t)
      /\ \A k \in 3..11 : s2[k] = Zero
    <2>1. /\ s2 \in Seq(Values) /\ Len(s2) = Len(s1) + Len(Scratch)
          /\ \A k \in 1..Len(s1) : s2[k] = s1[k]
          /\ \A k \in 1..Len(Scratch) : s2[Len(s1) + k] = u[Scratch[k]]
        BY <1>1, <1>5, PushFacts, ListsAreSequences
    <2> HIDE DEF s2
    <2>2. \A k \in 1..9 : s2[2 + k] = Zero
        BY <1>2, <1>3, <1>5, <2>1
    <2>3. \A k \in 3..11 : k - 2 \in 1..9 /\ k = 2 + (k - 2)
        OBVIOUS
    <2> QED
        BY <1>3, <1>5, <2>1, <2>2, <2>3
<1> HIDE DEF s2
<1>7. /\ s3 \in Seq(Values) /\ Len(s3) = 17 /\ s3[1] = InitialFlags /\ s3[2] = EntryPoint(t)
      /\ \A k \in 3..17 : s3[k] = Zero
    <2>1. /\ s3 \in Seq(Values) /\ Len(s3) = Len(s2) + Len(Callee)
          /\ \A k \in 1..Len(s2) : s3[k] = s2[k]
          /\ \A k \in 1..Len(Callee) : s3[Len(s2) + k] = u[Callee[k]]
        BY <1>1, <1>6, PushFacts, ListsAreSequences
    <2> HIDE DEF s3
    <2>2. \A k \in 1..6 : s3[11 + k] = Zero
        BY <1>2, <1>3, <1>6, <2>1
    <2>3. \A k \in 3..17 : k \in 3..11 \/ (k - 11 \in 1..6 /\ k = 11 + (k - 11))
        OBVIOUS
    <2> QED
        BY <1>3, <1>6, <2>1, <2>2, <2>3
<1> HIDE DEF s3
<1>8. start \in Seq(Values) /\ Len(start) = 2 /\ start[1] = InitialFlags /\ start[2] = EntryPoint(t)
    BY KernelValues
<1>9. zeros \in Seq(Values) /\ Len(zeros) = 15 /\ \A k \in 1..15 : zeros[k] = Zero
    <2>1. zeros \in [1..15 -> Values] /\ \A k \in 1..15 : zeros[k] = Zero
        BY KernelValues
    <2>2. zeros \in Seq(Values)
        <3>1. 15 \in Nat
            OBVIOUS
        <3> HIDE DEF zeros
        <3> QED
            BY <2>1, <3>1, SeqDef
    <2> HIDE DEF zeros
    <2> QED
        BY <2>1, <2>2, LenProperties
<1> HIDE DEF start, zeros
<1>10. /\ start \o zeros \in Seq(Values) /\ Len(start \o zeros) = 17
       /\ (start \o zeros)[1] = InitialFlags /\ (start \o zeros)[2] = EntryPoint(t)
       /\ \A k \in 3..17 : (start \o zeros)[k] = Zero
    <2>0. start \in Seq(Values) /\ zeros \in Seq(Values) /\ Len(start) = 2 /\ Len(zeros) = 15
        BY <1>8, <1>9
    <2> DEFINE c == start \o zeros
    <2>1. /\ c \in Seq(Values) /\ Len(c) = Len(start) + Len(zeros)
          /\ \A k \in 1..(Len(start) + Len(zeros)) :
                c[k] = IF k <= Len(start) THEN start[k] ELSE zeros[k - Len(start)]
        BY <2>0, ConcatProperties
    <2> HIDE DEF c
    <2>2. Len(c) = 17 /\ \A k \in 1..17 : c[k] = IF k <= 2 THEN start[k] ELSE zeros[k - 2]
        BY <2>0, <2>1
    <2>3. c[1] = start[1] /\ c[2] = start[2]
        BY <2>2
    <2>4. \A k \in 3..17 : c[k] = zeros[k - 2]
        BY <2>2
    <2>5. \A k \in 3..17 : k - 2 \in 1..15
        OBVIOUS
    <2>6. \A k \in 3..17 : c[k] = Zero
        BY <1>9, <2>4, <2>5
    <2>7. c[1] = InitialFlags /\ c[2] = EntryPoint(t)
        BY <1>8, <2>3
    <2> QED
        BY <2>1, <2>2, <2>6, <2>7 DEF c
<1>11. \A k \in 1..17 : k = 1 \/ k = 2 \/ k \in 3..17
    OBVIOUS
<1>12. s3 = start \o zeros
    <2> DEFINE c == start \o zeros
    <2> HIDE DEF c
    <2>0. s3[1] = c[1] /\ s3[2] = c[2] /\ \A k \in 3..17 : s3[k] = c[k]
        BY <1>7, <1>10 DEF c
    <2>1. \A k \in 1..17 : s3[k] = c[k]
        BY <1>11, <2>0
    <2>2. s3 = c
        BY <1>7, <1>10, <2>1, SeqEqual DEF c
    <2> QED
        BY <2>2 DEF c
<1> QED
    BY <1>1, <1>12 DEF s1, s2, s3, u, start, zeros, Context, CreatedStack

LEMMA InitEstablishes == Init => IInv
<1> SUFFICES ASSUME Init
             PROVE  IInv
    OBVIOUS
<1>1. /\ current = First /\ First \in Tasks /\ mode = "user" /\ round = 0
      /\ reg = StartRegs(First) /\ user = [t \in Tasks |-> StartRegs(t)]
      /\ kstack = [t \in Tasks |-> IF t = First THEN <<>> ELSE CreatedStack(t)]
    BY RegistersAssumption DEF Init
<1>2. <<>> \in Seq(Values)
    BY EmptySeq
<1>3. \A t \in Tasks : /\ StartRegs(t) \in RegFile
                       /\ CreatedStack(t) = Context(<<>>, StartRegs(t), StartRegs(t))
                       /\ CreatedStack(t) \in Seq(Values)
    BY <1>2, CreatedIsContext, ContextType
<1>4. Types
    BY <1>1, <1>2, <1>3 DEF Types
<1>5. ProgramsOutside
    <2>1. \A t \in Tasks : StartRegs(t)["rip"] = EntryPoint(t)
        BY SomeRegs DEF StartRegs
    <2>2. \A t \in Tasks : EntryPoint(t) # InYield
        BY DEF EntryPoint, InYield, Kernel
    <2> QED
        BY <1>1, <2>1, <2>2 DEF ProgramsOutside
<1>6. Running
    BY <1>1 DEF Running
<1>7. \A t \in Tasks \ {current} : Waiting(t)
    BY <1>1, <1>2, <1>3 DEF Waiting, Resumable, SameCallee
<1> QED
    BY <1>4, <1>5, <1>6, <1>7 DEF IInv
-----------------------------------------------------------------------------
(* The interrupt stubs *)

\* A task that no step touches goes on waiting.
LEMMA StillWaiting ==
    ASSUME NEW t \in Tasks, Waiting(t), kstack'[t] = kstack[t], user'[t] = user[t]
    PROVE  Waiting(t)'
BY DEF Waiting, Resumable

\* What comes back from a context is the program with its registers or
\* sys_yield() on top of the program's call, and rip tells which.
LEMMA ResumedRuns ==
    ASSUME NEW t \in Tasks, NEW base \in Seq(Values), NEW u \in RegFile, NEW w \in RegFile,
           user[t] \in RegFile, user[t]["rip"] # InYield, Resumable(t, base, u, w)
    PROVE  \/ /\ Resumed(u, w)["rip"] # InYield
              /\ Resumed(u, w) = user[t] /\ base = <<>>
           \/ /\ Resumed(u, w)["rip"] = InYield
              /\ SameCallee(Resumed(u, w), user[t]) /\ base = CallFrame(user[t])
              /\ user[t]["rax"] = SYS_YIELD
<1>1. /\ Resumed(u, w)["rip"] = u["rip"]
      /\ \A r \in Range(Callee) : Resumed(u, w)[r] = w[r]
    BY SomeRegs DEF Resumed
<1>2. \A r \in Range(Callee) : w[r] = user[t][r]
    BY DEF Resumable, SameCallee
<1>3. CASE base = <<>> /\ u = user[t]
    <2>1. \A r \in Regs : Resumed(u, w)[r] = user[t][r]
        BY <1>2, <1>3 DEF Resumed
    <2>2. Resumed(u, w) \in RegFile
        BY DEF Resumed, RegFile
    <2>3. Resumed(u, w) = user[t]
        BY <2>1, <2>2 DEF RegFile
    <2> QED
        BY <1>1, <1>3, <2>3
<1>4. CASE base = CallFrame(user[t]) /\ u["rip"] = InYield /\ user[t]["rax"] = SYS_YIELD
    BY <1>1, <1>2, <1>4 DEF SameCallee
<1> QED
    BY <1>3, <1>4 DEF Resumable

\* The end of an interrupt: next runs what its context held.
LEMMA Dispatched ==
    ASSUME IInv, NEW next \in Tasks,
           NEW base \in Seq(Values), NEW u \in RegFile, NEW w \in RegFile,
           Resumable(next, base, u, w),
           reg' = Resumed(u, w),
           mode' = IF Resumed(u, w)["rip"] = InYield THEN "return" ELSE "user",
           current' = next,
           kstack' \in [Tasks -> Seq(Values)], kstack'[next] = base,
           UNCHANGED <<user, args, round>>,
           \A t \in Tasks \ {next} : Waiting(t)'
    PROVE  IInv'
<1>1. user \in [Tasks -> RegFile] /\ \A t \in Tasks : user[t]["rip"] # InYield
    BY DEF IInv, Types, ProgramsOutside
<1>2. user[next] \in RegFile /\ user[next]["rip"] # InYield
    BY <1>1
<1>3. \/ /\ Resumed(u, w)["rip"] # InYield
         /\ Resumed(u, w) = user[next] /\ base = <<>>
      \/ /\ Resumed(u, w)["rip"] = InYield
         /\ SameCallee(Resumed(u, w), user[next]) /\ base = CallFrame(user[next])
         /\ user[next]["rax"] = SYS_YIELD
    BY <1>2, ResumedRuns
<1>4. Resumed(u, w) \in RegFile
    BY DEF Resumed, RegFile
<1>5. Types'
    BY <1>1, <1>4 DEF IInv, Types
<1>6. ProgramsOutside'
    BY <1>1 DEF ProgramsOutside
<1>7. Running'
    BY <1>3 DEF Running
<1> QED
    BY <1>5, <1>6, <1>7 DEF IInv

\* An interrupt, with or without a switch.
LEMMA InterruptStep ==
    ASSUME IInv, NEW base \in Seq(Values), NEW u \in RegFile, NEW next \in Tasks,
           Interrupt(base, u, next), Resumable(current, base, u, u),
           UNCHANGED <<user, args, round>>
    PROVE  IInv'
<1>1. /\ current \in Tasks /\ reg \in RegFile /\ kstack \in [Tasks -> Seq(Values)]
      /\ \A t \in Tasks \ {current} : Waiting(t)
    BY DEF IInv, Types
<1> DEFINE back == PopAll(SaveAndSwitch(base, u, next).full, Callee)
<1>2. /\ reg' = back.reg
      /\ kstack' = [SaveAndSwitch(base, u, next).k EXCEPT ![next] = back.stack]
      /\ current' = next
      /\ mode' = IF back.reg["rip"] = InYield THEN "return" ELSE "user"
    BY DEF Interrupt
<1>3. CASE next = current
    <2>1. SaveAndSwitch(base, u, next) = [k |-> kstack, full |-> Context(base, u, u)]
        BY <1>3 DEF SaveAndSwitch, Context
    <2>2. PopAll(Context(base, u, u), Callee) = [reg |-> Resumed(u, u), stack |-> base]
        BY <1>1, PopAllOfContext
    <2>3. back = [reg |-> Resumed(u, u), stack |-> base] /\ SaveAndSwitch(base, u, next).k = kstack
        BY <2>1, <2>2
    <2> HIDE DEF back
    <2>4. /\ reg' = Resumed(u, u) /\ kstack' = [kstack EXCEPT ![next] = base]
          /\ mode' = IF Resumed(u, u)["rip"] = InYield THEN "return" ELSE "user"
        BY <1>2, <2>3
    <2>5. kstack' \in [Tasks -> Seq(Values)] /\ kstack'[next] = base
        BY <1>1, <2>4
    <2>6. ASSUME NEW t \in Tasks \ {next}
          PROVE  Waiting(t)'
        <3>1. kstack'[t] = kstack[t] /\ user'[t] = user[t] /\ Waiting(t)
            BY <1>1, <1>3, <2>4
        <3> QED
            BY <3>1, StillWaiting
    <2>7. Resumable(next, base, u, u)
        BY <1>3
    <2> QED
        BY <1>2, <2>4, <2>5, <2>6, <2>7, Dispatched
<1>4. CASE next # current
    <2> DEFINE saved == Context(base, u, AfterCall(u, Junk))
    <2>1. Waiting(next)
        BY <1>1, <1>4
    <2>2. PICK b \in Seq(Values), u2 \in RegFile, w2 \in RegFile :
              Resumable(next, b, u2, w2) /\ kstack[next] = Context(b, u2, w2)
        BY <2>1 DEF Waiting
    <2>3. SaveAndSwitch(base, u, next)
             = [k |-> [kstack EXCEPT ![current] = saved], full |-> kstack[next]]
        BY <1>4 DEF SaveAndSwitch, Context
    <2>4. PopAll(kstack[next], Callee) = [reg |-> Resumed(u2, w2), stack |-> b]
        BY <1>1, <2>2, PopAllOfContext
    <2>5. /\ back = [reg |-> Resumed(u2, w2), stack |-> b]
          /\ SaveAndSwitch(base, u, next).k = [kstack EXCEPT ![current] = saved]
        BY <2>3, <2>4
    <2>6. /\ AfterCall(u, Junk) \in RegFile /\ SameCallee(AfterCall(u, Junk), u)
          /\ saved \in Seq(Values)
        BY KernelValues, AfterCallKeeps, ContextType
    <2>7. Resumable(current, base, u, AfterCall(u, Junk))
        BY <2>6 DEF Resumable, SameCallee
    <2> HIDE DEF back, saved
    <2>8. /\ reg' = Resumed(u2, w2)
          /\ kstack' = [[kstack EXCEPT ![current] = saved] EXCEPT ![next] = b]
          /\ mode' = IF Resumed(u2, w2)["rip"] = InYield THEN "return" ELSE "user"
        BY <1>2, <2>5
    <2>9. /\ kstack' \in [Tasks -> Seq(Values)] /\ kstack'[next] = b /\ kstack'[current] = saved
          /\ \A t \in Tasks \ {current, next} : kstack'[t] = kstack[t]
        BY <1>1, <1>4, <2>6, <2>8
    <2>10. ASSUME NEW t \in Tasks \ {next}
           PROVE  Waiting(t)'
        <3>1. CASE t = current
            <4>1. kstack'[t] = Context(base, u, AfterCall(u, Junk))
                BY <2>9, <3>1 DEF saved
            <4>2. Resumable(t, base, u, AfterCall(u, Junk))'
                BY <2>7, <3>1 DEF Resumable
            <4> QED
                BY <2>6, <4>1, <4>2 DEF Waiting
        <3>2. CASE t # current
            <4>1. kstack'[t] = kstack[t] /\ user'[t] = user[t] /\ Waiting(t)
                BY <1>1, <2>9, <3>2
            <4> QED
                BY <4>1, StillWaiting
        <3> QED
            BY <3>1, <3>2
    <2> QED
        BY <1>2, <2>2, <2>8, <2>9, <2>10, Dispatched
<1> QED
    BY <1>3, <1>4
-----------------------------------------------------------------------------
(* The steps *)

LEMMA NumbersAreValues ==
    /\ Numbers \subseteq Values
    /\ \A nr \in Values : Result(nr) \in Values
    /\ Result(SYS_YIELD) = Zero
<1>1. SYS_YIELD # SYS_GETPID
    BY DEF SYS_YIELD, SYS_GETPID, Kernel
<1> QED
    BY <1>1, KernelValues DEF Numbers, Result

LEMMA ComputeStep ==
    ASSUME IInv, NEW nr \in Numbers, Compute(nr)
    PROVE  IInv'
<1>1. /\ current \in Tasks /\ user \in [Tasks -> RegFile] /\ round \in Nat
      /\ \A t \in Tasks : user[t]["rip"] # InYield
      /\ mode = "user" /\ kstack[current] = <<>> /\ kstack \in [Tasks -> Seq(Values)]
    BY DEF IInv, Types, ProgramsOutside, Running, Compute
<1>2. /\ reg' = [r \in Regs |-> IF r = "rax" THEN nr ELSE <<current, r, round>>]
      /\ user' = [user EXCEPT ![current] = reg'] /\ round' = (round + 1) % Rounds
      /\ kstack' = kstack /\ current' = current /\ mode' = "user"
    BY <1>1 DEF Compute
<1>3. nr \in Values /\ \A r \in Regs : <<current, r, round>> \in Values
    BY <1>1, NumbersAreValues DEF Values, Names
<1>4. reg' \in RegFile
    BY <1>2, <1>3 DEF RegFile
<1>5. round' \in Nat
    BY <1>1, <1>2, RegistersAssumption
<1>6. Types'
    BY <1>1, <1>2, <1>4, <1>5 DEF Types
<1>7. ProgramsOutside'
    <2>1. reg'["rip"] = <<current, "rip", round>>
        BY <1>2, SomeRegs
    <2>2. <<current, "rip", round>> # InYield
        BY DEF InYield, Kernel
    <2> QED
        BY <1>1, <1>2, <2>1, <2>2 DEF ProgramsOutside
<1>8. Running'
    BY <1>1, <1>2 DEF Running
<1>9. \A t \in Tasks \ {current'} : Waiting(t)'
    <2>1. \A t \in Tasks \ {current} : Waiting(t) /\ kstack'[t] = kstack[t] /\ user'[t] = user[t]
        BY <1>1, <1>2 DEF IInv
    <2> QED
        BY <1>2, <2>1, StillWaiting
<1> QED
    BY <1>6, <1>7, <1>8, <1>9 DEF IInv

LEMMA TimerStep ==
    ASSUME IInv, NEW next \in Tasks, Timer(next)
    PROVE  IInv'
<1>1. /\ Interrupt(<<>>, reg, next) /\ UNCHANGED <<user, args, round>> /\ mode = "user"
      /\ reg \in RegFile /\ reg = user[current]
    BY DEF IInv, Types, Running, Timer
<1>2. Resumable(current, <<>>, reg, reg)
    BY <1>1 DEF Resumable, SameCallee
<1>3. <<>> \in Seq(Values)
    BY EmptySeq
<1> QED
    BY <1>1, <1>2, <1>3, InterruptStep

LEMMA ShuffleFacts ==
    ASSUME NEW u \in RegFile
    PROVE  /\ Shuffled(u) \in RegFile /\ SameCallee(Shuffled(u), u)
           /\ Shuffled(u)["rdi"] = u["rax"] /\ Shuffled(u)["rsi"] = u["rdi"]
           /\ Shuffled(u)["rdx"] = u["rsi"]
<1>1. Shuffled(u) \in RegFile
    BY SomeRegs DEF Shuffled, RegFile
<1>2. \A r \in Range(Callee) : r \in Regs /\ r \notin {"r8", "r9", "r10", "rdx", "rsi", "rdi"}
    BY SomeRegs
<1>3. SameCallee(Shuffled(u), u)
    BY <1>2 DEF Shuffled, SameCallee, RegFile
<1> QED
    BY <1>1, <1>3, SomeRegs DEF Shuffled, RegFile

LEMMA FirstThree ==
    ASSUME NEW a \in Values, NEW b \in Values, NEW c \in Values, NEW d \in Values
    PROVE  SubSeq(<<a, b, c, d>>, 1, 3) = <<a, b, c>>
<1> DEFINE q == <<a, b, c, d>>
<1>1. q \in Seq(Values) /\ Len(q) = 4 /\ q[1] = a /\ q[2] = b /\ q[3] = c
    OBVIOUS
<1> HIDE DEF q
<1>2. /\ SubSeq(q, 1, 3) \in Seq(Values) /\ Len(SubSeq(q, 1, 3)) = 3
      /\ SubSeq(q, 1, 3)[1] = a /\ SubSeq(q, 1, 3)[2] = b /\ SubSeq(q, 1, 3)[3] = c
    BY <1>1
<1> DEFINE p == SubSeq(q, 1, 3)
           o == <<a, b, c>>
<1>3. o \in Seq(Values) /\ Len(o) = 3 /\ o[1] = a /\ o[2] = b /\ o[3] = c
    OBVIOUS
<1>4. p \in Seq(Values) /\ Len(p) = 3 /\ p[1] = a /\ p[2] = b /\ p[3] = c
    BY <1>2
<1> HIDE DEF o, p
<1>5. \A k \in 1..3 : k = 1 \/ k = 2 \/ k = 3
    OBVIOUS
<1>6. \A k \in 1..3 : p[k] = o[k]
    BY <1>3, <1>4, <1>5
<1>7. p = o
    BY <1>3, <1>4, <1>6, SeqEqual
<1> QED
    BY <1>7 DEF o, p, q

LEMMA SysEnterStep ==
    ASSUME IInv, SysEnter
    PROVE  IInv'
<1>1. /\ current \in Tasks /\ user \in [Tasks -> RegFile] /\ round \in Nat
      /\ kstack \in [Tasks -> Seq(Values)]
      /\ reg = user[current] /\ reg \in RegFile
    BY DEF IInv, Types, Running, SysEnter
<1> DEFINE e == EnteredFrom(reg)
<1>2. e \in RegFile /\ SameCallee(e, reg)
      /\ e["rax"] = reg["rax"] /\ e["rdi"] = reg["rdi"] /\ e["rsi"] = reg["rsi"]
    <2>1. e \in RegFile
        BY <1>1, EnteredType
    <2>2. \A r \in Regs \ {"rcx", "r11"} : e[r] = reg[r]
        BY <1>1 DEF EnteredFrom, RegFile
    <2>3. \A r \in Range(Callee) : r \in Regs \ {"rcx", "r11"}
        BY SomeRegs
    <2> QED
        BY <2>1, <2>2, <2>3, SomeRegs DEF SameCallee
<1>3. Entered = e
    BY DEF Entered, EnteredFrom
<1> HIDE DEF e
<1>4. /\ kstack' = [kstack EXCEPT ![current] = Pushed(<<>>, e, SyscallSaved)]
      /\ reg' = Shuffled(e)
      /\ args' = <<reg'["rdi"], reg'["rsi"], reg'["rdx"], reg'["rcx"]>>
      /\ mode' = "dispatch" /\ current' = current /\ user' = user /\ round' = round
    BY <1>3 DEF SysEnter
<1>5. Pushed(<<>>, e, SyscallSaved) = CallFrame(user[current])
    BY <1>1 DEF CallFrame, e
<1>6. CallFrame(user[current]) \in Seq(Values)
    BY <1>1, EnteredType
<1>7. /\ reg' \in RegFile /\ SameCallee(reg', user[current])
      /\ reg'["rdi"] = reg["rax"] /\ reg'["rsi"] = reg["rdi"] /\ reg'["rdx"] = reg["rsi"]
    BY <1>1, <1>2, <1>4, ShuffleFacts DEF SameCallee
<1>8. args'[1] = user[current]["rax"] /\
      SubSeq(args', 1, 3) = <<user[current]["rax"], user[current]["rdi"], user[current]["rsi"]>>
    <2>1. /\ reg'["rdi"] \in Values /\ reg'["rsi"] \in Values
          /\ reg'["rdx"] \in Values /\ reg'["rcx"] \in Values
        BY <1>7, SomeRegs DEF RegFile
    <2>2. SubSeq(args', 1, 3) = <<reg'["rdi"], reg'["rsi"], reg'["rdx"]>>
        BY <1>4, <2>1, FirstThree
    <2> QED
        BY <1>1, <1>4, <1>7, <2>2
<1>9. Types'
    BY <1>1, <1>4, <1>5, <1>6, <1>7 DEF Types
<1>10. ProgramsOutside'
    BY <1>4 DEF IInv, ProgramsOutside
<1>11. Running'
    BY <1>1, <1>4, <1>5, <1>7, <1>8 DEF Running
<1>12. \A t \in Tasks \ {current'} : Waiting(t)'
    <2>1. \A t \in Tasks \ {current} : Waiting(t) /\ kstack'[t] = kstack[t] /\ user'[t] = user[t]
        BY <1>1, <1>4 DEF IInv
    <2> QED
        BY <1>4, <2>1, StillWaiting
<1> QED
    BY <1>9, <1>10, <1>11, <1>12 DEF IInv
LEMMA SysComputeStep ==
    ASSUME IInv, SysCompute
    PROVE  IInv'
<1>1. /\ current \in Tasks /\ user \in [Tasks -> RegFile] /\ reg \in RegFile
      /\ SameCallee(reg, user[current]) /\ kstack[current] = CallFrame(user[current])
      /\ args[1] = user[current]["rax"]
    BY DEF IInv, Types, Running, SysCompute
<1>2. /\ reg' = AfterCall(reg, Result(args[1])) /\ mode' = "leave"
      /\ kstack' = kstack /\ current' = current /\ user' = user /\ round' = round
    BY DEF SysCompute
<1>3. args[1] \in Values /\ Result(args[1]) \in Values
    BY <1>1, NumbersAreValues, SomeRegs DEF RegFile
<1>4. /\ reg' \in RegFile /\ SameCallee(reg', user[current])
      /\ reg'["rax"] = Result(user[current]["rax"])
    BY <1>1, <1>2, <1>3, AfterCallKeeps DEF SameCallee
<1>5. Types'
    BY <1>2, <1>4 DEF IInv, Types
<1>6. ProgramsOutside'
    BY <1>2 DEF IInv, ProgramsOutside
<1>7. Running'
    BY <1>1, <1>2, <1>4 DEF Running
<1>8. \A t \in Tasks \ {current'} : Waiting(t)'
    BY <1>2, StillWaiting DEF IInv
<1> QED
    BY <1>5, <1>6, <1>7, <1>8 DEF IInv

LEMMA SysYieldStep ==
    ASSUME IInv, NEW next \in Tasks, SysYield(next)
    PROVE  IInv'
<1> DEFINE u == [AfterCall(reg, Junk) EXCEPT !["rip"] = InYield]
<1>1. /\ Interrupt(kstack[current], u, next) /\ UNCHANGED <<user, args, round>>
      /\ mode = "dispatch" /\ args[1] = SYS_YIELD
    BY DEF SysYield
<1>2. /\ current \in Tasks /\ kstack \in [Tasks -> Seq(Values)] /\ reg \in RegFile
      /\ SameCallee(reg, user[current]) /\ kstack[current] = CallFrame(user[current])
      /\ user[current]["rax"] = SYS_YIELD
    BY <1>1 DEF IInv, Types, Running
<1>3. AfterCall(reg, Junk) \in RegFile /\ SameCallee(AfterCall(reg, Junk), reg)
    BY <1>2, KernelValues, AfterCallKeeps
<1>4. u \in RegFile /\ u["rip"] = InYield /\ SameCallee(u, user[current])
    <2>1. u \in RegFile /\ u["rip"] = InYield /\ \A r \in Regs \ {"rip"} : u[r] = AfterCall(reg, Junk)[r]
        BY <1>3, KernelValues, SomeRegs DEF RegFile
    <2>2. \A r \in Range(Callee) : r \in Regs \ {"rip"}
        BY SomeRegs
    <2> QED
        BY <1>2, <1>3, <2>1, <2>2 DEF SameCallee
<1> HIDE DEF u
<1>5. Resumable(current, kstack[current], u, u)
    BY <1>2, <1>4 DEF Resumable
<1>6. kstack[current] \in Seq(Values)
    BY <1>2
<1> QED
    BY <1>1, <1>4, <1>5, <1>6, InterruptStep

LEMMA YieldReturnsStep ==
    ASSUME IInv, YieldReturns
    PROVE  IInv'
<1>1. /\ current \in Tasks /\ user \in [Tasks -> RegFile] /\ reg \in RegFile
      /\ SameCallee(reg, user[current]) /\ kstack[current] = CallFrame(user[current])
      /\ user[current]["rax"] = SYS_YIELD
    BY DEF IInv, Types, Running, YieldReturns
<1>2. /\ reg' = AfterCall(reg, Zero) /\ mode' = "leave"
      /\ kstack' = kstack /\ current' = current /\ user' = user /\ round' = round
    BY DEF YieldReturns
<1>3. /\ reg' \in RegFile /\ SameCallee(reg', user[current])
      /\ reg'["rax"] = Result(user[current]["rax"])
    BY <1>1, <1>2, KernelValues, NumbersAreValues, AfterCallKeeps DEF SameCallee
<1>4. Types'
    BY <1>2, <1>3 DEF IInv, Types
<1>5. ProgramsOutside'
    BY <1>2 DEF IInv, ProgramsOutside
<1>6. Running'
    BY <1>1, <1>2, <1>3 DEF Running
<1>7. \A t \in Tasks \ {current'} : Waiting(t)'
    BY <1>2, StillWaiting DEF IInv
<1> QED
    BY <1>4, <1>5, <1>6, <1>7 DEF IInv

\* The pops and SYSRET undo what SYSCALL and the entry stub did, but for rax,
\* rcx and r11.
LEMMA SysLeaveStep ==
    ASSUME IInv, SysLeave
    PROVE  IInv'
<1> DEFINE uc == user[current]
           popped == PopsOfSyscall(kstack[current], reg)
           after == [uc EXCEPT !["rax"] = Result(uc["rax"]), !["rcx"] = uc["rip"], !["r11"] = uc["rflags"]]
<1>1. /\ current \in Tasks /\ user \in [Tasks -> RegFile] /\ reg \in RegFile /\ uc \in RegFile
      /\ kstack \in [Tasks -> Seq(Values)]
      /\ SameCallee(reg, uc) /\ kstack[current] = CallFrame(uc)
      /\ reg["rax"] = Result(uc["rax"]) /\ uc["rip"] # InYield
    BY DEF IInv, Types, Running, ProgramsOutside, SysLeave
<1>2. /\ reg' = Sysret(popped)
      /\ kstack' = [kstack EXCEPT ![current] = RestOfStack(kstack[current])]
      /\ mode' = "user" /\ user' = [user EXCEPT ![current] = after]
      /\ current' = current /\ round' = round
    <2>1. user' = [user EXCEPT ![current] = after]
        BY DEF SysLeave
    <2>2. kstack' = [kstack EXCEPT ![current] = RestOfStack(kstack[current])]
        BY DEF SysLeave
    <2> QED
        BY <2>1, <2>2 DEF SysLeave
<1> HIDE DEF uc
<1>3. /\ popped = [r \in Regs |-> IF r \in Range(SyscallSaved) THEN EnteredFrom(uc)[r] ELSE reg[r]]
      /\ RestOfStack(kstack[current]) = <<>>
    <2> DEFINE e == EnteredFrom(uc)
               p == Pushed(<<>>, e, SyscallSaved)
    <2>1. <<>> \in Seq(Values) /\ e \in RegFile
        BY <1>1, EmptySeq, EnteredType
    <2>2. kstack[current] = p
        BY <1>1 DEF CallFrame
    <2> HIDE DEF e
    <2>3. /\ Popped(p, reg, SyscallSaved)
                = [r \in Regs |-> IF r \in Range(SyscallSaved) THEN e[r] ELSE reg[r]]
          /\ Below(p, SyscallSaved) = <<>>
        <3>1. SyscallSaved \in Seq(Regs)
            BY ListsAreSequences
        <3>2. \A s \in Seq(Values), names \in Seq(Regs) :
                 /\ Popped(Pushed(s, e, names), reg, names)
                       = [r \in Regs |-> IF r \in Range(names) THEN e[r] ELSE reg[r]]
                 /\ Below(Pushed(s, e, names), names) = s
            BY <1>1, <2>1, PopPush
        <3> QED
            BY <2>1, <3>1, <3>2, Zenon
    <2> HIDE DEF p
    <2> QED
        BY <2>2, <2>3 DEF PopsOfSyscall, RestOfStack, e
<1>4. Result(uc["rax"]) \in Values
    BY <1>1, NumbersAreValues, SomeRegs DEF RegFile
<1>5. /\ after \in RegFile /\ after["rax"] = Result(uc["rax"])
      /\ after["rcx"] = uc["rip"] /\ after["r11"] = uc["rflags"]
      /\ \A r \in Regs \ {"rax", "rcx", "r11"} : after[r] = uc[r]
    BY <1>1, <1>4, SomeRegs DEF RegFile
<1>6. /\ EnteredFrom(uc) \in RegFile
      /\ EnteredFrom(uc)["rcx"] = uc["rip"] /\ EnteredFrom(uc)["r11"] = uc["rflags"]
      /\ \A r \in Regs \ {"rcx", "r11"} : EnteredFrom(uc)[r] = uc[r]
    BY <1>1, EnteredType, SomeRegs DEF EnteredFrom, RegFile
<1> HIDE DEF after, popped
<1>7. /\ popped \in RegFile
      /\ \A r \in Range(SyscallSaved) : popped[r] = EnteredFrom(uc)[r]
      /\ \A r \in Regs \ Range(SyscallSaved) : popped[r] = reg[r]
    <2>1. \A r \in Range(SyscallSaved) : r \in Regs
        BY Lists, SomeRegs
    <2> QED
        BY <1>1, <1>3, <1>6, <2>1 DEF RegFile
<1>8. /\ "rcx" \in Range(SyscallSaved) /\ "r11" \in Range(SyscallSaved)
      /\ \A r \in Regs : \/ r \in {"rax", "rip", "rflags"} /\ r \notin Range(SyscallSaved)
                         \/ r \in Range(Callee) /\ r \notin Range(SyscallSaved)
                         \/ r \in Range(SyscallSaved)
    BY Lists DEF Regs
<1>9. /\ reg' \in RegFile /\ reg'["rip"] = popped["rcx"] /\ reg'["rflags"] = popped["r11"]
      /\ \A r \in Regs \ {"rip", "rflags"} : reg'[r] = popped[r]
    BY <1>2, <1>7, SomeRegs DEF Sysret, RegFile
<1>10. \A r \in Regs : reg'[r] = after[r]
    <2>1. reg'["rip"] = after["rip"] /\ reg'["rflags"] = after["rflags"]
        BY <1>5, <1>6, <1>7, <1>8, <1>9, SomeRegs
    <2>2. reg'["rax"] = after["rax"]
        <3>1. "rax" \in Regs \ Range(SyscallSaved)
            BY Lists, SomeRegs
        <3> QED
            BY <1>1, <1>5, <1>7, <1>9, <3>1
    <2>3. \A r \in Range(Callee) : reg'[r] = after[r]
        <3>1. \A r \in Range(Callee) : /\ r \in Regs \ Range(SyscallSaved)
                                       /\ r \in Regs \ {"rip", "rflags"}
                                       /\ r \in Regs \ {"rax", "rcx", "r11"}
            BY Lists, SomeRegs
        <3> QED
            BY <1>1, <1>5, <1>7, <1>9, <3>1 DEF SameCallee
    <2>4. reg'["rcx"] = after["rcx"] /\ reg'["r11"] = after["r11"]
        BY <1>5, <1>6, <1>7, <1>8, <1>9, SomeRegs
    <2>5. \A r \in Range(SyscallSaved) \ {"rcx", "r11"} : reg'[r] = after[r]
        <3>1. \A r \in Range(SyscallSaved) \ {"rcx", "r11"} :
                  /\ r \in Regs \ {"rip", "rflags"} /\ r \in Regs \ {"rcx", "r11"}
                  /\ r \in Regs \ {"rax", "rcx", "r11"}
            BY Lists, SomeRegs
        <3> QED
            BY <1>5, <1>6, <1>7, <1>9, <3>1
    <2> QED
        BY <1>8, <2>1, <2>2, <2>3, <2>4, <2>5
<1>11. reg' = after
    BY <1>5, <1>9, <1>10 DEF RegFile
<1>12. Types'
    <2>1. <<>> \in Seq(Values)
        BY EmptySeq
    <2>2. round' \in Nat
        BY <1>2 DEF IInv, Types
    <2>3. kstack' \in [Tasks -> Seq(Values)]
        BY <1>1, <1>2, <1>3, <2>1
    <2> QED
        BY <1>1, <1>2, <1>5, <1>9, <2>2, <2>3 DEF Types
<1>13. ProgramsOutside'
    <2>1. after["rip"] # InYield
        BY <1>1, <1>5, SomeRegs
    <2> QED
        BY <1>1, <1>2, <2>1 DEF IInv, ProgramsOutside
<1>14. Running'
    BY <1>1, <1>2, <1>3, <1>11 DEF Running
<1>15. \A t \in Tasks \ {current'} : Waiting(t)'
    <2>1. \A t \in Tasks \ {current} : Waiting(t) /\ kstack'[t] = kstack[t] /\ user'[t] = user[t]
        BY <1>1, <1>2 DEF IInv
    <2> QED
        BY <1>2, <2>1, StillWaiting
<1> QED
    BY <1>12, <1>13, <1>14, <1>15 DEF IInv

-----------------------------------------------------------------------------
(* The theorems *)

\* In every state the task that runs has its own registers, or those of its
\* call, and every task that waits has exactly its context on its stack.
THEOREM InductiveInvariant == Spec => []IInv
<1>1. IInv /\ [Next]_vars => IInv'
    <2> SUFFICES ASSUME IInv, [Next]_vars
                 PROVE  IInv'
        OBVIOUS
    <2>1. ASSUME NEW nr \in Numbers, Compute(nr)
          PROVE  IInv'
        BY <2>1, ComputeStep
    <2>2. CASE SysEnter
        BY <2>2, SysEnterStep
    <2>3. CASE SysCompute
        BY <2>3, SysComputeStep
    <2>4. CASE YieldReturns
        BY <2>4, YieldReturnsStep
    <2>5. CASE SysLeave
        BY <2>5, SysLeaveStep
    <2>6. ASSUME NEW next \in Tasks, Timer(next)
          PROVE  IInv'
        BY <2>6, TimerStep
    <2>7. ASSUME NEW next \in Tasks, SysYield(next)
          PROVE  IInv'
        BY <2>7, SysYieldStep
    <2>8. CASE UNCHANGED vars
        <3>1. /\ reg' = reg /\ kstack' = kstack /\ current' = current /\ mode' = mode
              /\ user' = user /\ args' = args /\ round' = round
            BY <2>8 DEF vars
        <3>2. Types' /\ ProgramsOutside' /\ Running'
            BY <3>1 DEF IInv, Types, ProgramsOutside, Running
        <3>3. \A t \in Tasks \ {current'} : Waiting(t)'
            BY <3>1, StillWaiting DEF IInv
        <3> QED
            BY <3>2, <3>3 DEF IInv
    <2> QED
        BY <2>1, <2>2, <2>3, <2>4, <2>5, <2>6, <2>7, <2>8 DEF Next
<1> QED
    BY <1>1, InitEstablishes, PTL DEF Spec

\* A program finds its registers as it left them, whatever interrupted it.
THEOREM RegistersIntact == Spec => []UserRegistersIntact
<1>1. IInv => UserRegistersIntact
    BY DEF IInv, Running, UserRegistersIntact
<1> QED
    BY <1>1, InductiveInvariant, PTL

\* Every entry is undone by the return that matches it.
THEOREM StacksUnwind == Spec => []StackUnwinds
<1>1. IInv => StackUnwinds
    <2> SUFFICES ASSUME IInv
                 PROVE  StackUnwinds
        OBVIOUS
    <2>1. Len(Scratch) = 9 /\ Len(Callee) = 6 /\ Len(Frame) = 2 /\ Len(SyscallSaved) = 8
        BY Lists
    <2>2. /\ current \in Tasks /\ user \in [Tasks -> RegFile]
          /\ Running /\ \A t \in Tasks \ {current} : Waiting(t)
        BY DEF IInv, Types
    <2>3. \A t \in Tasks : Len(CallFrame(user[t])) = 8
        BY <2>2, EnteredType
    <2>4. Len(<<>>) = 0
        BY EmptySeq
    <2>5. Len(kstack[current]) = IF mode = "user" THEN 0 ELSE Len(SyscallSaved)
        <3>1. Len(CallFrame(user[current])) = Len(SyscallSaved)
            BY <2>1, <2>2, <2>3
        <3> QED
            BY <2>2, <2>4, <3>1 DEF Running
    <2>6. Depths = {17, 25}
        BY <2>1 DEF Depths
    <2>7. ASSUME NEW t \in Tasks \ {current}
          PROVE  Len(kstack[t]) \in Depths
        <3>1. PICK base \in Seq(Values), u \in RegFile, w \in RegFile :
                  Resumable(t, base, u, w) /\ kstack[t] = Context(base, u, w)
            BY <2>2 DEF Waiting
        <3>2. Len(kstack[t]) = Len(base) + 17
            BY <3>1, ContextType
        <3>3. base = <<>> \/ base = CallFrame(user[t])
            BY <3>1 DEF Resumable
        <3>4. Len(base) = 0 \/ Len(base) = 8
            BY <2>3, <2>4, <3>3
        <3>5. Len(kstack[t]) = 17 \/ Len(kstack[t]) = 25
            <4>1. 0 + 17 = 17 /\ 8 + 17 = 25
                OBVIOUS
            <4> QED
                BY <3>2, <3>4, <4>1, Zenon
        <3> QED
            BY <2>6, <3>5
    <2> QED
        BY <2>5, <2>7 DEF StackUnwinds
<1> QED
    BY <1>1, InductiveInvariant, PTL

\* The dispatcher gets the number and the first two arguments of the caller.
THEOREM ArgumentsReachDispatcher == Spec => []ArgumentsArrive
<1>1. IInv => ArgumentsArrive
    BY DEF IInv, Running, ArgumentsArrive
<1> QED
    BY <1>1, InductiveInvariant, PTL
=============================================================================
