------------------------------ MODULE TaskLife ------------------------------
(***************************************************************************)
(* What the scheduler promises about tasks, with no queue, no registers    *)
(* and no interrupts.  A task is admitted during boot, takes turns on the  *)
(* CPU, dies by its own exit or with its group, and is reaped.  A process  *)
(* is torn down with its main task, once none of its tasks can run.        *)
(***************************************************************************)
CONSTANTS Tasks, Procs, Boot, Daemon, UserTasks, ProcOf, MainOf

VARIABLES
    life,   \* stage of each task's life
    cpu,    \* the task that executes, or Boot
    gone    \* processes whose address space is destroyed

vars == <<life, cpu, gone>>

Stages == {"new", "ready", "running", "dead", "reaped"}

Group(p) == {t \in Tasks : ProcOf[t] = p}

Init ==
    /\ life = [t \in Tasks |-> "new"]
    /\ cpu = Boot
    /\ gone = {}

Admit(t) ==
    /\ cpu = Boot
    /\ life[t] = "new"
    /\ life' = [life EXCEPT ![t] = "ready"]
    /\ UNCHANGED <<cpu, gone>>

\* t takes the CPU from a task that stays ready, from a dead one or from
\* the boot thread.
Dispatch(t) ==
    /\ life[t] = "ready"
    /\ life' = [u \in Tasks |-> CASE u = t -> "running"
                                  [] u = cpu /\ life[u] = "running" -> "ready"
                                  [] OTHER -> life[u]]
    /\ cpu' = t
    /\ UNCHANGED gone

\* The executing user task ends itself, or its whole group if it likes or
\* if it is the main task.
Exit ==
    /\ cpu \in UserTasks
    /\ life[cpu] = "running"
    /\ \E dying \in {{cpu}, Group(ProcOf[cpu])} :
          /\ MainOf[ProcOf[cpu]] \in dying => dying = Group(ProcOf[cpu])
          /\ life' = [t \in Tasks |-> IF t \in dying /\ life[t] \in {"ready", "running"}
                                      THEN "dead" ELSE life[t]]
    /\ UNCHANGED <<cpu, gone>>

Reap(t) ==
    /\ cpu = Daemon
    /\ life[t] = "dead"
    /\ MainOf[ProcOf[t]] = t => ProcOf[t] \in gone
    /\ life' = [life EXCEPT ![t] = "reaped"]
    /\ UNCHANGED <<cpu, gone>>

Teardown(p) ==
    /\ cpu = Daemon
    /\ p \notin gone
    /\ life[MainOf[p]] = "dead"
    /\ \A t \in Group(p) : life[t] \notin {"ready", "running"}
    /\ gone' = gone \cup {p}
    /\ UNCHANGED <<life, cpu>>

Next ==
    \/ \E t \in Tasks : Admit(t) \/ Dispatch(t) \/ Reap(t)
    \/ Exit
    \/ \E p \in Procs : Teardown(p)

Spec == Init /\ [][Next]_vars
=============================================================================
