----------------------------- MODULE MCScheduler -----------------------------
(* Instances of Scheduler for TLC: the daemon, one kernel worker, a user   *)
(* process of two tasks (as load_user_loop() makes it) and another one.    *)
EXTENDS Scheduler, TLC

CONSTANTS K, U1, U2, V1, pd, pk, pu, pv, sk, su, sv

MCTasks == {Daemon, K, U1, U2, V1}
MCUserTasks == {U1, U2, V1}
MCProcs == {pd, pk, pu, pv}
MCSpaces == {sk, su, sv}
MCProcOf == (Daemon :> pd) @@ (K :> pk) @@ (U1 :> pu) @@ (U2 :> pu) @@ (V1 :> pv)
MCMainOf == (pd :> Daemon) @@ (pk :> K) @@ (pu :> U1) @@ (pv :> V1)
MCSpaceOf == (pd :> sk) @@ (pk :> sk) @@ (pu :> su) @@ (pv :> sv)

\* Every task scheduled, and the two tasks of one process only.
OrderAll == <<K, U1, U2, V1>>
OrderGroup == <<U1, U2>>
==============================================================================
