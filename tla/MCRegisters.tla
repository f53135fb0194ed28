---------------------------- MODULE MCRegisters ----------------------------
(* Instances of Registers: two tasks, and values that alternate so that a   *)
(* stale one is told from a fresh one.                                      *)
EXTENDS Registers

CONSTANTS U1, U2

MCTasks == {U1, U2}
=============================================================================
