---------------------------- MODULE MCScheduler ----------------------------
(* Two VPUs, the main coroutine and two it may spawn.                      *)
EXTENDS Scheduler, TLC

CONSTANTS m, a, b

MCSymmetry == Permutations({a, b})
=============================================================================
