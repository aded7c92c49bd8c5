---------------------------- MODULE MCAutomations ----------------------------
(***************************************************************************)
(* Two automations that are due in the first of two minutes, which may be  *)
(* served in the second; two jobs at a time, so that schedulers run beside *)
(* each other and beside runs; one change, and one stop of the worker or   *)
(* enqueue that fails.                                                     *)
(***************************************************************************)
EXTENDS AutomationScheduler, TLC

CONSTANTS a1, a2

mcAutos == {a1, a2}
mcSchedules == {{1}}
mcSymmetry == Permutations(mcAutos)

=============================================================================
