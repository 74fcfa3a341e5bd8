-------------------------- MODULE MCAutomationLock --------------------------
(***************************************************************************)
(* Small instances of AutomationLock for TLC.                              *)
(***************************************************************************)
EXTENDS AutomationLock, TLC

Symmetry == Permutations(Callers)
=============================================================================
