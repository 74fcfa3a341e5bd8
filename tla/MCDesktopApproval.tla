------------------------- MODULE MCDesktopApproval -------------------------
(***************************************************************************)
(* A small instance of DesktopApproval, and so of AutomationGate, for TLC. *)
(***************************************************************************)
EXTENDS DesktopApproval
=============================================================================
