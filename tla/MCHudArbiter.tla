---------------------------- MODULE MCHudArbiter ----------------------------
(***************************************************************************)
(* A small instance of HudArbiter for TLC.                                 *)
(***************************************************************************)
EXTENDS HudArbiter
=============================================================================
