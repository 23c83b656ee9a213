-------------------------- MODULE MCOverrideWindow --------------------------
(* Instances of OverrideWindow for TLC. *)
EXTENDS OverrideWindow, TLC

CONSTANTS u1, u2, t1, t2
=============================================================================
