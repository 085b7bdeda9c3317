---------------------------- MODULE MCControlThread ----------------------------
(* Constants of the rt_control_thread runs. *)
EXTENDS ControlThread

CONSTANTS p1, p2
================================================================================
