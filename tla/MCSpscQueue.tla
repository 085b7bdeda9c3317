------------------------------ MODULE MCSpscQueue ------------------------------
(* Constants of the spsc_queue runs. *)
EXTENDS SpscQueue

CONSTANTS a, b, p1, p2
================================================================================
