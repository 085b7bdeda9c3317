----------------------------- MODULE MCBlockEvents -----------------------------
(* Constants of the block event runs. *)
EXTENDS BlockEvents

TwoSources == <<"ipc", "hw">>
================================================================================
